--------------------------- MODULE GameCopyProofs ---------------------------
(***************************************************************************)
(* Proofs about the copies of one game: unless a prediction was overtaken, *)
(* a page that has heard everything shows the server's state, and every    *)
(* request it made on its connection is answered; and turns see to it that *)
(* in play no prediction is overtaken.                                     *)
(***************************************************************************)
EXTENDS GameSyncProofs

-----------------------------------------------------------------------------
(* The invariant *)

\* How far a trick is: it begins with nothing on the table, only those who have a
\* seat have played, and once all have, it is nobody's turn unless the winner is alone.
InTurn(st) ==
  /\ st.phase = "LEAD" => st.plays = NoPlays /\ st.winning = NULL
  /\ st.phase = "FOLLOW" =>
       /\ \A u \in Users : st.plays[u] # NULL => u \in Seated(st)
       /\ trick_over(st.plays, st) => current(st) \in {NULL, st.winning}
OpenInTurn == \A st \in Openings : InTurn(st)

\* It is not for o to do anything that their page would predict.
Waits(st, o) ==
  \A m \in Intents : m.p = o /\ m.kind \in Predictable => ~Allowed(st, m)

\* What may come in between: the lobby, an undo, and o's own.
Loose == {"add_player", "rm_player", "init_game", "observe_undo"}
Excuse(m, o) == Foreign(m) /\ (m.cmd.effect.kind \in Loose \/ m.cmd.effect.p = o)
Excused(d, o) == \E i \in 1..Len(d) : Excuse(d[i], o)

\* What a message shows to the copy of o, who was waiting for it if there is no
\* excuse, and what a request of o's makes of a state.
Shows(o) ==
  {t \in States \X Down \X States :
     IF Foreign(t[2])
     THEN /\ t[3] = Apply(t[1], t[2].cmd.effect, o)
          /\ OpenInTurn => Excuse(t[2], o) \/ Waits(t[1], o)
     ELSE t[3] = t[1]}

Ahead(m) == Asks(m) /\ m.intent.kind \in Predictable

Foresees(o) ==
  {t \in States \X Up \X States :
     IF Ahead(t[2])
     THEN /\ t[2].intent.p = o /\ Allowed(t[1], t[2].intent)
          /\ t[3] = Commit(t[1], t[2].intent)
     ELSE t[3] = t[1]}

NoForeign(d) == \A i \in 1..Len(d) : ~Foreign(d[i])
NoAhead(u)   == \A i \in 1..Len(u) : ~Ahead(u[i])

\* A synced copy gets to the server's state st by what is on its way to it, if the
\* page predicts nothing; and where nobody else did anything, it is what the
\* server's state will be when it has heard the page.  With both on their way,
\* the prediction is about to be overtaken, by something that excuses it.
Copy(how, o, copy, d, u, st) ==
  /\ how = "sync" /\ NoAhead(u) => Leads(Shows(o), d, copy, st)
  /\ how = "sync" /\ NoForeign(d) => Leads(Foresees(o), u, st, copy)
  /\ how = "sync" /\ OpenInTurn => NoAhead(u) \/ NoForeign(d) \/ Excused(d, o)
  /\ how = "pending-reset" => d # <<>> /\ Leads(Shows(o), Tail(d), d[1].state, st)

\* A request is on its way, or its answer is; after bye nothing more is answered.
Awaited(u, tx) == \E i \in 1..Len(u) : Asks(u[i]) /\ u[i].tx = tx
Settles(m, tx) == m.verb = "bye" \/ (Replies(m) /\ m.tx = tx)
Replied(d, tx) == \E i \in 1..Len(d) : Settles(d[i], tx)

\* So it is with all that is pending on the present connection.
Answered(sock, pending, d, u) ==
  \A p \in pending : p.conn = sock => Awaited(u, p.tx) \/ Replied(d, p.tx)

Copied(s, x, b) ==
  LET c  == Sock(b)
      pg == page[b]
  IN  /\ c \notin s.lost
      /\ c \in s.synced => Copy(pg.status, UserOf[b], pg.state, s.down[c], x[c], s.st)
      /\ pg.status = "sync" => Answered(pg.sock, pg.pending, s.down[c], x[c])

\* Requests are of the connection they were made on.
Dated(b) ==
  /\ \A p \in page[b].pending : p.conn <= page[b].conns
  /\ Connected(b) /\ page[b].status # "sync" =>
       \A p \in page[b].pending : p.conn # page[b].sock

\* Whoever has the game open while a trick is played plays it.
AllSeated(st) == InPlay(st) => \A b \in Pages : UserOf[b] \in Seated(st)
Proper(st) == AllSeated(st) /\ (OpenInTurn => InTurn(st))

Copies(s, x) ==
  /\ Proper(s.st)
  /\ \A b \in Pages \ overtaken : Connected(b) => Copied(s, x, b)

CopyInv ==
  /\ Inv
  /\ \A b \in Pages : Dated(b)
  /\ Copies(server, up)

-----------------------------------------------------------------------------
(* Turns *)

\* No more have played than sit at the table.
LEMMA PlayedFit ==
  ASSUME NEW st \in States, NEW S, S \subseteq Seated(st)
  PROVE  IsFiniteSet(S) /\ Cardinality(S) \in Nat /\ Cardinality(S) <= Len(st.players)
<1>1. st.players \in Seq(Users)
  BY DEF States
<1> DEFINE n == Len(st.players)
           f == st.players
<1>2. n \in Nat /\ f \in [1..n -> Seated(st)] /\ \A u \in Seated(st) : \E i \in 1..n : f[i] = u
  BY <1>1 DEF Seated, Range
<1> HIDE DEF n
<1>3. IsFiniteSet(1..n) /\ Cardinality(1..n) = n
  BY <1>2, FS_Interval
<1>4. f \in Surjection(1..n, Seated(st))
  BY <1>2 DEF Surjection
<1> HIDE DEF f
<1>5. IsFiniteSet(Seated(st)) /\ Cardinality(Seated(st)) <= n
  BY <1>3, <1>4, FS_Surjection
<1>6. IsFiniteSet(S) /\ Cardinality(S) <= Cardinality(Seated(st))
  BY <1>5, FS_Subset
<1> QED
  BY <1>2, <1>5, <1>6, FS_CardinalityType DEF n

LEMMA CurrentIs ==
  ASSUME NEW st \in States
  PROVE  /\ current(st) = NULL \/ current(st) \in Seated(st)
         /\ st.cur = NULL => current(st) = NULL
<1>1. st.players \in Seq(Users) /\ st.cur \in Nat \cup {NULL}
  BY DEF States
<1> QED
  BY <1>1 DEF current, Seated, Range

\* Every effect leaves a trick that goes by turns.
LEMMA TurnsGoOn ==
  ASSUME NEW st \in States, InTurn(st), NEW m \in Intents, Allowed(st, m), NEW e \in EffectsOf(st, m)
  PROVE  InTurn(Commit(st, e))
<1> DEFINE t == Commit(st, e)
<1>1. e \in Effects /\ e.p = m.p /\ t \in States /\ m.p \in Users /\ m.p # NULL
  BY EffectsTyped, TableAssumption DEF Intents
<1>2. CASE m.kind \in {"add_player", "rm_player"}
  <2>1. e = m /\ st.phase = "INIT"
    BY <1>2 DEF Allowed, EffectsOf
  <2>2. t.phase = "INIT"
    BY <1>2, <2>1 DEF Commit, AddPlayer, RmPlayer, States
  <2> QED BY <2>2 DEF InTurn
<1>3. CASE m.kind = "start_game"
  <2>1. e.kind = "init_game"
    BY <1>3 DEF EffectsOf, Call
  <2>2. t.phase = "DRAW"
    BY <2>1 DEF Commit, InitGame, States
  <2> QED BY <2>2 DEF InTurn
<1>4. CASE m.kind = "draw_card"
  <2>1. e.kind = "add_to_hand" /\ st.phase = "DRAW"
    BY <1>4 DEF EffectsOf, Call, Allowed
  <2>2. t.phase \in {"DRAW", "PREPARE"}
    BY <2>1 DEF Commit, AddToHand, States
  <2> QED BY <2>2 DEF InTurn
<1>5. CASE m.kind = "lead_play"
  <2>1. e = m /\ st.phase = "LEAD" /\ m.p = current(st) /\ m.arg \in Plays
    BY <1>5 DEF EffectsOf, Allowed, my_turn, Intents
  <2>2. st.plays = NoPlays /\ st.winning = NULL
    BY <2>1 DEF InTurn
  <2>3. t = [CommitPlay(st, m.p, m.arg) EXCEPT !.phase = "FOLLOW"]
    BY <1>5, <2>1 DEF Commit, ObserveLead
  <2>4. /\ t.phase = "FOLLOW" /\ t.players = st.players /\ t.winning = m.p
        /\ t.cur = Next_idx(st, st.cur) /\ t.plays = [NoPlays EXCEPT ![m.p] = m.arg]
    BY <2>2, <2>3 DEF CommitPlay, States
  <2>5. m.p \in Seated(st) /\ st.players \in Seq(Users)
    BY <1>1, <2>1, CurrentIs DEF States
  <2>6. \A u \in Users : t.plays[u] # NULL => u = m.p
    BY <2>4 DEF NoPlays
  <2>7. m.arg # NULL
    BY <2>1, TableAssumption DEF Plays, Lead, Follows
  <2>8. ASSUME trick_over(t.plays, t) PROVE current(t) \in {NULL, t.winning}
    <3>1. {u \in Users : t.plays[u] # NULL} = {m.p}
      BY <1>1, <2>4, <2>6, <2>7 DEF NoPlays
    <3>2. Len(st.players) = 1
      BY <2>4, <2>8, <3>1, FS_Singleton DEF trick_over
    <3>3. st.cur \in Nat \cup {NULL} /\ NULL \notin Nat
      BY TableAssumption DEF States
    <3>4. Next_idx(st, st.cur) = 0
      BY <3>2, <3>3 DEF Next_idx
    <3>5. st.players[1] = m.p
      BY <2>5, <3>2 DEF Seated, Range
    <3> QED BY <2>4, <3>2, <3>4, <3>5 DEF current
  <2> QED BY <2>4, <2>5, <2>6, <2>8 DEF InTurn, Seated
<1>6. CASE m.kind = "follow_lead"
  <2>1. e = m /\ st.phase = "FOLLOW" /\ m.p = current(st) /\ m.arg \in Plays
    BY <1>6 DEF EffectsOf, Allowed, my_turn, Intents
  <2> DEFINE played == CommitPlay(st, m.p, m.arg)
  <2>2. t = IF trick_over(played.plays, st) THEN [played EXCEPT !.cur = NULL] ELSE played
    BY <1>6, <2>1 DEF Commit, ObserveFollow
  <2>3. /\ played.players = st.players /\ played.plays = [st.plays EXCEPT ![m.p] = m.arg]
        /\ DOMAIN played = DOMAIN st /\ "cur" \in DOMAIN played
    BY DEF CommitPlay, States
  <2> HIDE DEF played
  <2>4. /\ t.players = st.players /\ t.plays = [st.plays EXCEPT ![m.p] = m.arg]
        /\ trick_over(t.plays, t) => t.cur = NULL
    <3>1. CASE trick_over(played.plays, st)
      BY <2>2, <2>3, <3>1
    <3>2. CASE ~trick_over(played.plays, st)
      <4>1. t = played
        BY <2>2, <3>2
      <4> HIDE DEF t
      <4> QED BY <2>3, <3>2, <4>1 DEF trick_over
    <3> QED BY <3>1, <3>2
  <2>5. m.p \in Seated(st) /\ st.plays \in [Users -> Plays \cup {NULL}]
    BY <1>1, <2>1, CurrentIs DEF States, Plays
  <2>6. \A u \in Users : t.plays[u] # NULL => u \in Seated(t)
    BY <2>1, <2>4, <2>5 DEF InTurn, Seated
  <2>7. t.phase = "FOLLOW"
    BY <2>1, <2>2 DEF played, CommitPlay, States
  <2> QED BY <1>1, <2>4, <2>6, <2>7, CurrentIs DEF InTurn
<1>7. CASE m.kind = "undo_play"
  <2>1. e = Call("observe_undo", m.p, NULL) /\ st.phase = "FOLLOW" /\ st.plays[m.p] # NULL
    BY <1>7 DEF EffectsOf, Allowed, CheckUndo
  <2>2. t = ObserveUndo(st, m.p)
    BY <2>1 DEF Commit, Call
  <2>3. t.phase = "FOLLOW" /\ t.players = st.players /\ t.plays = [st.plays EXCEPT ![m.p] = NULL]
    BY <2>1, <2>2 DEF ObserveUndo, States
  <2> DEFINE S == {u \in Users : st.plays[u] # NULL}
             T == {u \in Users : t.plays[u] # NULL}
  <2>4. st.plays \in [Users -> Plays \cup {NULL}] /\ S \subseteq Seated(st)
    BY <2>1 DEF InTurn, States, Plays
  <2>5. T = S \ {m.p} /\ m.p \in S
    BY <1>1, <2>1, <2>3, <2>4
  <2>6. \A u \in Users : t.plays[u] # NULL => u \in Seated(t)
    BY <2>3, <2>4, <2>5 DEF Seated
  <2>7. Cardinality(T) # Len(st.players)
    <3> HIDE DEF S, T
    <3>1. IsFiniteSet(S) /\ Cardinality(S) \in Nat /\ Cardinality(S) <= Len(st.players)
      BY <2>4, PlayedFit
    <3>2. Cardinality(T) = Cardinality(S) - 1
      BY <2>5, <3>1, FS_RemoveElement
    <3>3. Len(st.players) \in Nat
      BY DEF States
    <3> QED BY <3>1, <3>2, <3>3
  <2>8. ~trick_over(t.plays, t)
    BY <2>3, <2>7 DEF trick_over
  <2> QED BY <2>3, <2>6, <2>8 DEF InTurn
<1>8. CASE m.kind = "collect_trick"
  <2>1. e = m
    BY <1>8 DEF EffectsOf
  <2>2. t = CollectTrick(st, m.p)
    BY <1>8, <2>1 DEF Commit
  <2>3. t.phase = "FINISH" \/ (t.phase = "LEAD" /\ t.plays = NoPlays /\ t.winning = NULL)
    BY <2>2 DEF CollectTrick, States
  <2> QED BY <2>3 DEF InTurn
<1> QED
  BY <1>2, <1>3, <1>4, <1>5, <1>6, <1>7, <1>8 DEF Intents

\* While somebody else has the turn there is nothing for o to predict.
LEMMA TurnWaits ==
  ASSUME NEW st \in States, InTurn(st), NEW m \in Intents, Allowed(st, m),
         NEW e \in EffectsOf(st, m), e.kind \notin Loose, NEW o, e.p # o
  PROVE  Waits(st, o)
<1>1. e \in Effects /\ e.p = m.p /\ m.p \in Users /\ m.p # NULL
  BY EffectsTyped, TableAssumption DEF Intents
<1>2. m.kind \in {"draw_card", "lead_play", "follow_lead", "collect_trick"}
  <2>1. m.kind \in {"add_player", "rm_player"} => e = m
    BY DEF EffectsOf
  <2>2. m.kind = "start_game" => e.kind = "init_game"
    BY DEF EffectsOf, Call
  <2>3. m.kind = "undo_play" => e.kind = "observe_undo"
    BY DEF EffectsOf, Call
  <2> QED BY <2>1, <2>2, <2>3 DEF Loose, Intents
<1> SUFFICES ASSUME NEW i \in Intents, i.p = o, i.kind \in Predictable, Allowed(st, i) PROVE FALSE
  BY DEF Waits
<1>3. CASE m.kind = "draw_card"
  BY <1>3 DEF Allowed, Predictable
<1>4. CASE m.kind = "lead_play"
  <2>1. st.phase = "LEAD" /\ m.p = current(st)
    BY <1>4 DEF Allowed, my_turn
  <2> QED BY <1>1, <2>1 DEF Allowed, Predictable, my_turn
<1>5. CASE m.kind = "follow_lead"
  <2>1. st.phase = "FOLLOW" /\ m.p = current(st)
    BY <1>5 DEF Allowed, my_turn
  <2>2. i.kind = "collect_trick" /\ trick_over(st.plays, st) /\ i.p = st.winning
    BY <1>1, <2>1 DEF Allowed, Predictable, my_turn
  <2> QED BY <1>1, <2>1, <2>2 DEF InTurn
<1>6. CASE m.kind = "collect_trick"
  <2>1. st.phase = "FOLLOW" /\ trick_over(st.plays, st) /\ m.p = st.winning
    BY <1>6 DEF Allowed
  <2>2. i.kind = "follow_lead" /\ i.p = current(st)
    BY <1>1, <2>1 DEF Allowed, Predictable, my_turn
  <2>3. i.p # NULL
    BY TableAssumption DEF Intents
  <2> QED BY <1>1, <2>1, <2>2, <2>3 DEF InTurn
<1> QED
  BY <1>2, <1>3, <1>4, <1>5, <1>6

LEMMA EffectForKeeps ==
  ASSUME NEW e \in Effects, NEW u
  PROVE  EffectFor(e, u).p = e.p /\ (EffectFor(e, u).kind \in Loose <=> e.kind \in Loose)
BY DEF EffectFor, Effects, Loose

-----------------------------------------------------------------------------
(* Copies, one message at a time *)

LEMMA ShowsIs ==
  ASSUME NEW o, NEW v, NEW m, NEW w
  PROVE  <<v, m, w>> \in Shows(o) <=>
           /\ v \in States /\ m \in Down /\ w \in States
           /\ IF Foreign(m)
              THEN /\ w = Apply(v, m.cmd.effect, o)
                   /\ OpenInTurn => Excuse(m, o) \/ Waits(v, o)
              ELSE w = v
BY DEF Shows

LEMMA ForeseesIs ==
  ASSUME NEW o, NEW v, NEW m, NEW w
  PROVE  <<v, m, w>> \in Foresees(o) <=>
           /\ v \in States /\ m \in Up /\ w \in States
           /\ IF Ahead(m)
              THEN m.intent.p = o /\ Allowed(v, m.intent) /\ w = Commit(v, m.intent)
              ELSE w = v
BY DEF Foresees

LEMMA NoForeignAppend ==
  ASSUME NEW d \in Seq(Down), NEW m \in Down
  PROVE  NoForeign(Append(d, m)) <=> NoForeign(d) /\ ~Foreign(m)
<1> DEFINE e == Append(d, m)
<1>1. /\ Len(d) \in Nat /\ Len(e) = Len(d) + 1 /\ (\A i \in 1..Len(d) : e[i] = d[i])
      /\ e[Len(d) + 1] = m
  BY AppendIs
<1> HIDE DEF e
<1>2. 1..Len(e) = 1..Len(d) \cup {Len(d) + 1}
  BY <1>1
<1>3. NoForeign(e) <=> NoForeign(d) /\ ~Foreign(m)
  BY <1>1, <1>2 DEF NoForeign
<1> QED BY <1>3 DEF e

LEMMA NoAheadAppend ==
  ASSUME NEW d \in Seq(Up), NEW m \in Up
  PROVE  NoAhead(Append(d, m)) <=> NoAhead(d) /\ ~Ahead(m)
<1> DEFINE e == Append(d, m)
<1>1. /\ Len(d) \in Nat /\ Len(e) = Len(d) + 1 /\ (\A i \in 1..Len(d) : e[i] = d[i])
      /\ e[Len(d) + 1] = m
  BY AppendIs
<1> HIDE DEF e
<1>2. 1..Len(e) = 1..Len(d) \cup {Len(d) + 1}
  BY <1>1
<1>3. NoAhead(e) <=> NoAhead(d) /\ ~Ahead(m)
  BY <1>1, <1>2 DEF NoAhead
<1> QED BY <1>3 DEF e

LEMMA NoForeignTail ==
  ASSUME NEW d \in Seq(Down), d # <<>>
  PROVE  NoForeign(d) <=> NoForeign(Tail(d)) /\ ~Foreign(Head(d))
<1> DEFINE e == Tail(d)
<1>1. /\ Head(d) = d[1] /\ Len(d) \in Nat \ {0} /\ Len(e) = Len(d) - 1
      /\ \A i \in 1..Len(e) : e[i] = d[i + 1] /\ i + 1 \in 1..Len(d)
  BY TailIs
<1> HIDE DEF e
<1>2. \A i \in 1..Len(d) : i = 1 \/ (i - 1 \in 1..Len(e) /\ d[i] = e[i - 1])
  <2> SUFFICES ASSUME NEW i \in 1..Len(d), i # 1 PROVE i - 1 \in 1..Len(e) /\ d[i] = e[i - 1]
    OBVIOUS
  <2>1. i - 1 \in 1..Len(e) /\ (i - 1) + 1 = i
    BY <1>1
  <2> QED BY <1>1, <2>1
<1>3. NoForeign(d) <=> NoForeign(e) /\ ~Foreign(Head(d))
  BY <1>1, <1>2 DEF NoForeign
<1> QED BY <1>3 DEF e

LEMMA NoAheadTail ==
  ASSUME NEW d \in Seq(Up), d # <<>>
  PROVE  NoAhead(d) <=> NoAhead(Tail(d)) /\ ~Ahead(Head(d))
<1> DEFINE e == Tail(d)
<1>1. /\ Head(d) = d[1] /\ Len(d) \in Nat \ {0} /\ Len(e) = Len(d) - 1
      /\ \A i \in 1..Len(e) : e[i] = d[i + 1] /\ i + 1 \in 1..Len(d)
  BY TailIs
<1> HIDE DEF e
<1>2. \A i \in 1..Len(d) : i = 1 \/ (i - 1 \in 1..Len(e) /\ d[i] = e[i - 1])
  <2> SUFFICES ASSUME NEW i \in 1..Len(d), i # 1 PROVE i - 1 \in 1..Len(e) /\ d[i] = e[i - 1]
    OBVIOUS
  <2>1. i - 1 \in 1..Len(e) /\ (i - 1) + 1 = i
    BY <1>1
  <2> QED BY <1>1, <2>1
<1>3. NoAhead(d) <=> NoAhead(e) /\ ~Ahead(Head(d))
  BY <1>1, <1>2 DEF NoAhead
<1> QED BY <1>3 DEF e

\* What shows nothing leads nowhere.
LEMMA ShownNothing ==
  ASSUME NEW o, NEW d \in Seq(Down), NEW v \in States, NEW w, NoForeign(d)
  PROVE  Leads(Shows(o), d, v, w) <=> v = w
<1>1. \A i \in 1..Len(d) : d[i] \in Down /\ ~Foreign(d[i])
  BY DEF NoForeign
<1>2. \A i \in 1..Len(d) : \A a, z : <<a, d[i], z>> \in Shows(o) => a = z
  BY <1>1, ShowsIs
<1>3. \A i \in 1..Len(d) : <<v, d[i], v>> \in Shows(o)
  BY <1>1, ShowsIs
<1>4. ASSUME Leads(Shows(o), d, v, w) PROVE v = w
  BY <1>2, <1>4, LeadsNowhere
<1>5. Leads(Shows(o), d, v, v)
  BY <1>3, LeadsStill
<1> QED BY <1>4, <1>5

LEMMA ForeseesNothing ==
  ASSUME NEW o, NEW u \in Seq(Up), NEW v \in States, NEW w, NoAhead(u)
  PROVE  Leads(Foresees(o), u, v, w) <=> v = w
<1>1. \A i \in 1..Len(u) : u[i] \in Up /\ ~Ahead(u[i])
  BY DEF NoAhead
<1>2. \A i \in 1..Len(u) : \A a, z : <<a, u[i], z>> \in Foresees(o) => a = z
  BY <1>1, ForeseesIs
<1>3. \A i \in 1..Len(u) : <<v, u[i], v>> \in Foresees(o)
  BY <1>1, ForeseesIs
<1>4. ASSUME Leads(Foresees(o), u, v, w) PROVE v = w
  BY <1>2, <1>4, LeadsNowhere
<1>5. Leads(Foresees(o), u, v, v)
  BY <1>3, LeadsStill
<1> QED BY <1>4, <1>5

LEMMA ExcusedAppend ==
  ASSUME NEW d \in Seq(Down), NEW m \in Down, NEW o
  PROVE  Excused(Append(d, m), o) <=> Excused(d, o) \/ Excuse(m, o)
<1> DEFINE e == Append(d, m)
<1>1. /\ Len(d) \in Nat /\ Len(e) = Len(d) + 1 /\ (\A i \in 1..Len(d) : e[i] = d[i])
      /\ e[Len(d) + 1] = m
  BY AppendIs
<1> HIDE DEF e
<1>2. 1..Len(e) = 1..Len(d) \cup {Len(d) + 1}
  BY <1>1
<1>3. Excused(e, o) <=> Excused(d, o) \/ Excuse(m, o)
  BY <1>1, <1>2 DEF Excused
<1> QED BY <1>3 DEF e

LEMMA ExcusedTail ==
  ASSUME NEW d \in Seq(Down), d # <<>>, NEW o, Excused(d, o), ~Foreign(Head(d))
  PROVE  Excused(Tail(d), o)
<1> DEFINE e == Tail(d)
<1>1. /\ Head(d) = d[1] /\ Len(d) \in Nat \ {0} /\ Len(e) = Len(d) - 1
      /\ \A i \in 1..Len(e) : e[i] = d[i + 1] /\ i + 1 \in 1..Len(d)
  BY TailIs
<1> HIDE DEF e
<1>2. PICK i \in 1..Len(d) : Excuse(d[i], o)
  BY DEF Excused
<1>3. i # 1
  BY <1>1, <1>2 DEF Excuse
<1>4. i - 1 \in 1..Len(e) /\ (i - 1) + 1 = i
  BY <1>1, <1>2, <1>3
<1>5. Excuse(e[i - 1], o)
  BY <1>1, <1>2, <1>4
<1>6. Excused(e, o)
  BY <1>4, <1>5 DEF Excused
<1> QED BY <1>6 DEF e

\* Who can predict something is shown nothing but what excuses it, and what is on
\* the way from a page that predicts shows that it need not wait.
LEMMA ShownWaiting ==
  ASSUME NEW o, NEW d \in Seq(Down), NEW v \in States, NEW w, Leads(Shows(o), d, v, w),
         OpenInTurn, ~Waits(v, o)
  PROVE  NoForeign(d) \/ Excused(d, o)
<1> SUFFICES ASSUME ~Excused(d, o) PROVE NoForeign(d)
  OBVIOUS
<1> DEFINE Q == {m \in Down : ~Foreign(m)}
<1>1. \A i \in 1..Len(d) : d[i] \in Down /\ ~Excuse(d[i], o)
  BY DEF Excused
<1>2. \A i \in 1..Len(d) : \A a, z : <<a, d[i], z>> \in Shows(o) /\ d[i] \in Q => a = z
  BY ShowsIs
<1>3. \A i \in 1..Len(d) : \A z : <<v, d[i], z>> \in Shows(o) => d[i] \in Q
  BY <1>1, ShowsIs
<1> HIDE DEF Q
<1>4. AllOf(d, Q)
  BY <1>2, <1>3, LeadsFirst
<1> QED
  BY <1>4 DEF AllOf, NoForeign, Q

LEMMA ForeseesWaiting ==
  ASSUME NEW o, NEW u \in Seq(Up), NEW v \in States, NEW w, Leads(Foresees(o), u, v, w),
         Waits(v, o)
  PROVE  NoAhead(u)
<1> DEFINE Q == {m \in Up : ~Ahead(m)}
<1>1. \A i \in 1..Len(u) : u[i] \in Up
  OBVIOUS
<1>2. \A i \in 1..Len(u) : \A a, z : <<a, u[i], z>> \in Foresees(o) /\ u[i] \in Q => a = z
  BY ForeseesIs
<1>3. \A i \in 1..Len(u) : \A z : <<v, u[i], z>> \in Foresees(o) => u[i] \in Q
  <2> SUFFICES ASSUME NEW i \in 1..Len(u), NEW z, <<v, u[i], z>> \in Foresees(o), Ahead(u[i])
               PROVE  FALSE
    BY <1>1
  <2>1. u[i].intent \in Intents
    BY <1>1, UpIs DEF Ahead, Asks
  <2> QED BY <2>1, ForeseesIs DEF Waits, Ahead
<1> HIDE DEF Q
<1>4. AllOf(u, Q)
  BY <1>2, <1>3, LeadsFirst
<1> QED
  BY <1>4 DEF AllOf, NoAhead, Q

\* The server commits something, or says something that changes no copy.
LEMMA CopyTold ==
  ASSUME NEW how, NEW o, NEW copy, NEW d \in Seq(Down), NEW u \in Seq(Up), NEW st \in States,
         NEW m \in Down, NEW st2 \in States, <<st, m, st2>> \in Shows(o),
         Copy(how, o, copy, d, u, st)
  PROVE  Copy(how, o, copy, Append(d, m), u, st2)
<1>1. ASSUME how = "sync", NoAhead(u) PROVE Leads(Shows(o), Append(d, m), copy, st2)
  <2>1. Leads(Shows(o), d, copy, st)
    BY <1>1 DEF Copy
  <2> QED BY <2>1, LeadsAppend
<1>2. ASSUME how = "sync", NoForeign(Append(d, m)) PROVE Leads(Foresees(o), u, st2, copy)
  <2>1. NoForeign(d) /\ ~Foreign(m)
    BY <1>2, NoForeignAppend
  <2>2. Leads(Foresees(o), u, st, copy) /\ st2 = st
    BY <1>2, <2>1, ShowsIs DEF Copy
  <2> QED BY <2>2
<1>3. ASSUME how = "pending-reset"
      PROVE  /\ Append(d, m) # <<>>
             /\ Leads(Shows(o), Tail(Append(d, m)), Append(d, m)[1].state, st2)
  <2>1. d # <<>> /\ Leads(Shows(o), Tail(d), d[1].state, st)
    BY <1>3 DEF Copy
  <2>2. Tail(d) \in Seq(Down) /\ Append(d, m) # <<>>
    BY <2>1, TailIs, AppendIs
  <2>3. Tail(Append(d, m)) = Append(Tail(d), m) /\ Append(d, m)[1] = d[1]
    BY <2>1, TailAppend
  <2>4. Leads(Shows(o), Append(Tail(d), m), d[1].state, st2)
    BY <2>1, <2>2, LeadsAppend
  <2> QED BY <2>2, <2>3, <2>4
<1>4. ASSUME how = "sync", OpenInTurn, ~NoForeign(Append(d, m)), ~Excused(Append(d, m), o)
      PROVE  NoAhead(u)
  <2>1. ~Excused(d, o) /\ ~Excuse(m, o) /\ (~NoForeign(d) \/ Foreign(m))
    BY <1>4, NoForeignAppend, ExcusedAppend
  <2>2. CASE NoForeign(d)
    <3>1. Waits(st, o)
      BY <1>4, <2>1, <2>2, ShowsIs
    <3>2. Leads(Foresees(o), u, st, copy)
      BY <1>4, <2>2 DEF Copy
    <3> QED BY <3>1, <3>2, ForeseesWaiting
  <2> QED BY <1>4, <2>1, <2>2 DEF Copy
<1> QED
  BY <1>1, <1>2, <1>3, <1>4 DEF Copy

\* The server hears what was not predicted.
LEMMA CopyHeard ==
  ASSUME NEW how, NEW o, NEW copy, NEW d \in Seq(Down), NEW u \in Seq(Up), u # <<>>,
         NEW st \in States, ~Ahead(Head(u)), Copy(how, o, copy, d, u, st)
  PROVE  Copy(how, o, copy, d, Tail(u), st)
<1>1. NoAhead(u) <=> NoAhead(Tail(u))
  BY NoAheadTail
<1>2. ASSUME how = "sync", NoForeign(d) PROVE Leads(Foresees(o), Tail(u), st, copy)
  <2>1. Leads(Foresees(o), u, st, copy)
    BY <1>2 DEF Copy
  <2>2. PICK v : <<st, Head(u), v>> \in Foresees(o) /\ Leads(Foresees(o), Tail(u), v, copy)
    BY <2>1, LeadsTail
  <2>3. v = st
    BY <2>2, ForeseesIs
  <2> QED BY <2>2, <2>3
<1> QED
  BY <1>1, <1>2 DEF Copy

\* The server hears a prediction that nothing came before.
LEMMA CopyForeseen ==
  ASSUME NEW o, NEW copy, NEW d \in Seq(Down), NEW u \in Seq(Up), u # <<>>,
         NEW st \in States, Ahead(Head(u)), NoForeign(d), Copy("sync", o, copy, d, u, st)
  PROVE  /\ Allowed(st, Head(u).intent) /\ Commit(st, Head(u).intent) \in States
         /\ Copy("sync", o, copy, d, Tail(u), Commit(st, Head(u).intent))
<1> DEFINE then == Commit(st, Head(u).intent)
<1>1. Leads(Foresees(o), u, st, copy)
  BY DEF Copy
<1>2. PICK v : <<st, Head(u), v>> \in Foresees(o) /\ Leads(Foresees(o), Tail(u), v, copy)
  BY <1>1, LeadsTail
<1>3. Allowed(st, Head(u).intent) /\ v = then /\ v \in States
  BY <1>2, ForeseesIs
<1> HIDE DEF then
<1>4. Leads(Foresees(o), Tail(u), then, copy)
  BY <1>2, <1>3
<1>5. ASSUME NoAhead(Tail(u)) PROVE Leads(Shows(o), d, copy, then)
  <2>1. Tail(u) \in Seq(Up)
    BY TailIs
  <2>2. copy = then
    BY <1>3, <1>4, <1>5, <2>1, ForeseesNothing
  <2> QED BY <1>3, <2>2, ShownNothing
<1>6. Copy("sync", o, copy, d, Tail(u), then)
  BY <1>4, <1>5 DEF Copy
<1> QED
  BY <1>3, <1>6 DEF then

\* The page takes what changes nothing.
LEMMA CopyTake ==
  ASSUME NEW o, NEW copy \in States, NEW d \in Seq(Down), d # <<>>, NEW u \in Seq(Up),
         NEW st \in States, ~Foreign(Head(d)), Copy("sync", o, copy, d, u, st)
  PROVE  Copy("sync", o, copy, Tail(d), u, st)
<1>1. NoForeign(d) <=> NoForeign(Tail(d))
  BY NoForeignTail
<1>2. ASSUME NoAhead(u) PROVE Leads(Shows(o), Tail(d), copy, st)
  <2>1. Leads(Shows(o), d, copy, st)
    BY <1>2 DEF Copy
  <2>2. PICK v : <<copy, Head(d), v>> \in Shows(o) /\ Leads(Shows(o), Tail(d), v, st)
    BY <2>1, LeadsTail
  <2>3. v = copy
    BY <2>2, ShowsIs
  <2> QED BY <2>2, <2>3
<1>3. Excused(d, o) => Excused(Tail(d), o)
  BY ExcusedTail
<1> QED
  BY <1>1, <1>2, <1>3 DEF Copy

\* The page takes what somebody else did, and predicts nothing.
LEMMA CopyShown ==
  ASSUME NEW o, NEW copy \in States, NEW d \in Seq(Down), d # <<>>, NEW u \in Seq(Up),
         NEW st \in States, Foreign(Head(d)), NoAhead(u), Copy("sync", o, copy, d, u, st)
  PROVE  /\ Apply(copy, Head(d).cmd.effect, o) \in States
         /\ Copy("sync", o, Apply(copy, Head(d).cmd.effect, o), Tail(d), u, st)
<1>1. Leads(Shows(o), d, copy, st)
  BY DEF Copy
<1>2. PICK v : <<copy, Head(d), v>> \in Shows(o) /\ Leads(Shows(o), Tail(d), v, st)
  BY <1>1, LeadsTail
<1>3. v \in States /\ v = Apply(copy, Head(d).cmd.effect, o)
  BY <1>2, ShowsIs
<1>4. ASSUME NoForeign(Tail(d)) PROVE Leads(Foresees(o), u, st, v)
  <2>1. Tail(d) \in Seq(Down)
    BY TailIs
  <2> DEFINE rest == Tail(d)
  <2> HIDE DEF rest
  <2>2. rest \in Seq(Down) /\ NoForeign(rest) /\ Leads(Shows(o), rest, v, st)
    BY <1>2, <1>4, <2>1 DEF rest
  <2>3. v = st
    BY <1>3, <2>2, ShownNothing
  <2> QED BY <2>3, ForeseesNothing
<1>5. Copy("sync", o, v, Tail(d), u, st)
  BY <1>2, <1>4 DEF Copy
<1> QED
  BY <1>3, <1>5

\* The page asks for something, and may predict it.
LEMMA CopyAsks ==
  ASSUME NEW o, NEW copy \in States, NEW d \in Seq(Down), NEW u \in Seq(Up),
         NEW st \in States, NEW m \in Up, NEW then, <<copy, m, then>> \in Foresees(o),
         Copy("sync", o, copy, d, u, st)
  PROVE  Copy("sync", o, then, d, Append(u, m), st)
<1>1. NoAhead(Append(u, m)) <=> NoAhead(u) /\ ~Ahead(m)
  BY NoAheadAppend
<1>2. ASSUME NoAhead(Append(u, m)) PROVE Leads(Shows(o), d, then, st)
  <2>1. Leads(Shows(o), d, copy, st) /\ then = copy
    BY <1>1, <1>2, ForeseesIs DEF Copy
  <2> QED BY <2>1
<1>3. ASSUME NoForeign(d) PROVE Leads(Foresees(o), Append(u, m), st, then)
  <2>1. Leads(Foresees(o), u, st, copy)
    BY <1>3 DEF Copy
  <2> QED BY <2>1, LeadsAppend
<1>4. ASSUME OpenInTurn PROVE NoAhead(Append(u, m)) \/ NoForeign(d) \/ Excused(d, o)
  <2>1. CASE NoAhead(u) /\ Ahead(m)
    <3>1. m.intent \in Intents /\ m.intent.kind \in Predictable
      BY <2>1, UpIs DEF Ahead, Asks
    <3>2. ~Waits(copy, o)
      BY <2>1, <3>1, ForeseesIs DEF Waits
    <3>3. Leads(Shows(o), d, copy, st)
      BY <2>1 DEF Copy
    <3> QED BY <1>4, <3>2, <3>3, ShownWaiting
  <2> QED BY <1>1, <1>4, <2>1 DEF Copy
<1> QED
  BY <1>2, <1>3, <1>4 DEF Copy

\* The page takes its reset.
LEMMA CopyReset ==
  ASSUME NEW o, NEW copy, NEW d \in Seq(Down), d # <<>>, d[1].state \in States,
         NEW st \in States, Copy("pending-reset", o, copy, d, <<>>, st)
  PROVE  Copy("sync", o, d[1].state, Tail(d), <<>>, st)
<1>1. Leads(Shows(o), Tail(d), d[1].state, st)
  BY DEF Copy
<1>2. ASSUME NoForeign(Tail(d)) PROVE Leads(Foresees(o), <<>>, st, d[1].state)
  <2>1. Tail(d) \in Seq(Down)
    BY TailIs
  <2> DEFINE rest  == Tail(d)
             state == d[1].state
  <2> HIDE DEF rest, state
  <2>2. rest \in Seq(Down) /\ NoForeign(rest) /\ Leads(Shows(o), rest, state, st)
        /\ state \in States
    BY <1>1, <1>2, <2>1 DEF rest, state
  <2>3. state = st
    BY <2>2, ShownNothing
  <2> QED BY <2>3, LeadsEmpty DEF state
<1>3. NoAhead(<<>>)
  BY DEF NoAhead
<1> QED
  BY <1>1, <1>2, <1>3 DEF Copy

\* The server sends a reset, of its state.
LEMMA CopyNew ==
  ASSUME NEW o, NEW copy, NEW u, NEW st, NEW m, m.state = st
  PROVE  Copy("pending-reset", o, copy, Append(<<>>, m), u, st)
<1>1. Append(<<>>, m) = <<m>> /\ Tail(<<m>>) = <<>> /\ <<m>>[1] = m /\ <<m>> # <<>>
  OBVIOUS
<1>2. Leads(Shows(o), <<>>, m.state, st)
  BY LeadsEmpty
<1> QED
  BY <1>1, <1>2 DEF Copy

-----------------------------------------------------------------------------
(* Requests and answers, one message at a time *)

LEMMA AwaitedAppend ==
  ASSUME NEW u \in Seq(Up), NEW m \in Up, NEW tx
  PROVE  Awaited(Append(u, m), tx) <=> Awaited(u, tx) \/ (Asks(m) /\ m.tx = tx)
<1> DEFINE e == Append(u, m)
<1>1. /\ Len(u) \in Nat /\ Len(e) = Len(u) + 1 /\ (\A i \in 1..Len(u) : e[i] = u[i])
      /\ e[Len(u) + 1] = m
  BY AppendIs
<1> HIDE DEF e
<1>2. 1..Len(e) = 1..Len(u) \cup {Len(u) + 1}
  BY <1>1
<1>3. Awaited(e, tx) <=> Awaited(u, tx) \/ (Asks(m) /\ m.tx = tx)
  BY <1>1, <1>2 DEF Awaited
<1> QED BY <1>3 DEF e

LEMMA RepliedAppend ==
  ASSUME NEW d \in Seq(Down), NEW m \in Down, NEW tx
  PROVE  Replied(Append(d, m), tx) <=> Replied(d, tx) \/ Settles(m, tx)
<1> DEFINE e == Append(d, m)
<1>1. /\ Len(d) \in Nat /\ Len(e) = Len(d) + 1 /\ (\A i \in 1..Len(d) : e[i] = d[i])
      /\ e[Len(d) + 1] = m
  BY AppendIs
<1> HIDE DEF e
<1>2. 1..Len(e) = 1..Len(d) \cup {Len(d) + 1}
  BY <1>1
<1>3. Replied(e, tx) <=> Replied(d, tx) \/ Settles(m, tx)
  BY <1>1, <1>2 DEF Replied
<1> QED BY <1>3 DEF e

LEMMA AwaitedTail ==
  ASSUME NEW u \in Seq(Up), u # <<>>, NEW tx
  PROVE  Awaited(u, tx) <=> Awaited(Tail(u), tx) \/ (Asks(Head(u)) /\ Head(u).tx = tx)
<1> DEFINE e == Tail(u)
<1>1. /\ Head(u) = u[1] /\ Len(u) \in Nat \ {0} /\ Len(e) = Len(u) - 1
      /\ \A i \in 1..Len(e) : e[i] = u[i + 1] /\ i + 1 \in 1..Len(u)
  BY TailIs
<1> HIDE DEF e
<1>2. \A i \in 1..Len(u) : i = 1 \/ (i - 1 \in 1..Len(e) /\ u[i] = e[i - 1])
  <2> SUFFICES ASSUME NEW i \in 1..Len(u), i # 1 PROVE i - 1 \in 1..Len(e) /\ u[i] = e[i - 1]
    OBVIOUS
  <2>1. i - 1 \in 1..Len(e) /\ (i - 1) + 1 = i
    BY <1>1
  <2> QED BY <1>1, <2>1
<1>3. 1 \in 1..Len(u)
  BY <1>1
<1>4. Awaited(e, tx) \/ (Asks(Head(u)) /\ Head(u).tx = tx) => Awaited(u, tx)
  BY <1>1, <1>3 DEF Awaited
<1>5. Awaited(u, tx) => Awaited(e, tx) \/ (Asks(Head(u)) /\ Head(u).tx = tx)
  BY <1>1, <1>2 DEF Awaited
<1> QED BY <1>4, <1>5 DEF e

LEMMA RepliedTail ==
  ASSUME NEW d \in Seq(Down), d # <<>>, NEW tx
  PROVE  Replied(d, tx) <=> Replied(Tail(d), tx) \/ Settles(Head(d), tx)
<1> DEFINE e == Tail(d)
<1>1. /\ Head(d) = d[1] /\ Len(d) \in Nat \ {0} /\ Len(e) = Len(d) - 1
      /\ \A i \in 1..Len(e) : e[i] = d[i + 1] /\ i + 1 \in 1..Len(d)
  BY TailIs
<1> HIDE DEF e
<1>2. \A i \in 1..Len(d) : i = 1 \/ (i - 1 \in 1..Len(e) /\ d[i] = e[i - 1])
  <2> SUFFICES ASSUME NEW i \in 1..Len(d), i # 1 PROVE i - 1 \in 1..Len(e) /\ d[i] = e[i - 1]
    OBVIOUS
  <2>1. i - 1 \in 1..Len(e) /\ (i - 1) + 1 = i
    BY <1>1
  <2> QED BY <1>1, <2>1
<1>3. 1 \in 1..Len(d)
  BY <1>1
<1>4. Replied(e, tx) \/ Settles(Head(d), tx) => Replied(d, tx)
  BY <1>1, <1>3 DEF Replied
<1>5. Replied(d, tx) => Replied(e, tx) \/ Settles(Head(d), tx)
  BY <1>1, <1>2 DEF Replied
<1> QED BY <1>4, <1>5 DEF e

\* The last word answers everything.
LEMMA RepliedBye ==
  ASSUME NEW d \in Seq(Down), d # <<>>, d[Len(d)].verb = "bye", NEW tx
  PROVE  Replied(d, tx)
<1>1. Len(d) \in 1..Len(d)
  BY TailIs
<1> QED
  BY <1>1 DEF Replied, Settles

LEMMA AnsweredTold ==
  ASSUME NEW sock, NEW pending, NEW d \in Seq(Down), NEW u, NEW m \in Down,
         Answered(sock, pending, d, u)
  PROVE  Answered(sock, pending, Append(d, m), u)
BY RepliedAppend DEF Answered

\* The server answers the request that is next.
LEMMA AnsweredOwn ==
  ASSUME NEW sock, NEW pending, NEW d \in Seq(Down), NEW u \in Seq(Up), u # <<>>,
         NEW m \in Down, Replies(m), m.tx = Head(u).tx, Answered(sock, pending, d, u)
  PROVE  Answered(sock, pending, Append(d, m), Tail(u))
<1> SUFFICES ASSUME NEW p \in pending, p.conn = sock
             PROVE  Awaited(Tail(u), p.tx) \/ Replied(Append(d, m), p.tx)
  BY DEF Answered
<1>1. Awaited(u, p.tx) \/ Replied(d, p.tx)
  BY DEF Answered
<1>2. Awaited(u, p.tx) => Awaited(Tail(u), p.tx) \/ Settles(m, p.tx)
  BY AwaitedTail DEF Settles
<1> QED
  BY <1>1, <1>2, RepliedAppend

\* The page asks for something.
LEMMA AnsweredAsk ==
  ASSUME NEW sock, NEW pending, NEW d, NEW u \in Seq(Up), NEW m \in Up, Asks(m),
         NEW p, p.tx = m.tx, Answered(sock, pending, d, u)
  PROVE  Answered(sock, pending \cup {p}, d, Append(u, m))
BY AwaitedAppend DEF Answered

\* The page takes an answer, and settles the request.
LEMMA AnsweredTake ==
  ASSUME NEW sock, NEW pending, NEW d \in Seq(Down), d # <<>>, NEW u,
         Head(d).verb # "bye", NEW rest \in SUBSET pending,
         Replies(Head(d)) => \A p \in rest : p.tx # Head(d).tx,
         Answered(sock, pending, d, u)
  PROVE  Answered(sock, rest, Tail(d), u)
<1> SUFFICES ASSUME NEW p \in rest, p.conn = sock
             PROVE  Awaited(u, p.tx) \/ Replied(Tail(d), p.tx)
  BY DEF Answered
<1>1. Awaited(u, p.tx) \/ Replied(d, p.tx)
  BY DEF Answered
<1>2. ~Settles(Head(d), p.tx)
  BY DEF Settles
<1> QED
  BY <1>1, <1>2, RepliedTail

\* Nothing is pending on a connection that was just synced.
LEMMA AnsweredNone ==
  ASSUME NEW sock, NEW pending, \A p \in pending : p.conn # sock, NEW d, NEW u
  PROVE  Answered(sock, pending, d, u)
BY DEF Answered

LEMMA AnsweredBye ==
  ASSUME NEW sock, NEW pending, NEW d \in Seq(Down), d # <<>>, d[Len(d)].verb = "bye", NEW u
  PROVE  Answered(sock, pending, d, u)
BY RepliedBye DEF Answered

-----------------------------------------------------------------------------
(* What the handlers of the server do to the copies *)

LEMMA CopiedIs ==
  ASSUME NEW s, NEW x, NEW b
  PROVE  Copied(s, x, b) <=>
           /\ Sock(b) \notin s.lost
           /\ Sock(b) \in s.synced =>
                Copy(page[b].status, UserOf[b], page[b].state, s.down[Sock(b)], x[Sock(b)], s.st)
           /\ page[b].status = "sync" =>
                Answered(page[b].sock, page[b].pending, s.down[Sock(b)], x[Sock(b)])
BY DEF Copied

\* Those who are not concerned, and those who are told something but not synced.
LEMMA CopiedSame ==
  ASSUME NEW b \in Pages, NEW s \in Servers, NEW t, NEW x, NEW y, Sock(b) \in Conns,
         t.lost = s.lost, y[Sock(b)] = x[Sock(b)],
         \/ t.down[Sock(b)] = s.down[Sock(b)]
         \/ /\ Sock(b) \notin t.synced
            /\ \E m \in Down : t.down[Sock(b)] = Append(s.down[Sock(b)], m),
         Sock(b) \in t.synced => Sock(b) \in s.synced /\ t.st = s.st,
         Copied(s, x, b)
  PROVE  Copied(t, y, b)
<1>1. s.down[Sock(b)] \in Seq(Down)
  BY ServerIs
<1>2. page[b].status = "sync" =>
        Answered(page[b].sock, page[b].pending, t.down[Sock(b)], y[Sock(b)])
  BY <1>1, AnsweredTold, CopiedIs
<1>3. Sock(b) \in t.synced =>
        Copy(page[b].status, UserOf[b], page[b].state, t.down[Sock(b)], y[Sock(b)], t.st)
  BY CopiedIs
<1> QED
  BY <1>2, <1>3, CopiedIs

\* An update for everybody, or a message to somebody.
LEMMA CopiedSpread ==
  ASSUME NEW b \in Pages, NEW s \in Servers, NEW t \in Servers, NEW x \in [Conns -> Seq(Up)], Sock(b) \in Conns,
         t.lost = s.lost, t.synced = s.synced, NEW m \in Down,
         Sock(b) \in s.synced => <<s.st, m, t.st>> \in Shows(UserOf[b]),
         t.down[Sock(b)] = Append(s.down[Sock(b)], m), Copied(s, x, b)
  PROVE  Copied(t, x, b)
<1>1. s.down[Sock(b)] \in Seq(Down) /\ s.st \in States /\ t.st \in States
  BY ServerIs
<1>2. page[b].status = "sync" =>
        Answered(page[b].sock, page[b].pending, t.down[Sock(b)], x[Sock(b)])
  BY <1>1, AnsweredTold, CopiedIs
<1>3. Sock(b) \in t.synced =>
        Copy(page[b].status, UserOf[b], page[b].state, t.down[Sock(b)], x[Sock(b)], t.st)
  BY <1>1, CopyTold, CopiedIs
<1> QED
  BY <1>2, <1>3, CopiedIs

\* b's own request is answered: with its effect, or with a reject.
LEMMA CopiedOwn ==
  ASSUME NEW b \in Pages, NEW s \in Servers, NEW t \in Servers,
         NEW x \in [Conns -> Seq(Up)], NEW y, NEW c \in Conns, c = Sock(b),
         t.lost = s.lost, t.synced = s.synced, x[c] # <<>>, y[c] = Tail(x[c]),
         page[b].status = "sync", c \in s.synced,
         NEW m \in Down, Replies(m), m.tx = Head(x[c]).tx, t.down[c] = Append(s.down[c], m),
         Ahead(Head(x[c])) =>
           /\ NoForeign(s.down[c]) /\ ~Foreign(m)
           /\ Allowed(s.st, Head(x[c]).intent) => t.st = Commit(s.st, Head(x[c]).intent),
         ~Ahead(Head(x[c])) => <<s.st, m, t.st>> \in Shows(UserOf[b]),
         Copied(s, x, b)
  PROVE  Copied(t, y, b)
<1> DEFINE d == s.down[c]
           u == x[c]
           r == Head(u)
<1>1. /\ d \in Seq(Down) /\ u \in Seq(Up) /\ s.st \in States /\ t.st \in States
      /\ u # <<>> /\ Tail(u) \in Seq(Up)
  BY ServerIs, TailIs
<1>2. /\ c \notin s.lost /\ Copy("sync", UserOf[b], page[b].state, d, u, s.st)
      /\ Answered(page[b].sock, page[b].pending, d, u)
  BY CopiedIs
<1>3. Answered(page[b].sock, page[b].pending, Append(d, m), Tail(u))
  BY <1>1, <1>2, AnsweredOwn
<1>4. CASE Ahead(r)
  <2>1. /\ Allowed(s.st, r.intent) /\ Commit(s.st, r.intent) \in States
        /\ Copy("sync", UserOf[b], page[b].state, d, Tail(u), Commit(s.st, r.intent))
    BY <1>1, <1>2, <1>4, CopyForeseen
  <2>2. Copy("sync", UserOf[b], page[b].state, d, Tail(u), t.st)
    BY <1>4, <2>1
  <2>3. <<t.st, m, t.st>> \in Shows(UserOf[b])
    BY <1>1, <1>4, ShowsIs
  <2>4. Copy("sync", UserOf[b], page[b].state, Append(d, m), Tail(u), t.st)
    BY <1>1, <2>2, <2>3, CopyTold
  <2> QED BY <1>2, <1>3, <2>4, CopiedIs
<1>5. CASE ~Ahead(r)
  <2>1. Copy("sync", UserOf[b], page[b].state, d, Tail(u), s.st)
    BY <1>1, <1>2, <1>5, CopyHeard
  <2>2. Copy("sync", UserOf[b], page[b].state, Append(d, m), Tail(u), t.st)
    BY <1>1, <1>5, <2>1, CopyTold
  <2> QED BY <1>2, <1>3, <2>2, CopiedIs
<1> QED
  BY <1>4, <1>5

\* A copy that is shown an effect gets where the server got by it.
LEMMA EffectShown ==
  ASSUME NEW st \in States, Proper(st), NEW ask \in Intents, Allowed(st, ask),
         NEW e \in EffectsOf(st, ask)
  PROVE  /\ Proper(Commit(st, e))
         /\ \A b \in Pages, m \in Down :
              /\ m.verb = "update" /\ m.cmd.kind = "engine"
              /\ m.cmd.effect = EffectFor(e, UserOf[b]) /\ Foreign(m)
              => <<st, m, Commit(st, e)>> \in Shows(UserOf[b])
<1>1. Commit(st, e) \in States
  BY EffectsTyped
<1>2. Proper(Commit(st, e))
  <2>1. AllSeated(Commit(st, e))
    BY InPlayKeepsSeats DEF Proper, AllSeated
  <2> QED BY <2>1, TurnsGoOn DEF Proper
<1>3. ASSUME NEW b \in Pages
      PROVE  Apply(st, EffectFor(e, UserOf[b]), UserOf[b]) = Commit(st, e)
  <2>1. e.kind = "collect_trick" => UserOf[b] \in Seated(st)
    <3> SUFFICES ASSUME e.kind = "collect_trick" PROVE UserOf[b] \in Seated(st)
      OBVIOUS
    <3>1. e = ask /\ ask.kind = "collect_trick"
      BY EffectsTyped DEF Predictable
    <3>2. st.phase = "FOLLOW"
      BY <3>1 DEF Allowed
    <3> QED BY <3>2 DEF Proper, AllSeated, InPlay
  <2> QED BY <2>1, Commutes
<1>4. ASSUME NEW b \in Pages, NEW m \in Down, OpenInTurn, Foreign(m),
             m.cmd.effect = EffectFor(e, UserOf[b])
      PROVE  Excuse(m, UserOf[b]) \/ Waits(st, UserOf[b])
  <2>1. e \in Effects
    BY EffectsTyped
  <2>2. m.cmd.effect.p = e.p /\ (m.cmd.effect.kind \in Loose <=> e.kind \in Loose)
    BY <1>4, <2>1, EffectForKeeps
  <2> QED BY <1>4, <2>2, TurnWaits DEF Excuse, Proper
<1> QED
  BY <1>1, <1>2, <1>3, <1>4, ShowsIs

\* A protocol action changes no copy; if somebody leaves the table, that is told
\* to everybody.
LEMMA BroadcastCopies ==
  ASSUME Typed, \A b \in Pages : Numbered(b),
         NEW r \in Servers, NEW source, NEW verb \in Verbs, NEW who \in Whos,
         NEW x \in [Conns -> Seq(Up)], Copies(r, x)
  PROVE  Copies(Broadcast(r, source, verb, who), x)
<1> DEFINE cmds == Announced(verb, who)
           msgs == News(r, cmds, NULL, NULL)
           t    == Broadcast(r, source, verb, who)
<1>1. PICK told \in Servers :
        /\ Spread(r, told, msgs) /\ told.st = r.st /\ told.users = r.users
        /\ \/ t = told
           \/ \E m \in Intents :
                /\ Allowed(r.st, m) /\ m \in EffectsOf(r.st, m)
                /\ t \in Servers /\ Spread(told, t, News(told, Shown(m), source, NULL))
                /\ t.st = Commit(r.st, m) /\ t.users = r.users
  <2>1. PICK told \in Servers : Broadcasts(r, told, t, source, verb, who)
    BY BroadcastIs
  <2> QED BY <2>1 DEF Broadcasts
<1>2. cmds \in [Conns -> Commands] /\ \A c \in Conns : cmds[c] = Announcement(verb, who)
  BY AnnouncedIs
<1>0. NULL \in Nat \cup {NULL}
  OBVIOUS
<1> HIDE DEF t, cmds
<1>3. \A c \in Conns : msgs[c] \in Down /\ ~Foreign(msgs[c])
  <2> SUFFICES ASSUME NEW c \in Conns PROVE msgs[c] \in Down /\ ~Foreign(msgs[c])
    OBVIOUS
  <2>1. msgs[c] = [verb |-> "update", tx |-> NULL, cmd |-> cmds[c], at |-> r.committed + 1]
    BY DEF News
  <2> HIDE DEF msgs
  <2>2. msgs[c] \in Updates
    BY <1>0, <1>2, <2>1, ServerIs DEF Updates
  <2>3. msgs[c].cmd.kind = "protocol"
    BY <1>2, <2>1 DEF Announcement
  <2> QED BY <2>2, <2>3 DEF Down, Foreign
<1> HIDE DEF msgs
<1>4. /\ told.lost = r.lost /\ told.synced = r.synced
      /\ \A c \in Conns : told.down[c] =
           IF c \in r.synced \ r.lost THEN Append(r.down[c], msgs[c]) ELSE r.down[c]
  BY <1>1 DEF Spread, SameClients
<1>5. Copies(told, x)
  <2>1. Proper(told.st)
    BY <1>1 DEF Copies
  <2>2. ASSUME NEW b \in Pages \ overtaken, Connected(b)
        PROVE  Copied(told, x, b)
    <3>1. Sock(b) \in Conns /\ Copied(r, x, b) /\ Sock(b) \notin r.lost
      BY <2>2, PageIs, CopiedIs DEF Copies
    <3>2. CASE Sock(b) \in r.synced
      <4>1. told.down[Sock(b)] = Append(r.down[Sock(b)], msgs[Sock(b)])
        BY <1>4, <3>1, <3>2
      <4>2. <<r.st, msgs[Sock(b)], told.st>> \in Shows(UserOf[b])
        BY <1>1, <1>3, <3>1, ServerIs, ShowsIs
      <4> QED BY <1>3, <1>4, <3>1, <4>1, <4>2, CopiedSpread
    <3>3. CASE Sock(b) \notin r.synced
      BY <1>1, <1>4, <3>1, <3>3, CopiedSame
    <3> QED BY <3>2, <3>3
  <2> QED BY <2>1, <2>2 DEF Copies
<1>6. ASSUME NEW m \in Intents, Allowed(r.st, m), m \in EffectsOf(r.st, m),
             t \in Servers, Spread(told, t, News(told, Shown(m), source, NULL)),
             t.st = Commit(r.st, m)
      PROVE  Copies(t, x)
  <2> DEFINE more == News(told, Shown(m), source, NULL)
  <2>1. m \in Effects
    BY <1>6, EffectsTyped, ServerIs
  <2>2. \A c \in Conns :
          /\ more[c] \in Down /\ more[c].verb = "update" /\ more[c].cmd.kind = "engine"
          /\ more[c].cmd.effect = EffectFor(m, Who(c)) /\ Foreign(more[c])
    <3> SUFFICES ASSUME NEW c \in Conns
                 PROVE  /\ more[c] \in Down /\ more[c].verb = "update" /\ more[c].cmd.kind = "engine"
                        /\ more[c].cmd.effect = EffectFor(m, Who(c)) /\ Foreign(more[c])
      OBVIOUS
    <3>1. more[c] = [verb |-> "update", tx |-> NULL, cmd |-> Shown(m)[c], at |-> told.committed + 1]
      BY DEF News
    <3>2. Shown(m)[c] \in Commands /\ Shown(m)[c].kind = "engine" /\ told.committed + 1 \in Nat
          /\ Shown(m)[c].effect = EffectFor(m, Who(c))
      BY <2>1, ShownIs, ServerIs
    <3> HIDE DEF more
    <3>3. more[c] \in Updates
      BY <1>0, <3>1, <3>2 DEF Updates
    <3> QED BY <3>1, <3>2, <3>3 DEF Down, Foreign
  <2> HIDE DEF more
  <2>3. /\ t.lost = told.lost /\ t.synced = told.synced
        /\ \A c \in Conns : t.down[c] =
             IF c \in told.synced \ told.lost THEN Append(told.down[c], more[c]) ELSE told.down[c]
    BY <1>6 DEF Spread, SameClients, more
  <2>4. told.st \in States /\ Proper(told.st) /\ Allowed(told.st, m)
        /\ m \in EffectsOf(told.st, m) /\ t.st = Commit(told.st, m)
    BY <1>1, <1>5, <1>6, ServerIs DEF Copies
  <2>5. /\ Proper(t.st)
        /\ \A b \in Pages, n \in Down :
              /\ n.verb = "update" /\ n.cmd.kind = "engine"
              /\ n.cmd.effect = EffectFor(m, UserOf[b]) /\ Foreign(n)
              => <<told.st, n, t.st>> \in Shows(UserOf[b])
    BY <2>4, EffectShown
  <2>6. ASSUME NEW b \in Pages \ overtaken, Connected(b)
        PROVE  Copied(t, x, b)
    <3>1. /\ Sock(b) \in Conns /\ Copied(told, x, b) /\ Sock(b) \notin told.lost
          /\ Who(Sock(b)) = UserOf[b]
      BY <1>5, <2>6, PageIs, CopiedIs DEF Copies
    <3>2. CASE Sock(b) \in told.synced
      <4>1. t.down[Sock(b)] = Append(told.down[Sock(b)], more[Sock(b)])
        BY <2>3, <3>1, <3>2
      <4>2. <<told.st, more[Sock(b)], t.st>> \in Shows(UserOf[b])
        BY <2>2, <2>5, <3>1
      <4>3. more[Sock(b)] \in Down
        BY <2>2, <3>1
      <4> QED BY <1>6, <2>3, <3>1, <4>1, <4>2, <4>3, CopiedSpread
    <3>3. CASE Sock(b) \notin told.synced
      BY <2>3, <3>1, <3>3, CopiedSame
    <3> QED BY <3>2, <3>3
  <2> QED BY <2>5, <2>6 DEF Copies
<1> QED
  BY <1>1, <1>5, <1>6 DEF t

LEMMA HelloCopies ==
  ASSUME Typed, \A b \in Pages : Numbered(b),
         NEW s \in Servers, NEW x \in [Conns -> Seq(Up)], Good(s, x), Copies(s, x),
         NEW c \in Range(s.clients), x[c] # <<>>, Head(x[c]).verb = "req:hello",
         NEW nick \in Nat
  PROVE  Copies(Hello(s, c, nick), [x EXCEPT ![c] = Tail(x[c])])
<1> DEFINE known == Known(s, Who(c))
           who   == [id |-> Who(c), nick |-> nick]
           m     == [verb |-> "hello", you |-> who]
           users == IF known THEN Renamed(s.users, Who(c), nick) ELSE Append(s.users, who)
           met   == [s EXCEPT !.users = users, !.greeted = s.greeted \cup {c}]
           r     == Send(met, {c}, m)
           verb  == IF known THEN "user:rejoin" ELSE "user:join"
           y     == [x EXCEPT ![c] = Tail(x[c])]
           t     == Hello(s, c, nick)
<1>0. c \in Conns
  BY ClientIs
<1>1. who \in Whos /\ m \in Down /\ m.verb = "hello" /\ m.you = who /\ who.id = Who(c)
  BY <1>0, ConnIs DEF Whos, Down, Hellos
<1>2. t = Broadcast(r, c, verb, who)
  BY DEF Hello, Greeting
<1>3. users \in UserLists
  <2>1. Append(s.users, who) \in UserLists /\ Renamed(s.users, Who(c), nick) \in UserLists
    BY <1>1, ServerIs, RenamedTyped DEF UserLists
  <2> QED BY <2>1
<1>4. met \in Servers /\ met.down = s.down /\ met.lost = s.lost /\ met.synced = s.synced
      /\ met.st = s.st
  <2> HIDE DEF users
  <2> QED BY <1>0, <1>3 DEF Servers
<1>5. y \in [Conns -> Seq(Up)] /\ y[c] = Tail(x[c]) /\ \A k \in Conns : k # c => y[k] = x[k]
  BY <1>0, HeardIs
<1> HIDE DEF known, who, m, users, met, verb, y, t
<1>6. /\ r \in Servers /\ r.synced = s.synced /\ r.lost = s.lost /\ r.st = s.st
      /\ \A k \in Conns : r.down[k] = IF k \in {c} \ s.lost THEN Append(s.down[k], m) ELSE s.down[k]
  BY <1>1, <1>4, SendIs DEF SameClients
<1> HIDE DEF r
<1>7. ASSUME NEW b \in Pages \ overtaken, Connected(b)
      PROVE  Copied(r, y, b)
  <2>1. Sock(b) \in Conns /\ Copied(s, x, b) /\ Talk(s, x, b) /\ Listed(s)
    BY <1>7, PageIs DEF Good, Copies
  <2>2. CASE Sock(b) # c
    BY <1>5, <1>6, <2>1, <2>2, CopiedSame
  <2>3. CASE Sock(b) = c
    <3> DEFINE how == page[b].status
    <3>1. /\ how \in {"pending-reset", "sync"} /\ Who(c) = UserOf[b]
          /\ x[c] \in Seq(Up) /\ s.down[c] \in Seq(Down)
      BY <1>0, <1>7, <2>3, PageIs, ServerIs
    <3>2. Stage(s, c) \in {"come", "greeted", "synced"}
      BY <2>1, StageIs
    <3>3. Handshake(how, UserOf[b], s.down[c], x[c], Stage(s, c)) /\ m.you.id = UserOf[b]
      BY <1>1, <2>1, <2>3, <3>1 DEF Talk
    <3> HIDE DEF how
    <3>4. Stage(s, c) = "come" /\ how = "pending-reset"
      BY <1>1, <3>1, <3>2, <3>3, HandshakeHello
    <3>5. c \notin s.synced /\ c \notin s.lost
      BY <2>1, <2>3, <3>4, StageIs, CopiedIs
    <3> QED BY <1>6, <2>3, <3>4, <3>5, CopiedIs DEF how
  <2> QED BY <2>2, <2>3
<1>8. Copies(r, y)
  BY <1>6, <1>7 DEF Copies
<1>9. verb \in Verbs
  BY DEF verb, Verbs
<1>10. Copies(t, y)
  BY <1>1, <1>2, <1>5, <1>6, <1>8, <1>9, BroadcastCopies
<1> QED
  BY <1>10 DEF t, y

LEMMA ResetCopies ==
  ASSUME Typed, \A b \in Pages : Numbered(b),
         NEW s \in Servers, NEW x \in [Conns -> Seq(Up)], Good(s, x), Copies(s, x),
         NEW c \in Range(s.clients), x[c] # <<>>, Head(x[c]).verb = "req:reset"
  PROVE  Copies(Reset(s, c), [x EXCEPT ![c] = Tail(x[c])])
<1> DEFINE m    == [verb |-> "reset", state |-> s.st, who |-> s.users, at |-> s.committed]
           sent == Send(s, {c}, m)
           y    == [x EXCEPT ![c] = Tail(x[c])]
           t    == Reset(s, c)
<1>0. c \in Conns
  BY ClientIs
<1>1. m \in Down /\ m.verb = "reset" /\ m.state = s.st
  BY ServerIs DEF Down, Resets
<1>2. y \in [Conns -> Seq(Up)] /\ y[c] = Tail(x[c]) /\ \A k \in Conns : k # c => y[k] = x[k]
  BY <1>0, HeardIs
<1>3. t = [sent EXCEPT !.synced = s.synced \cup {c}]
  BY DEF Reset
<1> HIDE DEF m, y, t
<1>4. /\ sent \in Servers /\ sent.lost = s.lost /\ sent.st = s.st
      /\ \A k \in Conns : sent.down[k] =
           IF k \in {c} \ s.lost THEN Append(s.down[k], m) ELSE s.down[k]
  BY <1>1, SendIs DEF SameClients
<1> HIDE DEF sent
<1>5. /\ t.synced = s.synced \cup {c} /\ t.lost = s.lost /\ t.st = s.st /\ t.down = sent.down
  BY <1>3, <1>4 DEF Servers
<1>6. ASSUME NEW b \in Pages \ overtaken, Connected(b)
      PROVE  Copied(t, y, b)
  <2>1. Sock(b) \in Conns /\ Copied(s, x, b) /\ Talk(s, x, b) /\ Listed(s)
    BY <1>6, PageIs DEF Good, Copies
  <2>2. CASE Sock(b) # c
    BY <1>2, <1>4, <1>5, <2>1, <2>2, CopiedSame
  <2>3. CASE Sock(b) = c
    <3> DEFINE how == page[b].status
               d   == s.down[c]
    <3>1. /\ how \in {"pending-reset", "sync"} /\ x[c] \in Seq(Up) /\ d \in Seq(Down)
      BY <1>0, <1>6, PageIs, ServerIs
    <3>2. Stage(s, c) \in {"come", "greeted", "synced"}
      BY <2>1, StageIs
    <3>3. Handshake(how, UserOf[b], d, x[c], Stage(s, c)) /\ c \notin s.lost
      BY <2>1, <2>3, CopiedIs DEF Talk
    <3>4. t.down[c] = Append(d, m)
      BY <1>0, <1>4, <1>5, <3>3
    <3> HIDE DEF how, d
    <3>5. how = "pending-reset" /\ d = <<>>
      BY <1>1, <3>1, <3>2, <3>3, HandshakeReset
    <3>6. Copy("pending-reset", UserOf[b], page[b].state, Append(<<>>, m), y[c], t.st)
      BY <1>1, <1>5, CopyNew
    <3> QED BY <1>5, <2>3, <3>3, <3>4, <3>5, <3>6, CopiedIs DEF how
  <2> QED BY <2>2, <2>3
<1>7. Copies(t, y)
  BY <1>5, <1>6 DEF Copies
<1> QED
  BY <1>7 DEF t, y

LEMMA DisposeCopies ==
  ASSUME Typed, \A b \in Pages : Numbered(b),
         NEW s \in Servers, NEW x \in [Conns -> Seq(Up)], Copies(s, x),
         NEW c \in Range(s.clients)
  PROVE  Copies(Dispose(s, c), x)
<1> DEFINE who  == [id |-> Who(c), nick |-> 0]
           rest == [s EXCEPT !.clients = Spliced(s.clients, c),
                             !.synced = s.synced \ {c}, !.greeted = s.greeted \ {c}]
<1>1. c \in Conns /\ who \in Whos /\ "user:part" \in Verbs
  <2>1. c \in Conns
    BY ClientIs
  <2> QED BY <2>1, ConnIs DEF Whos, Verbs
<1>2. /\ rest \in Servers /\ rest.st = s.st /\ rest.lost = s.lost /\ rest.down = s.down
      /\ rest.synced = s.synced \ {c}
  <2>1. Spliced(s.clients, c) \in Seq(Conns)
    BY ServerIs, SplicedIs
  <2> QED BY <2>1 DEF Servers
<1>3. Dispose(s, c) = IF c \in s.greeted THEN Broadcast(rest, c, "user:part", who) ELSE rest
  BY DEF Dispose
<1> HIDE DEF rest, who
<1>4. Copies(rest, x)
  <2>1. ASSUME NEW b \in Pages \ overtaken, Connected(b)
        PROVE  Copied(rest, x, b)
    <3>1. Sock(b) \in Conns /\ Copied(s, x, b)
      BY <2>1, PageIs DEF Copies
    <3> QED BY <1>2, <3>1, CopiedSame
  <2> QED BY <1>2, <2>1 DEF Copies
<1>5. Copies(Broadcast(rest, c, "user:part", who), x)
  BY <1>1, <1>2, <1>4, BroadcastCopies
<1> QED
  BY <1>3, <1>4, <1>5

LEMMA ByeCopies ==
  ASSUME Typed, \A b \in Pages : Numbered(b),
         NEW s \in Servers, NEW x \in [Conns -> Seq(Up)], Copies(s, x),
         NEW c \in Range(s.clients)
  PROVE  Copies(Bye(s, c), x)
<1> DEFINE m    == [verb |-> "bye"]
           sent == Send(s, {c}, m)
<1>1. m \in Down /\ ~Foreign(m)
  BY DEF Down, Byes, Foreign
<1>2. Bye(s, c) = Dispose(sent, c)
  BY DEF Bye
<1> HIDE DEF m
<1>3. /\ sent \in Servers /\ sent.synced = s.synced /\ sent.lost = s.lost /\ sent.st = s.st
      /\ sent.clients = s.clients
      /\ \A k \in Conns : sent.down[k] =
           IF k \in {c} \ s.lost THEN Append(s.down[k], m) ELSE s.down[k]
  BY <1>1, SendIs DEF SameClients
<1> HIDE DEF sent
<1>4. Copies(sent, x)
  <2>1. ASSUME NEW b \in Pages \ overtaken, Connected(b)
        PROVE  Copied(sent, x, b)
    <3>1. Sock(b) \in Conns /\ Copied(s, x, b)
      BY <2>1, PageIs DEF Copies
    <3>2. <<s.st, m, sent.st>> \in Shows(UserOf[b])
      BY <1>1, <1>3, ServerIs, ShowsIs
    <3>3. CASE sent.down[Sock(b)] = s.down[Sock(b)]
      BY <1>3, <3>1, <3>3, CopiedSame
    <3>4. CASE sent.down[Sock(b)] = Append(s.down[Sock(b)], m)
      BY <1>1, <1>3, <3>1, <3>2, <3>4, CopiedSpread
    <3> QED BY <1>3, <3>1, <3>3, <3>4
  <2> QED BY <1>3, <2>1 DEF Copies
<1> QED
  BY <1>2, <1>3, <1>4, DisposeCopies

LEMMA DestroyedCopies ==
  ASSUME Typed, \A b \in Pages : Numbered(b),
         NEW s \in Servers, NEW x \in [Conns -> Seq(Up)], Good(s, x), Copies(s, x)
  PROVE  Copies(Destroyed(s), x)
<1> DEFINE N == Len(s.clients)
           first == [s EXCEPT !.zombie = TRUE]
<1>1. N \in Nat
  BY ServerIs
<1>2. PICK left :
        /\ left = [n \in 0..N |-> IF n = 0 THEN first ELSE Bye(left[n - 1], left[n - 1].clients[1])]
        /\ Destroyed(s) = left[N]
  BY <1>1, DestroyedIs
<1>3. left[0] = first /\ \A n \in 1..N : left[n] = Bye(left[n - 1], left[n - 1].clients[1])
  <2> HIDE DEF first
  <2>1. \A n \in 0..N : left[n] = IF n = 0 THEN first ELSE Bye(left[n - 1], left[n - 1].clients[1])
    BY <1>2
  <2> HIDE DEF N
  <2> QED BY <1>1, <2>1
<1>4. /\ first \in Servers /\ first.clients = s.clients /\ first.lost = s.lost
      /\ first.committed = s.committed /\ first.greeted = s.greeted /\ first.synced = s.synced
      /\ first.users = s.users /\ first.down = s.down /\ first.st = s.st
  BY DEF Servers
<1> HIDE DEF first
<1>5. Good(first, x) /\ Copies(first, x)
  <2>1. \A c : Stage(first, c) = Stage(s, c)
    BY <1>4 DEF Stage
  <2> QED BY <1>4, <2>1 DEF Good, Listed, Asked, Fresh, Talk, Copies, Copied
<1> DEFINE Holds(n) ==
             /\ left[n] \in Servers /\ Good(left[n], x) /\ Copies(left[n], x)
             /\ Len(left[n].clients) = N - n
           T == {n \in Nat : n <= N => Holds(n)}
<1>6. 0 \in T
  BY <1>1, <1>3, <1>4, <1>5
<1>7. ASSUME NEW n \in Nat, n \in T PROVE n + 1 \in T
  <2> SUFFICES ASSUME n + 1 <= N PROVE Holds(n + 1)
    OBVIOUS
  <2> DEFINE c == left[n].clients[1]
  <2>1. Holds(n)
    BY <1>1, <1>7
  <2>2. left[n + 1] = Bye(left[n], c)
    BY <1>1, <1>3
  <2>3. c \in Range(left[n].clients)
    <3>1. left[n].clients \in Seq(Conns) /\ Len(left[n].clients) >= 1
      BY <1>1, <2>1, ServerIs
    <3> QED BY <3>1 DEF Range
  <2> HIDE DEF c
  <2>4. LET t == Bye(left[n], c)
        IN  t \in Servers /\ Good(t, x) /\ Len(t.clients) = Len(left[n].clients) - 1
    BY <2>1, <2>3, ByeGood
  <2>5. Copies(Bye(left[n], c), x)
    BY <2>1, <2>3, ByeCopies
  <2> QED BY <1>1, <2>1, <2>2, <2>4, <2>5
<1>8. N \in T
  <2> HIDE DEF T
  <2> QED BY <1>1, <1>6, <1>7, Induct
<1>9. Holds(N)
  BY <1>1, <1>8
<1> QED
  BY <1>2, <1>9

\* What those who are no clients any more had to say is not heard, and the bye
\* that is on its way to them is the answer.
LEMMA ClearCopies ==
  ASSUME Typed, \A b \in Pages : Numbered(b),
         NEW s \in Servers, NEW x, NEW y, Good(s, x), Copies(s, x),
         \A k \in Conns : y[k] = x[k] \/ k \notin Range(s.clients)
  PROVE  Copies(s, y)
<1>1. ASSUME NEW b \in Pages \ overtaken, Connected(b)
      PROVE  Copied(s, y, b)
  <2>1. Sock(b) \in Conns /\ Copied(s, x, b) /\ Talk(s, x, b) /\ Listed(s)
    BY <1>1, PageIs DEF Good, Copies
  <2>2. CASE y[Sock(b)] = x[Sock(b)]
    BY <2>1, <2>2, CopiedSame
  <2>3. CASE Sock(b) \notin Range(s.clients)
    <3>1. Stage(s, Sock(b)) = "gone" /\ Sock(b) \notin s.synced
      BY <2>1, <2>3, StageIs
    <3>2. s.down[Sock(b)] # <<>> /\ s.down[Sock(b)][Len(s.down[Sock(b)])].verb = "bye"
      BY <2>1, <3>1 DEF Talk, Handshake
    <3>3. s.down[Sock(b)] \in Seq(Down)
      BY <2>1, ServerIs
    <3>4. Answered(page[b].sock, page[b].pending, s.down[Sock(b)], y[Sock(b)])
      BY <3>2, <3>3, AnsweredBye
    <3> QED BY <2>1, <3>1, <3>4, CopiedIs
  <2> QED BY <2>1, <2>2, <2>3
<1> QED
  BY <1>1 DEF Copies

-----------------------------------------------------------------------------
(* update *)

\* A page that is not up for a surprise: it was not overtaken, nor will it be as
\* the server hears the request it made on c.
Unhurt(s, x, c, b) ==
  /\ b \notin overtaken
  /\ Sock(b) = c /\ Ahead(Head(x[c])) => NoForeign(s.down[c])

CopiesUnhurt(s, x, c, t, y) ==
  /\ Proper(t.st)
  /\ \A b \in Pages : Connected(b) /\ Unhurt(s, x, c, b) => Copied(t, y, b)

LEMMA RejectedCopies ==
  ASSUME Typed, \A b \in Pages : Numbered(b),
         NEW s \in Servers, NEW x \in [Conns -> Seq(Up)], Good(s, x), Copies(s, x),
         NEW c \in Range(s.clients), x[c] # <<>>, Asks(Head(x[c])),
         ~Allowed(s.st, Head(x[c]).intent)
  PROVE  CopiesUnhurt(s, x, c, Rejected(s, c, Head(x[c]).tx), [x EXCEPT ![c] = Tail(x[c])])
<1> DEFINE r == Head(x[c])
           m == [verb |-> "reject", tx |-> r.tx]
           t == Rejected(s, c, r.tx)
           y == [x EXCEPT ![c] = Tail(x[c])]
<1>1. c \in Conns /\ Listed(s) /\ x[c] \in Seq(Up)
  BY ClientIs DEF Good
<1>2. r \in Up /\ r.tx \in Nat /\ r.tx # NULL
  BY <1>1, TailIs, UpIs, TableAssumption DEF Asks
<1>3. m \in Down /\ ~Foreign(m) /\ Replies(m) /\ m.tx = r.tx
  <2>1. m \in Rejects
    BY <1>2 DEF Rejects
  <2> QED BY <1>2, <2>1 DEF Down, Foreign, Replies
<1>4. y \in [Conns -> Seq(Up)] /\ y[c] = Tail(x[c]) /\ \A k \in Conns : k # c => y[k] = x[k]
  BY <1>1, HeardIs
<1>5. t = IF c \in s.synced THEN Send(s, {c}, m) ELSE s
  BY DEF Rejected
<1> HIDE DEF m, y, t
<1>6. /\ t \in Servers /\ t.st = s.st /\ t.lost = s.lost /\ t.synced = s.synced
      /\ \A k \in Conns : k # c => t.down[k] = s.down[k]
      /\ c \in s.synced /\ c \notin s.lost => t.down[c] = Append(s.down[c], m)
  <2> DEFINE sent == Send(s, {c}, m)
  <2>1. /\ sent \in Servers /\ sent.st = s.st /\ sent.lost = s.lost /\ sent.synced = s.synced
        /\ \A k \in Conns : sent.down[k] =
             IF k \in {c} \ s.lost THEN Append(s.down[k], m) ELSE s.down[k]
    BY <1>3, SendIs DEF SameClients
  <2> HIDE DEF sent
  <2>2. t = IF c \in s.synced THEN sent ELSE s
    BY <1>5 DEF sent
  <2> QED BY <1>1, <2>1, <2>2
<1>7. ASSUME NEW b \in Pages, Connected(b), Unhurt(s, x, c, b)
      PROVE  Copied(t, y, b)
  <2>1. Sock(b) \in Conns /\ Copied(s, x, b) /\ Talk(s, x, b)
    BY <1>7, PageIs DEF Good, Copies, Unhurt
  <2>2. CASE Sock(b) # c
    BY <1>4, <1>6, <2>1, <2>2, CopiedSame
  <2>3. CASE Sock(b) = c
    <3>1. page[b].status = "sync" /\ c \in s.synced /\ c \notin s.lost
      <4>1. page[b].status \in {"pending-reset", "sync"} /\ s.down[c] \in Seq(Down)
        BY <1>1, <1>7, PageIs, ServerIs
      <4>2. Handshake(page[b].status, UserOf[b], s.down[c], x[c], Stage(s, c))
        BY <2>1, <2>3 DEF Talk
      <4>3. Stage(s, c) \in {"come", "greeted", "synced"}
        BY <1>1, StageIs
      <4>4. page[b].status = "sync" /\ Stage(s, c) = "synced"
        BY <1>1, <4>1, <4>2, <4>3, AskingIs
      <4> QED BY <1>1, <2>1, <2>3, <4>4, StageIs, CopiedIs
    <3>2. /\ Ahead(r) => NoForeign(s.down[c])
          /\ <<s.st, m, t.st>> \in Shows(UserOf[b])
      BY <1>3, <1>6, <1>7, <2>3, ServerIs, ShowsIs DEF Unhurt
    <3>3. t.down[c] = Append(s.down[c], m)
      BY <1>6, <3>1
    <3> QED BY <1>1, <1>3, <1>4, <1>6, <2>1, <2>3, <3>1, <3>2, <3>3, CopiedOwn
  <2> QED BY <2>2, <2>3
<1>8. Proper(t.st)
  BY <1>6 DEF Copies
<1> QED
  BY <1>7, <1>8 DEF CopiesUnhurt, t, y

LEMMA AcceptedCopies ==
  ASSUME Typed, \A b \in Pages : Numbered(b),
         NEW s \in Servers, NEW x \in [Conns -> Seq(Up)], Good(s, x), Copies(s, x),
         NEW c \in Range(s.clients), x[c] # <<>>, Asks(Head(x[c])),
         NEW e \in Larp(s.st, Head(x[c]).intent)
  PROVE  CopiesUnhurt(s, x, c, Committed(s, c, Head(x[c]).tx, e), [x EXCEPT ![c] = Tail(x[c])])
<1> DEFINE r == Head(x[c])
           t == Committed(s, c, r.tx, e)
           y == [x EXCEPT ![c] = Tail(x[c])]
           msgs == News(s, Shown(e), c, r.tx)
<1>1. c \in Conns /\ Listed(s) /\ x[c] \in Seq(Up) /\ s.st \in States
  BY ClientIs, ServerIs DEF Good
<1>2. r \in Up /\ r.tx \in Nat /\ r.tx # NULL /\ r.intent \in Intents /\ r.tx \in Nat \cup {NULL}
  BY <1>1, TailIs, UpIs, TableAssumption DEF Asks
<1>3. Allowed(s.st, r.intent) /\ e \in EffectsOf(s.st, r.intent) /\ Asks(r)
  BY DEF Larp
<1> HIDE DEF r
<1>4. /\ e \in Effects /\ Commit(s.st, e) \in States
      /\ e.kind \in Predictable <=> r.intent.kind \in Predictable
      /\ e.kind \in Predictable => e = r.intent
      /\ e.p = r.intent.p
  BY <1>1, <1>2, <1>3, EffectsTyped
<1>5. y \in [Conns -> Seq(Up)] /\ y[c] = Tail(x[c]) /\ \A k \in Conns : k # c => y[k] = x[k]
  BY <1>1, HeardIs
<1>6. t \in Servers /\ Spread(s, t, msgs) /\ t.st = Commit(s.st, e)
  BY <1>2, <1>4, CommittedIs
<1> HIDE DEF t, y
<1>7. ASSUME NEW k \in Conns
      PROVE  /\ msgs[k] \in Down /\ msgs[k].verb = "update"
             /\ msgs[k].cmd.kind = "engine" /\ msgs[k].cmd.effect = EffectFor(e, Who(k))
             /\ k = c => msgs[k].tx = r.tx
             /\ k # c => msgs[k].tx = NULL
  BY <1>2, <1>4, ShownIs, NewsIs
<1> HIDE DEF msgs
<1>8. /\ t.lost = s.lost /\ t.synced = s.synced
      /\ \A k \in Conns : t.down[k] =
           IF k \in s.synced \ s.lost THEN Append(s.down[k], msgs[k]) ELSE s.down[k]
  BY <1>6 DEF Spread, SameClients
<1>9. /\ Proper(t.st)
      /\ \A b \in Pages, n \in Down :
            /\ n.verb = "update" /\ n.cmd.kind = "engine"
            /\ n.cmd.effect = EffectFor(e, UserOf[b]) /\ Foreign(n)
            => <<s.st, n, t.st>> \in Shows(UserOf[b])
  BY <1>1, <1>2, <1>3, <1>6, EffectShown DEF Copies
<1>10. ASSUME NEW b \in Pages, Connected(b), Unhurt(s, x, c, b)
       PROVE  Copied(t, y, b)
  <2>1. /\ Sock(b) \in Conns /\ Copied(s, x, b) /\ Talk(s, x, b) /\ Who(Sock(b)) = UserOf[b]
        /\ Sock(b) \notin s.lost
    BY <1>10, PageIs, CopiedIs DEF Good, Copies, Unhurt
  <2>2. CASE Sock(b) # c
    <3>1. CASE Sock(b) \in s.synced
      <4> DEFINE n == msgs[Sock(b)]
      <4>1. n \in Down /\ n.verb = "update" /\ n.cmd.kind = "engine" /\ n.tx = NULL
            /\ n.cmd.effect = EffectFor(e, UserOf[b]) /\ Foreign(n)
        BY <1>7, <2>1, <2>2 DEF Foreign
      <4>2. t.down[Sock(b)] = Append(s.down[Sock(b)], n)
        BY <1>8, <2>1, <3>1
      <4>3. <<s.st, n, t.st>> \in Shows(UserOf[b])
        BY <1>9, <4>1
      <4> HIDE DEF n
      <4>4. Copied(t, x, b)
        BY <1>6, <1>8, <2>1, <4>1, <4>2, <4>3, CopiedSpread
      <4>5. y[Sock(b)] = x[Sock(b)]
        BY <1>5, <2>1, <2>2
      <4> QED BY <1>6, <2>1, <4>4, <4>5, CopiedSame
    <3>2. CASE Sock(b) \notin s.synced
      BY <1>5, <1>8, <2>1, <2>2, <3>2, CopiedSame
    <3> QED BY <3>1, <3>2
  <2>3. CASE Sock(b) = c
    <3>1. page[b].status = "sync" /\ c \in s.synced
      <4>1. page[b].status \in {"pending-reset", "sync"} /\ s.down[c] \in Seq(Down)
        BY <1>1, <1>10, PageIs, ServerIs
      <4>2. Handshake(page[b].status, UserOf[b], s.down[c], x[c], Stage(s, c))
        BY <2>1, <2>3 DEF Talk
      <4>3. Stage(s, c) \in {"come", "greeted", "synced"}
        BY <1>1, StageIs
      <4>4. page[b].status = "sync" /\ Stage(s, c) = "synced"
        BY <1>1, <4>1, <4>2, <4>3, AskingIs
      <4> QED BY <1>1, <2>3, <4>4, StageIs
    <3> DEFINE n == msgs[c]
    <3>2. /\ n \in Down /\ n.verb = "update" /\ n.cmd.kind = "engine" /\ n.tx = r.tx
          /\ n.cmd.effect = EffectFor(e, UserOf[b]) /\ Replies(n)
      BY <1>1, <1>2, <1>7, <2>1, <2>3 DEF Replies
    <3>3. t.down[c] = Append(s.down[c], n)
      BY <1>1, <1>8, <2>1, <2>3, <3>1
    <3>4. EffectFor(e, UserOf[b]) = e
      <4>1. r = x[c][1] /\ 1 \in 1..Len(x[c]) /\ Asks(r)
        BY <1>1, <1>3, TailIs DEF r
      <4>2. Answers(page[b].pending, page[b].next_tx, UserOf[b], s.down[c], x[c])
        BY <2>1, <2>3 DEF Talk
      <4>3. r.intent.p = UserOf[b]
        BY <4>1, <4>2 DEF Answers
      <4> QED BY <1>4, <4>3, EffectForTyped
    <3>5. Foreign(n) <=> r.intent.kind \notin Predictable
      BY <1>2, <1>4, <3>2, <3>4 DEF Foreign
    <3> HIDE DEF n
    <3>6. Ahead(r) =>
            /\ NoForeign(s.down[c]) /\ ~Foreign(n)
            /\ Allowed(s.st, r.intent) => t.st = Commit(s.st, r.intent)
      BY <1>4, <1>6, <1>10, <2>3, <3>5 DEF Ahead, Unhurt, r
    <3>7. ~Ahead(r) => <<s.st, n, t.st>> \in Shows(UserOf[b])
      BY <1>3, <1>9, <3>2, <3>5 DEF Ahead
    <3> QED BY <1>1, <1>5, <1>6, <1>8, <2>1, <2>3, <3>1, <3>2, <3>3, <3>6, <3>7, CopiedOwn DEF r
  <2> QED BY <2>2, <2>3
<1> QED
  BY <1>9, <1>10 DEF CopiesUnhurt, t, y, r

\* What is allowed has an effect: a start may leave the seats as they are.
LEMMA EffectsSome ==
  ASSUME NEW st \in States, NEW m \in Intents
  PROVE  EffectsOf(st, m) # {}
<1>1. CASE m.kind = "start_game"
  <2>1. st.players \in [DOMAIN st.players -> Seated(st)] /\ Range(st.players) = Seated(st)
    <3>1. st.players \in Seq(Users)
      BY DEF States
    <3> QED BY <3>1 DEF Seated, Range
  <2>2. Call("init_game", m.p, st.players) \in EffectsOf(st, m)
    BY <1>1, <2>1 DEF EffectsOf
  <2> QED BY <2>2
<1>2. CASE m.kind = "draw_card"
  BY <1>2 DEF EffectsOf
<1>3. CASE m.kind = "undo_play"
  BY <1>3 DEF EffectsOf
<1>4. CASE m.kind \notin {"start_game", "draw_card", "undo_play"}
  BY <1>4 DEF EffectsOf
<1> QED
  BY <1>1, <1>2, <1>3, <1>4

LEMMA UpdatedCopies ==
  ASSUME Typed, \A b \in Pages : Numbered(b),
         NEW s \in Servers, NEW x \in [Conns -> Seq(Up)], Good(s, x), Copies(s, x),
         NEW c \in Range(s.clients), x[c] # <<>>, Asks(Head(x[c])),
         NEW t \in Updated(s, c, Head(x[c]).tx, Head(x[c]).intent)
  PROVE  CopiesUnhurt(s, x, c, t, [x EXCEPT ![c] = Tail(x[c])])
<1> DEFINE m == Head(x[c])
<1>1. CASE Larp(s.st, m.intent) = {}
  <2>1. t = Rejected(s, c, m.tx)
    BY <1>1 DEF Updated
  <2>2. ~Allowed(s.st, m.intent)
    <3>1. ASSUME Allowed(s.st, m.intent) PROVE EffectsOf(s.st, m.intent) # {}
      <4>1. m \in Up /\ m.intent \in Intents /\ s.st \in States
        <5>1. x[c] \in Seq(Up)
          BY ClientIs
        <5> QED BY <5>1, TailIs, UpIs, ServerIs DEF Asks
      <4> QED BY <3>1, <4>1, EffectsSome
    <3> QED BY <1>1, <3>1 DEF Larp
  <2> QED BY <2>1, <2>2, RejectedCopies
<1>2. CASE Larp(s.st, m.intent) # {}
  <2>1. PICK e \in Larp(s.st, m.intent) : t = Committed(s, c, m.tx, e)
    BY <1>2 DEF Updated
  <2> QED BY <2>1, AcceptedCopies
<1> QED
  BY <1>1, <1>2

-----------------------------------------------------------------------------
(* What the server does *)

LEMMA ServedCopies ==
  ASSUME CopyInv, page' = page, overtaken \subseteq overtaken', overtaken' \in SUBSET Pages,
         Proper(server'.st),
         \A b \in Pages \ overtaken' : Connected(b) => Copied(server', up', b)
  PROVE  (\A b \in Pages : Dated(b)') /\ Copies(server, up)'
<1>1. \A b \in Pages : Dated(b)'
  BY DEF CopyInv, Dated, Connected, Sock
<1>2. ASSUME NEW b \in Pages \ overtaken', Connected(b)'
      PROVE  Copied(server, up, b)'
  <2>1. Connected(b) /\ Copied(server', up', b)
    BY <1>2 DEF Connected
  <2> QED BY <2>1 DEF Copied, Sock
<1> QED
  BY <1>1, <1>2 DEF Copies, Proper

LEMMA ServerHearsCopies ==
  ASSUME CopyInv, NEW c \in Conns, ServerHears(c)
  PROVE  (\A b \in Pages : Dated(b)') /\ Copies(server, up)'
<1> DEFINE y == [up EXCEPT ![c] = Tail(up[c])]
<1>1. c \in Range(server.clients) /\ up[c] # <<>> /\ up' = y /\ page' = page
  BY DEF ServerHears, HearHello, HearReset, HearUpdate, Hears
<1>2. /\ Typed /\ server \in Servers /\ up \in [Conns -> Seq(Up)] /\ Good(server, up)
      /\ \A b \in Pages : Numbered(b)
      /\ overtaken \in SUBSET Pages /\ Copies(server, up)
  BY DEF CopyInv, Inv, Typed
<1>3. Head(up[c]) \in Up
  BY <1>1, <1>2, TailIs
<1> HIDE DEF y
<1>4. ASSUME Copies(server', y), overtaken' = overtaken
      PROVE  (\A b \in Pages : Dated(b)') /\ Copies(server, up)'
  BY <1>1, <1>2, <1>4, ServedCopies DEF Copies
<1>5. CASE HearHello(c)
  <2>1. Head(up[c]).verb = "req:hello" /\ server' = Hello(server, c, Head(up[c]).nick)
        /\ overtaken' = overtaken
    BY <1>5 DEF HearHello, Hears
  <2>2. Head(up[c]).nick \in Nat
    BY <1>3, <2>1, UpIs
  <2>3. Copies(Hello(server, c, Head(up[c]).nick), y)
    BY <1>1, <1>2, <2>1, <2>2, HelloCopies DEF y
  <2> QED BY <1>4, <2>1, <2>3
<1>6. CASE HearReset(c)
  <2>1. Head(up[c]).verb = "req:reset" /\ server' = Reset(server, c) /\ overtaken' = overtaken
    BY <1>6 DEF HearReset, Hears
  <2>2. Copies(Reset(server, c), y)
    BY <1>1, <1>2, <2>1, ResetCopies DEF y
  <2> QED BY <1>4, <2>1, <2>2
<1>7. CASE HearUpdate(c)
  <2> DEFINE m == Head(up[c])
  <2>1. m.verb = "req:update" /\ server' \in Updated(server, c, m.tx, m.intent)
        /\ overtaken' = IF /\ c = Sock(c[1]) /\ m.intent.kind \in Predictable
                           /\ OvertakenInFlight(c[1])
                        THEN overtaken \cup {c[1]} ELSE overtaken
    BY <1>7 DEF HearUpdate, Hears
  <2>2. CopiesUnhurt(server, up, c, server', y)
    BY <1>1, <1>2, <2>1, UpdatedCopies DEF y, Asks
  <2>3. overtaken \subseteq overtaken' /\ overtaken' \in SUBSET Pages
    BY <1>2, <2>1, ConnIs
  <2>4. ASSUME NEW b \in Pages \ overtaken', Connected(b)
        PROVE  Unhurt(server, up, c, b)
    <3> SUFFICES ASSUME Sock(b) = c, Ahead(m) PROVE NoForeign(server.down[c])
      BY <2>3, <2>4 DEF Unhurt
    <3>1. c = Sock(c[1]) /\ c[1] = b /\ m.intent.kind \in Predictable
      BY DEF Ahead, Sock
    <3>2. ~OvertakenInFlight(b)
      BY <2>1, <2>4, <3>1
    <3>3. server.down[c] \in Seq(Down)
      BY <1>2, ServerIs
    <3>4. \A i \in DOMAIN server.down[c] : ~Foreign(server.down[c][i])
      BY <3>2 DEF OvertakenInFlight
    <3> QED BY <3>3, <3>4 DEF NoForeign
  <2> QED BY <1>1, <2>2, <2>3, <2>4, ServedCopies DEF CopiesUnhurt
<1> QED
  BY <1>5, <1>6, <1>7 DEF ServerHears

LEMMA HearCloseCopies ==
  ASSUME CopyInv, NEW c \in Conns, HearClose(c)
  PROVE  (\A b \in Pages : Dated(b)') /\ Copies(server, up)'
<1> DEFINE t == Dispose(server, c)
           y == [up EXCEPT ![c] = <<>>]
<1>1. /\ c \in Range(server.clients) /\ c \in server.lost /\ server' = t /\ up' = y
      /\ page' = page /\ overtaken' = overtaken
  BY DEF HearClose
<1>2. /\ Typed /\ server \in Servers /\ up \in [Conns -> Seq(Up)] /\ Good(server, up)
      /\ \A b \in Pages : Numbered(b)
      /\ overtaken \in SUBSET Pages /\ Copies(server, up)
  BY DEF CopyInv, Inv, Typed
<1>3. t \in Servers /\ Good(t, up) /\ c \notin Range(t.clients)
  BY <1>1, <1>2, DisposeGood
<1>4. Copies(t, up)
  BY <1>1, <1>2, DisposeCopies
<1>5. \A k \in Conns : y[k] = up[k] \/ k = c
  BY <1>2
<1> HIDE DEF t, y
<1>6. Copies(t, y)
  BY <1>2, <1>3, <1>4, <1>5, ClearCopies
<1> QED
  BY <1>1, <1>2, <1>6, ServedCopies DEF Copies

LEMMA RenameCopies ==
  ASSUME CopyInv, NEW u \in Users, Rename(u)
  PROVE  (\A b \in Pages : Dated(b)') /\ Copies(server, up)'
<1> DEFINE c   == CHOOSE d \in Range(server.clients) : Who(d) = u
           who == [id |-> u, nick |-> events + 1]
           r   == [server EXCEPT !.users = Renamed(server.users, u, events + 1)]
<1>1. /\ server' = Broadcast(r, c, "user:nick", who) /\ up' = up /\ page' = page
      /\ overtaken' = overtaken
  BY DEF Rename
<1>2. /\ Typed /\ server \in Servers /\ \A b \in Pages : Numbered(b)
      /\ overtaken \in SUBSET Pages /\ Copies(server, up) /\ events + 1 \in Nat
      /\ up \in [Conns -> Seq(Up)]
  BY GameSyncAssumption DEF CopyInv, Inv, Typed
<1>3. who \in Whos /\ "user:nick" \in Verbs
  BY <1>2 DEF Whos, Verbs
<1>4. r \in Servers /\ r.st = server.st /\ r.lost = server.lost /\ r.synced = server.synced
      /\ r.down = server.down
  <2>1. Renamed(server.users, u, events + 1) \in UserLists
    BY <1>2, ServerIs, RenamedTyped
  <2> QED BY <1>2, <2>1 DEF Servers
<1> HIDE DEF c, who, r
<1>5. Copies(r, up)
  BY <1>2, <1>4 DEF Copies, Copied
<1>6. Copies(server', up)
  BY <1>1, <1>2, <1>3, <1>4, <1>5, BroadcastCopies
<1> QED
  BY <1>1, <1>2, <1>6, ServedCopies DEF Copies

LEMMA ExpireCopies ==
  ASSUME CopyInv, Expire
  PROVE  (\A b \in Pages : Dated(b)') /\ Copies(server, up)'
<1> DEFINE t == Destroyed(server)
           y == [c \in Conns |-> <<>>]
<1>1. server' = t /\ up' = y /\ page' = page /\ overtaken' = overtaken
  BY DEF Expire
<1>2. /\ Typed /\ server \in Servers /\ up \in [Conns -> Seq(Up)] /\ Good(server, up)
      /\ \A b \in Pages : Numbered(b)
      /\ overtaken \in SUBSET Pages /\ Copies(server, up)
  BY DEF CopyInv, Inv, Typed
<1>3. t \in Servers /\ Good(t, up) /\ Range(t.clients) = {}
  BY <1>2, DestroyedGood
<1>4. Copies(t, up)
  BY <1>2, DestroyedCopies
<1> HIDE DEF t, y
<1>5. Copies(t, y)
  BY <1>2, <1>3, <1>4, ClearCopies
<1> QED
  BY <1>1, <1>2, <1>5, ServedCopies DEF Copies

-----------------------------------------------------------------------------
(* What the pages do to their copies *)

\* What one page and its connection do leaves the other copies as they are.
LEMMA OwnCopies ==
  ASSUME CopyInv, NEW b \in Pages,
         \A a \in Pages \ {b} : page'[a] = page[a] /\ (a \in overtaken => a \in overtaken'),
         \A k \in Conns : k[1] # b =>
           /\ server'.down[k] = server.down[k] /\ up'[k] = up[k]
           /\ k \in server'.lost => k \in server.lost,
         server'.st = server.st, server'.synced = server.synced, Dated(b)',
         Connected(b)' /\ b \notin overtaken' => Copied(server, up, b)'
  PROVE  (\A a \in Pages : Dated(a)') /\ Copies(server, up)'
<1>1. ASSUME NEW a \in Pages \ {b} PROVE Dated(a)'
  <2>1. page'[a] = page[a] /\ Dated(a)
    BY DEF CopyInv
  <2> QED BY <2>1 DEF Dated, Connected
<1>2. ASSUME NEW a \in Pages \ {b}, Connected(a)', a \notin overtaken'
      PROVE  Copied(server, up, a)'
  <2>1. page'[a] = page[a] /\ a \notin overtaken /\ Connected(a)
    BY <1>2 DEF Connected
  <2>2. Copied(server, up, a) /\ Sock(a) \in Conns /\ Sock(a)[1] # b
    <3>1. Typed /\ Numbered(a)
      BY DEF CopyInv, Inv
    <3> QED BY <2>1, <3>1, PageIs DEF CopyInv, Copies
  <2>3. /\ server'.down[Sock(a)] = server.down[Sock(a)] /\ up'[Sock(a)] = up[Sock(a)]
        /\ Sock(a) \in server'.lost => Sock(a) \in server.lost
    BY <2>2
  <2>4. Sock(a)' = Sock(a)
    BY <2>1 DEF Sock
  <2> QED BY <2>1, <2>2, <2>3, <2>4 DEF Copied
<1>3. Proper(server.st)'
  BY DEF CopyInv, Copies, Proper
<1> QED
  BY <1>1, <1>2, <1>3 DEF Copies

\* The next message is taken off the wire: pg is the page and v what is on its
\* way to the server thereafter.
LEMMA TakeCopies ==
  ASSUME CopyInv, NEW b \in Pages, Connected(b),
         server' = [server EXCEPT !.down[Sock(b)] = Tail(@)],
         NEW pg, page' = [page EXCEPT ![b] = pg],
         pg.sock = page[b].sock, pg.conns = page[b].conns,
         NEW v, up' = [up EXCEPT ![Sock(b)] = v],
         overtaken' \in {overtaken, overtaken \cup {b}},
         \A p \in pg.pending : p.conn <= pg.conns,
         pg.status # "sync" => \A p \in pg.pending : p.conn # pg.sock,
         b \notin overtaken' /\ Sock(b) \in server.synced =>
           Copy(pg.status, UserOf[b], pg.state, Tail(server.down[Sock(b)]), v, server.st),
         b \notin overtaken' /\ pg.status = "sync" =>
           Answered(pg.sock, pg.pending, Tail(server.down[Sock(b)]), v)
  PROVE  (\A a \in Pages : Dated(a)') /\ Copies(server, up)'
<1> DEFINE c == Sock(b)
<1>1. /\ c \in Conns /\ c = <<b, page[b].conns>> /\ c \notin server.lost
  BY SocketIs DEF CopyInv
<1>2. Typed /\ server \in Servers
  BY DEF CopyInv, Inv, Typed
<1> DEFINE down == [server.down EXCEPT ![c] = Tail(server.down[c])]
<1>4. server' = [server EXCEPT !.down = down]
      /\ down[c] = Tail(server.down[c]) /\ \A k \in Conns : k # c => down[k] = server.down[k]
  BY <1>1, <1>2 DEF Servers
<1> HIDE DEF down
<1>5. /\ server'.down = down /\ server'.synced = server.synced /\ server'.lost = server.lost
      /\ server'.st = server.st
  BY <1>2, <1>4 DEF Servers
<1>6. /\ up'[c] = v /\ \A k \in Conns : k # c => up'[k] = up[k]
      /\ page'[b] = pg /\ \A a \in Pages : a # b => page'[a] = page[a]
  BY <1>1, <1>2 DEF Typed
<1>7. Sock(b)' = c /\ Connected(b)'
  BY <1>6 DEF Sock, Connected
<1>8. Dated(b)'
  BY <1>6 DEF Dated, Connected
<1>9. b \notin overtaken' => Copied(server, up, b)'
  BY <1>1, <1>4, <1>5, <1>6, <1>7 DEF Copied
<1>10. \A k \in Conns : k[1] # b =>
         /\ server'.down[k] = server.down[k] /\ up'[k] = up[k]
         /\ k \in server'.lost => k \in server.lost
  <2>1. \A k \in Conns : k[1] # b => k # c
    BY <1>1
  <2> QED BY <1>4, <1>5, <1>6, <2>1
<1>11. \A a \in Pages \ {b} : page'[a] = page[a] /\ (a \in overtaken => a \in overtaken')
  BY <1>6
<1> QED
  BY <1>5, <1>8, <1>9, <1>10, <1>11, OwnCopies

LEMMA PageHelloCopies ==
  ASSUME CopyInv, NEW b \in Pages, PageHello(b)
  PROVE  (\A a \in Pages : Dated(a)') /\ Copies(server, up)'
<1> DEFINE c == Sock(b)
           d == server.down[c]
           v == Append(up[c], [verb |-> "req:reset"])
           pg == [page[b] EXCEPT !.me = Head(d).you.id]
<1>1. /\ Connected(b) /\ d # <<>> /\ Head(d).verb = "hello"
      /\ server' = [server EXCEPT !.down[c] = Tail(@)]
      /\ page' = [page EXCEPT ![b] = pg] /\ up' = [up EXCEPT ![c] = v]
      /\ overtaken' = overtaken
  BY DEF PageHello, Takes
<1>2. /\ d \in Seq(Down) /\ up[c] \in Seq(Up) /\ page[b].status \in {"pending-reset", "sync"}
      /\ Stage(server, c) \in {"gone", "come", "greeted", "synced"}
      /\ Handshake(page[b].status, UserOf[b], d, up[c], Stage(server, c))
  BY <1>1, SocketIs DEF CopyInv
<1>3. page[b] \in GameClients /\ Dated(b) /\ Listed(server)
  BY DEF CopyInv, Inv, Typed, Good
<1>4. pg.sock = page[b].sock /\ pg.conns = page[b].conns /\ pg.pending = page[b].pending
      /\ pg.status = page[b].status
  BY <1>3 DEF GameClients
<1> HIDE DEF pg, v
<1>5. page[b].status = "pending-reset" /\ c \notin server.synced
  <2>1. page[b].status = "pending-reset" /\ Stage(server, c) \in {"gone", "greeted"}
    BY <1>1, <1>2, GreetedIs
  <2> QED BY <1>3, <2>1, StageIs
<1>6. /\ \A p \in pg.pending : p.conn <= pg.conns
      /\ pg.status # "sync" => \A p \in pg.pending : p.conn # pg.sock
  BY <1>1, <1>3, <1>4 DEF Dated
<1> QED
  BY <1>1, <1>4, <1>5, <1>6, TakeCopies

LEMMA PageRejectCopies ==
  ASSUME CopyInv, NEW b \in Pages, PageReject(b)
  PROVE  (\A a \in Pages : Dated(a)') /\ Copies(server, up)'
<1> DEFINE c == Sock(b)
           d == server.down[c]
           u == up[c]
           pg == [page[b] EXCEPT !.pending = Settled(page[b], Head(d).tx)]
<1>1. /\ Connected(b) /\ d # <<>> /\ Head(d).verb = "reject"
      /\ server' = [server EXCEPT !.down[c] = Tail(@)]
      /\ page' = [page EXCEPT ![b] = pg] /\ up' = up /\ overtaken' = overtaken
  BY DEF PageReject, Takes
<1>2. /\ c \in Conns /\ d \in Seq(Down) /\ u \in Seq(Up)
      /\ page[b].status \in {"pending-reset", "sync"}
      /\ Handshake(page[b].status, UserOf[b], d, u, Stage(server, c))
  BY <1>1, SocketIs DEF CopyInv
<1>3. page[b] \in GameClients /\ Dated(b) /\ Numbered(b) /\ up \in [Conns -> Seq(Up)]
      /\ server.st \in States
  BY ServerIs DEF CopyInv, Inv, Typed
<1>4. page[b].status = "sync"
  BY <1>1, <1>2, HandshakeTake
<1>5. page[b].state \in States
  BY <1>3, <1>4 DEF Numbered, GameClients
<1>6. /\ pg.sock = page[b].sock /\ pg.conns = page[b].conns /\ pg.status = page[b].status
      /\ pg.state = page[b].state /\ pg.pending = {p \in page[b].pending : p.tx # Head(d).tx}
  BY <1>3 DEF GameClients, Settled
<1>7. ~Foreign(Head(d)) /\ Head(d).verb # "bye"
  BY <1>1 DEF Foreign
<1>8. b \notin overtaken =>
        /\ c \in server.synced => Copy("sync", UserOf[b], page[b].state, d, u, server.st)
        /\ Answered(page[b].sock, page[b].pending, d, u)
  BY <1>1, <1>4, CopiedIs DEF CopyInv, Copies
<1> HIDE DEF pg, c, d, u
<1>9. b \notin overtaken /\ c \in server.synced =>
        Copy("sync", UserOf[b], page[b].state, Tail(d), u, server.st)
  BY <1>1, <1>2, <1>3, <1>5, <1>7, <1>8, CopyTake
<1>10. b \notin overtaken => Answered(page[b].sock, pg.pending, Tail(d), u)
  <2>1. pg.pending \in SUBSET page[b].pending /\ \A p \in pg.pending : p.tx # Head(d).tx
    BY <1>6
  <2> QED BY <1>1, <1>2, <1>7, <1>8, <2>1, AnsweredTake
<1>11. /\ \A p \in pg.pending : p.conn <= pg.conns
       /\ up' = [up EXCEPT ![c] = u]
  BY <1>1, <1>3, <1>6 DEF Dated, u
<1>12. /\ pg.status = "sync" /\ overtaken' \in {overtaken, overtaken \cup {b}}
       /\ b \notin overtaken' /\ c \in server.synced =>
            Copy(pg.status, UserOf[b], pg.state, Tail(d), u, server.st)
       /\ b \notin overtaken' /\ pg.status = "sync" =>
            Answered(pg.sock, pg.pending, Tail(d), u)
  BY <1>1, <1>4, <1>6, <1>9, <1>10
<1> QED
  BY <1>1, <1>6, <1>11, <1>12, TakeCopies DEF c, d

LEMMA PageResetCopies ==
  ASSUME CopyInv, NEW b \in Pages, PageReset(b)
  PROVE  (\A a \in Pages : Dated(a)') /\ Copies(server, up)'
<1> DEFINE c == Sock(b)
           d == server.down[c]
           u == up[c]
           m == Head(d)
           was  == Resumed(page[b], m)
           join == Joining(UserOf[b])
           pg   == IF Allowed(m.state, join) THEN Attempted(was, join) ELSE was
           v    == IF Allowed(m.state, join) THEN Append(u, Request(was, join)) ELSE u
<1>1. /\ Connected(b) /\ d # <<>> /\ m.verb = "reset"
      /\ server' = [server EXCEPT !.down[c] = Tail(@)] /\ overtaken' = overtaken
      /\ page' = [page EXCEPT ![b] = pg]
      /\ IF Allowed(m.state, join) THEN up' = [up EXCEPT ![c] = v] ELSE up' = up
  BY DEF PageReset, Takes, Resumed, Joining
<1>2. /\ c \in Conns /\ d \in Seq(Down) /\ u \in Seq(Up)
      /\ page[b].status \in {"pending-reset", "sync"}
      /\ Handshake(page[b].status, UserOf[b], d, u, Stage(server, c))
  BY <1>1, SocketIs DEF CopyInv
<1>3. page[b] \in GameClients /\ Dated(b) /\ Numbered(b) /\ up \in [Conns -> Seq(Up)]
      /\ server.st \in States /\ UserOf[b] \in Users
  BY ServerIs, GameSyncAssumption DEF CopyInv, Inv, Typed
<1>4. m \in Down /\ m = d[1] /\ m.state \in States /\ m.who \in UserLists /\ Tail(d) \in Seq(Down)
  <2>1. m \in Down /\ m = d[1] /\ Tail(d) \in Seq(Down)
    BY <1>1, <1>2, TailIs
  <2> QED BY <1>1, <2>1, DownIs
<1>5. page[b].status = "pending-reset" /\ u = <<>>
  BY <1>1, <1>2, ResumedIs
<1>6. /\ was \in GameClients /\ was.state = m.state /\ was.status = "sync"
      /\ was.sock = page[b].sock /\ was.conns = page[b].conns /\ was.pending = page[b].pending
      /\ was.next_tx = page[b].next_tx
  BY <1>3, <1>4 DEF Resumed, GameClients
<1>7. /\ \A p \in page[b].pending : p.conn <= page[b].conns
      /\ \A p \in page[b].pending : p.conn # page[b].sock
      /\ page[b].sock = page[b].conns
  BY <1>1, <1>3, <1>5 DEF Dated, Numbered, Connected
<1>8. b \notin overtaken /\ c \in server.synced =>
        Copy("sync", UserOf[b], m.state, Tail(d), u, server.st)
  <2> SUFFICES ASSUME b \notin overtaken, c \in server.synced
               PROVE  Copy("sync", UserOf[b], m.state, Tail(d), u, server.st)
    OBVIOUS
  <2>1. Copy("pending-reset", UserOf[b], page[b].state, d, <<>>, server.st)
    BY <1>1, <1>5, CopiedIs DEF CopyInv, Copies
  <2> HIDE DEF d, c, m
  <2>2. d[1].state \in States
    BY <1>4
  <2>3. Copy("sync", UserOf[b], d[1].state, Tail(d), <<>>, server.st)
    BY <1>1, <1>2, <1>3, <2>1, <2>2, CopyReset
  <2> QED BY <1>4, <1>5, <2>3
<1>9. Answered(page[b].sock, page[b].pending, Tail(d), u)
  BY <1>7, AnsweredNone
<1> DEFINE r == Request(was, join)
           p == [tx |-> was.next_tx, predicted |-> join.kind \in Predictable, conn |-> was.sock]
<1>10. /\ join \in Intents /\ join.kind = "add_player" /\ join.kind \in Predictable
  BY <1>3 DEF Joining, Call, Intents, Predictable
<1>11. LET pg2 == Attempted(was, join)
       IN  /\ pg2.state \in States
           /\ pg2.pending = was.pending \cup {p} /\ p \in Pendings
           /\ pg2.status = was.status /\ pg2.sock = was.sock /\ pg2.conns = was.conns
           /\ r \in Up /\ Asks(r) /\ r.tx = was.next_tx /\ r.intent = join
  <2> HIDE DEF was, join, p, r
  <2>1. was.state \in States /\ join.kind # "rm_player"
    BY <1>4, <1>6, <1>10
  <2> QED BY <1>6, <1>10, <2>1, AttemptedIs DEF p, r
<1>12. p.tx = was.next_tx /\ p.conn = was.sock
  OBVIOUS
<1>13. Attempted(was, join).state = Commit(m.state, join)
  <2> HIDE DEF was, join
  <2> QED BY <1>6, <1>10 DEF Attempted, GameClients
<1> HIDE DEF c, d, u, m, was, join, r, p
<1>14. CASE Allowed(m.state, join)
  <2>1. /\ pg.pending = page[b].pending \cup {p} /\ pg.status = "sync" /\ pg.sock = page[b].sock
        /\ pg.conns = page[b].conns /\ pg.state \in States /\ pg.state = Commit(m.state, join)
        /\ v = Append(u, r)
    BY <1>6, <1>11, <1>13, <1>14 DEF r
  <2>2. <<m.state, r, pg.state>> \in Foresees(UserOf[b])
    <3>1. join.p = UserOf[b]
      BY DEF join, Joining, Call
    <3> QED BY <1>4, <1>10, <1>11, <1>14, <2>1, <3>1, ForeseesIs DEF Ahead
  <2>3. up' = [up EXCEPT ![c] = v]
    BY <1>1, <1>14
  <2> HIDE DEF pg, v
  <2>4. b \notin overtaken /\ c \in server.synced =>
          Copy("sync", UserOf[b], pg.state, Tail(d), v, server.st)
    BY <1>2, <1>3, <1>4, <1>8, <1>11, <2>1, <2>2, CopyAsks
  <2>5. Answered(pg.sock, pg.pending, Tail(d), v)
    BY <1>2, <1>4, <1>6, <1>9, <1>11, <1>12, <2>1, AnsweredAsk
  <2>6. \A q \in pg.pending : q.conn <= pg.conns
    <3>1. p.conn = page[b].conns /\ page[b].conns \in Nat
      BY <1>3, <1>6, <1>7, <1>12 DEF GameClients
    <3> QED BY <1>7, <2>1, <3>1
  <2> QED BY <1>1, <2>1, <2>3, <2>4, <2>5, <2>6, TakeCopies DEF c, d
<1>15. CASE ~Allowed(m.state, join)
  <2>1. pg = was /\ v = u /\ up' = [up EXCEPT ![c] = u]
    BY <1>1, <1>3, <1>15 DEF u
  <2> HIDE DEF pg, v
  <2> QED BY <1>1, <1>6, <1>7, <1>8, <1>9, <2>1, TakeCopies DEF c, d
<1> QED
  BY <1>14, <1>15

\* update: what it makes of a page that can apply it, of one that predicted it, and
\* of one that is told of users.
LEMMA PageUpdateCases ==
  ASSUME NEW b \in Pages, NEW pg \in GameClients, NEW m
  PROVE  LET pg2   == PageUpdated(pg, b, m)
             state == Apply(pg.state, m.cmd.effect, UserOf[b])
         IN  /\ pg2.sock = pg.sock /\ pg2.conns = pg.conns /\ pg2.status = pg.status
             /\ pg2.pending \in {pg.pending, Settled(pg, m.tx)}
             /\ Predicted(pg, m.tx) =>
                  pg2.state = pg.state /\ pg2.pending = Settled(pg, m.tx)
             /\ ~Predicted(pg, m.tx) /\ m.cmd.kind = "protocol" => pg2.state = pg.state
             /\ ~Predicted(pg, m.tx) /\ m.cmd.kind # "protocol" /\ state # NULL =>
                  pg2.state = state /\ pg2.pending = Settled(pg, m.tx)
<1> DEFINE state == Apply(pg.state, m.cmd.effect, UserOf[b])
           pg2 == PageUpdated(pg, b, m)
<1>1. CASE Predicted(pg, m.tx)
  <2>1. pg2 = [pg EXCEPT !.pending = Settled(pg, m.tx)]
    BY <1>1 DEF PageUpdated
  <2> HIDE DEF pg2
  <2> QED BY <1>1, <2>1 DEF GameClients, pg2
<1>2. CASE ~Predicted(pg, m.tx) /\ m.cmd.kind = "protocol"
  <2> DEFINE nick  == IF m.cmd.verb = "user:nick" /\ m.cmd.who.id = pg.me THEN m.cmd.who.nick
                      ELSE pg.nick
             users == UsersAfter(pg.users, m.cmd)
  <2>1. pg2 = [pg EXCEPT !.users = users, !.nick = nick]
    BY <1>2 DEF PageUpdated
  <2> HIDE DEF pg2, users, nick
  <2> QED BY <1>2, <2>1 DEF GameClients, pg2
<1>3. CASE ~Predicted(pg, m.tx) /\ m.cmd.kind # "protocol"
  <2>1. pg2 = IF state = NULL THEN pg
              ELSE [pg EXCEPT !.state = state, !.pending = Settled(pg, m.tx)]
    BY <1>3 DEF PageUpdated
  <2> HIDE DEF pg2, state
  <2> QED BY <1>3, <2>1 DEF GameClients, pg2, state
<1> QED
  BY <1>1, <1>2, <1>3

LEMMA PageUpdateCopies ==
  ASSUME CopyInv, NEW b \in Pages, PageUpdate(b)
  PROVE  (\A a \in Pages : Dated(a)') /\ Copies(server, up)'
<1> DEFINE c == Sock(b)
           d == server.down[c]
           u == up[c]
           m == Head(d)
           o == UserOf[b]
           was == page[b]
           pg  == PageUpdated(was, b, m)
           state == Apply(was.state, m.cmd.effect, o)
<1>1. /\ Connected(b) /\ d # <<>> /\ m.verb = "update"
      /\ server' = [server EXCEPT !.down[c] = Tail(@)]
      /\ page' = [page EXCEPT ![b] = pg] /\ up' = up
      /\ overtaken' = IF OvertakenOnArrival(b) THEN overtaken \cup {b} ELSE overtaken
  BY DEF PageUpdate, Takes
<1>2. /\ c \in Conns /\ d \in Seq(Down) /\ u \in Seq(Up)
      /\ was.status \in {"pending-reset", "sync"}
      /\ Stage(server, c) \in {"gone", "come", "greeted", "synced"}
      /\ Handshake(was.status, o, d, u, Stage(server, c))
      /\ Answers(was.pending, was.next_tx, o, d, u)
  BY <1>1, SocketIs DEF CopyInv
<1>3. was \in GameClients /\ Dated(b) /\ Numbered(b) /\ up \in [Conns -> Seq(Up)]
      /\ server.st \in States /\ Listed(server)
  BY ServerIs DEF CopyInv, Inv, Typed, Good
<1>4. /\ was.status = "sync" /\ was.state \in States
      /\ Handshake("sync", o, Tail(d), u, Stage(server, c))
  <2>1. was.status = "sync" /\ Handshake(was.status, o, Tail(d), u, Stage(server, c))
    BY <1>1, <1>2, HandshakeTake
  <2> QED BY <1>3, <2>1 DEF Numbered, GameClients
<1>5. m \in Down /\ m = d[1] /\ 1 \in 1..Len(d) /\ m.tx \in Nat \cup {NULL} /\ Tail(d) \in Seq(Down)
      /\ m.cmd.kind \in {"engine", "protocol"}
  <2>1. m \in Down /\ m = d[1] /\ Len(d) \in Nat \ {0} /\ Tail(d) \in Seq(Down)
    BY <1>1, <1>2, TailIs
  <2>2. m.tx \in Nat \cup {NULL} /\ m.cmd \in Commands
    BY <1>1, <2>1, DownIs
  <2> QED BY <2>1, <2>2 DEF Commands
<1>6. /\ pg.sock = was.sock /\ pg.conns = was.conns /\ pg.status = was.status
      /\ pg.pending \in {was.pending, Settled(was, m.tx)}
      /\ Predicted(was, m.tx) =>
           pg.state = was.state /\ pg.pending = Settled(was, m.tx)
      /\ ~Predicted(was, m.tx) /\ m.cmd.kind = "protocol" => pg.state = was.state
      /\ ~Predicted(was, m.tx) /\ m.cmd.kind # "protocol" /\ state # NULL =>
           pg.state = state /\ pg.pending = Settled(was, m.tx)
  <2> HIDE DEF m, was, o
  <2> QED BY <1>3, PageUpdateCases DEF o
<1>7. b \notin overtaken' =>
        /\ b \notin overtaken /\ (c \in server.synced /\ Foreign(m) => NoAhead(u))
        /\ c \in server.synced => Copy("sync", o, was.state, d, u, server.st)
        /\ Answered(was.sock, was.pending, d, u)
  <2> SUFFICES ASSUME b \notin overtaken'
               PROVE  /\ b \notin overtaken /\ (c \in server.synced /\ Foreign(m) => NoAhead(u))
                      /\ c \in server.synced => Copy("sync", o, was.state, d, u, server.st)
                      /\ Answered(was.sock, was.pending, d, u)
    OBVIOUS
  <2>1. ~OvertakenOnArrival(b) /\ b \notin overtaken
    BY <1>1
  <2>2. Copied(server, up, b)
    BY <1>1, <2>1 DEF CopyInv, Copies
  <2>3. c \in server.synced /\ Foreign(m) => NoAhead(u)
    BY <1>2, <1>3, <2>1 DEF OvertakenOnArrival, NoAhead, Ahead, Asks, Listed
  <2> QED BY <1>4, <2>1, <2>2, <2>3, CopiedIs
<1>8. /\ Predicted(was, m.tx) <=>
           m.cmd.kind = "engine" /\ m.tx # NULL /\ m.cmd.effect.kind \in Predictable
      /\ m.tx # NULL => m.cmd.kind = "engine"
  <2>1. m.tx # NULL => Replies(m)
    BY <1>1 DEF Replies
  <2>2. m.tx # NULL =>
          /\ m.cmd.kind = "engine"
          /\ \E p \in was.pending :
               p.tx = m.tx /\ (p.predicted <=> m.cmd.effect.kind \in Predictable)
    BY <1>1, <1>2, <1>5, <2>1 DEF Answers
  <2>3. \A p, q \in was.pending : p.tx = q.tx => p = q
    BY <1>2 DEF Answers
  <2>4. \A p \in was.pending : p.tx # NULL
    BY <1>3, TableAssumption DEF GameClients, Pendings
  <2> HIDE DEF m, was
  <2>5. CASE m.tx = NULL
    BY <2>4, <2>5 DEF Predicted
  <2>6. CASE m.tx # NULL
    <3>1. PICK p \in was.pending :
            p.tx = m.tx /\ (p.predicted <=> m.cmd.effect.kind \in Predictable)
      BY <2>2, <2>6
    <3>2. Predicted(was, m.tx) <=> p.predicted
      BY <2>3, <3>1 DEF Predicted
    <3> QED BY <2>2, <2>6, <3>1, <3>2, Zenon
  <2> QED BY <2>5, <2>6
<1>9. Foreign(m) <=> m.cmd.kind = "engine" /\ ~Predicted(was, m.tx)
  BY <1>1, <1>8 DEF Foreign
<1> HIDE DEF c, d, u, m, o, was, pg, state
<1>10. b \notin overtaken' /\ c \in server.synced =>
         /\ Copy("sync", o, pg.state, Tail(d), u, server.st)
         /\ pg.pending = Settled(was, m.tx) \/ m.cmd.kind = "protocol"
  <2> SUFFICES ASSUME b \notin overtaken', c \in server.synced
               PROVE  /\ Copy("sync", o, pg.state, Tail(d), u, server.st)
                      /\ pg.pending = Settled(was, m.tx) \/ m.cmd.kind = "protocol"
    OBVIOUS
  <2>1. Copy("sync", o, was.state, d, u, server.st)
    BY <1>7
  <2>2. CASE Foreign(m)
    <3>1. /\ state \in States /\ Copy("sync", o, state, Tail(d), u, server.st)
      <4>1. NoAhead(u) /\ Foreign(Head(d))
        BY <1>7, <2>2 DEF m
      <4> QED BY <1>1, <1>2, <1>3, <1>4, <2>1, <4>1, CopyShown DEF state, m
    <3>2. state # NULL
      BY <3>1, StatesAssumption
    <3> QED BY <1>6, <1>9, <2>2, <3>1, <3>2
  <2>3. CASE ~Foreign(m)
    <3>1. Copy("sync", o, was.state, Tail(d), u, server.st)
      BY <1>1, <1>2, <1>3, <1>4, <2>1, <2>3, CopyTake DEF m
    <3>2. pg.state = was.state
      BY <1>5, <1>6, <1>9, <2>3
    <3>3. pg.pending = Settled(was, m.tx) \/ m.cmd.kind = "protocol"
      BY <1>5, <1>6, <1>9, <2>3
    <3> QED BY <3>1, <3>2, <3>3
  <2> QED BY <2>2, <2>3
<1>11. b \notin overtaken' => Answered(was.sock, pg.pending, Tail(d), u)
  <2> SUFFICES ASSUME b \notin overtaken' PROVE Answered(was.sock, pg.pending, Tail(d), u)
    OBVIOUS
  <2>1. Stage(server, c) \in {"gone", "synced"}
    BY <1>4 DEF Handshake
  <2>2. CASE Stage(server, c) = "gone"
    <3> DEFINE rest == Tail(d)
    <3>1. rest # <<>> /\ rest[Len(rest)].verb = "bye"
      BY <1>4, <2>2 DEF Handshake
    <3> HIDE DEF rest
    <3>2. Answered(was.sock, pg.pending, rest, u)
      BY <1>5, <3>1, AnsweredBye DEF rest
    <3> QED BY <3>2 DEF rest
  <2>3. CASE Stage(server, c) = "synced"
    <3>1. c \in server.synced
      BY <1>3, <2>3, StageIs
    <3>2. pg.pending = Settled(was, m.tx) \/ m.cmd.kind = "protocol"
      BY <1>10, <3>1
    <3>3. pg.pending \in SUBSET was.pending
      BY <1>6 DEF Settled
    <3>4. Replies(Head(d)) => \A p \in pg.pending : p.tx # Head(d).tx
      BY <1>8, <3>2 DEF Replies, Settled, m
    <3>5. Head(d).verb # "bye" /\ Answered(was.sock, was.pending, d, u)
      BY <1>1, <1>7 DEF m
    <3> QED BY <1>1, <1>2, <3>3, <3>4, <3>5, AnsweredTake
  <2> QED BY <2>1, <2>2, <2>3
<1>12. /\ \A p \in pg.pending : p.conn <= pg.conns
       /\ pg.status = "sync" /\ up' = [up EXCEPT ![c] = u]
       /\ overtaken' \in {overtaken, overtaken \cup {b}}
       /\ pg.sock = page[b].sock /\ pg.conns = page[b].conns
  <2>1. \A p \in was.pending : p.conn <= was.conns
    BY <1>3 DEF Dated, was
  <2> QED BY <1>1, <1>3, <1>4, <1>6, <2>1 DEF Settled, u, was
<1>13. /\ b \notin overtaken' /\ c \in server.synced =>
            Copy(pg.status, UserOf[b], pg.state, Tail(d), u, server.st)
       /\ b \notin overtaken' /\ pg.status = "sync" =>
            Answered(pg.sock, pg.pending, Tail(d), u)
  BY <1>6, <1>10, <1>11, <1>12 DEF o
<1> QED
  BY <1>1, <1>12, <1>13, TakeCopies DEF c, d

-----------------------------------------------------------------------------
(* Connections that end and begin, and requests *)

LEMMA CloseCopies ==
  ASSUME CopyInv, NEW b \in Pages, Break(b) \/ LeavePage(b) \/ PageBye(b)
  PROVE  (\A a \in Pages : Dated(a)') /\ Copies(server, up)'
<1> DEFINE c == Sock(b)
           pg == Closed(page[b])
<1>1. /\ Connected(b)
      /\ \E how : page' = [page EXCEPT ![b] = [pg EXCEPT !.status = how]]
      /\ \E v : \/ server' = [server EXCEPT !.lost = server.lost \cup {c}, !.down[c] = v]
                \/ server' = [server EXCEPT !.down[c] = v]
      /\ up' = up /\ overtaken' = overtaken \ {b}
  BY DEF Break, LeavePage, PageBye, Takes, Forget
<1>2. Typed /\ server \in Servers /\ page[b] \in GameClients /\ Dated(b)
  BY DEF CopyInv, Inv, Typed
<1>3. c \in Conns /\ c[1] = b
  BY <1>1, SocketIs DEF CopyInv
<1>4. pg.sock = 0 /\ pg.conns = page[b].conns /\ pg.pending = page[b].pending
      /\ DOMAIN pg = DOMAIN page[b]
  BY <1>2 DEF Closed, GameClients
<1> HIDE DEF c, pg
<1>5. /\ page'[b].sock = 0 /\ page'[b].conns = page[b].conns /\ page'[b].pending = page[b].pending
      /\ \A a \in Pages : a # b => page'[a] = page[a]
  <2>1. PICK how : page' = [page EXCEPT ![b] = [pg EXCEPT !.status = how]]
    BY <1>1
  <2>2. page'[b] = [pg EXCEPT !.status = how]
    BY <1>2, <2>1 DEF Typed
  <2> QED BY <1>2, <1>4, <2>1, <2>2 DEF Typed
<1>6. /\ server'.st = server.st /\ server'.synced = server.synced
      /\ \A k \in Conns : k # c =>
           server'.down[k] = server.down[k] /\ (k \in server'.lost => k \in server.lost)
  <2>1. PICK v : \/ server' = [server EXCEPT !.lost = server.lost \cup {c}, !.down[c] = v]
                 \/ server' = [server EXCEPT !.down[c] = v]
    BY <1>1
  <2> DEFINE down == [server.down EXCEPT ![c] = v]
  <2>2. \/ server' = [server EXCEPT !.lost = server.lost \cup {c}, !.down = down]
        \/ server' = [server EXCEPT !.down = down]
    BY <2>1
  <2>3. \A k \in Conns : k # c => down[k] = server.down[k]
    BY <1>2 DEF Servers
  <2> HIDE DEF down
  <2> QED BY <1>2, <2>2, <2>3 DEF Servers
<1>7. Dated(b)' /\ ~Connected(b)'
  BY <1>2, <1>5 DEF Dated, Connected
<1>8. \A k \in Conns : k[1] # b =>
        /\ server'.down[k] = server.down[k] /\ up'[k] = up[k]
        /\ k \in server'.lost => k \in server.lost
  BY <1>1, <1>3, <1>6
<1>9. \A a \in Pages \ {b} : page'[a] = page[a] /\ (a \in overtaken => a \in overtaken')
  BY <1>1, <1>5
<1> QED
  BY <1>6, <1>7, <1>8, <1>9, OwnCopies

LEMMA ConnectCopies ==
  ASSUME CopyInv, NEW b \in Pages, Connect(b)
  PROVE  (\A a \in Pages : Dated(a)') /\ Copies(server, up)'
<1> DEFINE k == page[b].conns + 1
           c == <<b, k>>
           hello == <<[verb |-> "req:hello", nick |-> page[b].nick]>>
           clients == Append(server.clients, c)
           pg == [page[b] EXCEPT !.sock = k, !.conns = k]
<1>1. /\ ~Connected(b) /\ page[b].status = "pending-reset"
      /\ page' = [page EXCEPT ![b] = pg]
      /\ server' = [server EXCEPT !.clients = clients]
      /\ up' = [up EXCEPT ![c] = hello] /\ overtaken' = overtaken
  BY DEF Connect
<1>2. /\ Typed /\ server \in Servers /\ page[b] \in GameClients /\ Numbered(b) /\ Dated(b)
      /\ Fresh(server, up, b) /\ Listed(server) /\ events \in 0..MaxEvents /\ MaxEvents \in Nat
  BY GameSyncAssumption DEF CopyInv, Inv, Typed, Good
<1>3. page[b].conns \in Nat /\ k \in 1..(MaxEvents + 1) /\ k > page[b].conns /\ k # 0
  <2>1. page[b].conns \in Nat /\ page[b].conns <= events
    BY <1>1, <1>2 DEF GameClients, Numbered, Connected
  <2> QED BY <1>2, <2>1
<1>4. c \in Conns /\ c[1] = b
  BY <1>3 DEF Conns
<1>5. c \notin server.synced /\ c \notin server.lost
  BY <1>2, <1>3 DEF Fresh, Listed
<1>6. pg.sock = k /\ pg.conns = k /\ pg.pending = page[b].pending /\ pg.status = "pending-reset"
  BY <1>1, <1>2 DEF GameClients
<1> HIDE DEF hello, clients, pg
<1>7. /\ server'.st = server.st /\ server'.synced = server.synced /\ server'.lost = server.lost
      /\ server'.down = server.down
  BY <1>1, <1>2 DEF Servers
<1>8. /\ page'[b] = pg /\ \A a \in Pages : a # b => page'[a] = page[a]
      /\ \A j \in Conns : j # c => up'[j] = up[j]
  BY <1>1, <1>2 DEF Typed
<1>9. Dated(b)'
  <2>1. \A p \in page[b].pending : p \in Pendings /\ p.conn <= page[b].conns
    BY <1>2 DEF Dated, GameClients
  <2>2. \A p \in page[b].pending : p.conn <= k /\ p.conn # k
    BY <1>3, <2>1 DEF Pendings
  <2> QED BY <1>6, <1>8, <2>2 DEF Dated
<1>10. Copied(server, up, b)'
  <2>1. Sock(b)' = c
    BY <1>6, <1>8 DEF Sock
  <2> QED BY <1>5, <1>6, <1>7, <1>8, <2>1 DEF Copied
<1>11. \A j \in Conns : j[1] # b =>
         /\ server'.down[j] = server.down[j] /\ up'[j] = up[j]
         /\ j \in server'.lost => j \in server.lost
  BY <1>4, <1>7, <1>8
<1>12. \A a \in Pages \ {b} : page'[a] = page[a] /\ (a \in overtaken => a \in overtaken')
  BY <1>1, <1>8
<1> QED
  BY <1>7, <1>9, <1>10, <1>11, <1>12, OwnCopies

LEMMA AttemptCopies ==
  ASSUME CopyInv, NEW b \in Pages, Attempt(b)
  PROVE  (\A a \in Pages : Dated(a)') /\ Copies(server, up)'
<1> DEFINE c == Sock(b)
           d == server.down[c]
           u == up[c]
           o == UserOf[b]
           was == page[b]
<1>1. was.status = "sync" /\ Connected(b) /\ server' = server /\ overtaken' = overtaken
  BY DEF Attempt
<1>2. PICK m \in Offered(was, o) :
        /\ page' = [page EXCEPT ![b] = Attempted(was, m)]
        /\ up' = [up EXCEPT ![c] = Append(u, Request(was, m))]
  BY DEF Attempt
<1>3. /\ c \in Conns /\ d \in Seq(Down) /\ u \in Seq(Up) /\ c = <<b, page[b].conns>>
  BY <1>1, SocketIs DEF CopyInv
<1>4. Typed /\ was \in GameClients /\ Numbered(b) /\ Dated(b) /\ o \in Users
      /\ server.st \in States
  BY ServerIs, GameSyncAssumption DEF CopyInv, Inv, Typed
<1>5. was.state \in States
  BY <1>1, <1>4 DEF Numbered, GameClients
<1> DEFINE pg == Attempted(was, m)
           r  == Request(was, m)
           p  == [tx |-> was.next_tx, predicted |-> m.kind \in Predictable, conn |-> was.sock]
           v  == Append(u, r)
<1> HIDE DEF c, d, u, o, was
<1>6. /\ m \in Intents /\ m.p = o /\ Allowed(was.state, m)
      /\ m.kind = "rm_player" => m.p \in Seated(was.state)
  BY <1>4, OfferedIs
<1>7. /\ pg.state \in States /\ pg.pending = was.pending \cup {p}
      /\ pg.status = was.status /\ pg.sock = was.sock /\ pg.conns = was.conns
      /\ r \in Up /\ Asks(r) /\ r.tx = was.next_tx /\ r.intent = m
  BY <1>4, <1>5, <1>6, AttemptedIs
<1>8. pg.state = IF m.kind \in Predictable THEN Commit(was.state, m) ELSE was.state
  BY <1>4 DEF Attempted, GameClients
<1>9. p.tx = was.next_tx /\ p.conn = was.sock
  OBVIOUS
<1>10. <<was.state, r, pg.state>> \in Foresees(o)
  BY <1>5, <1>6, <1>7, <1>8, ForeseesIs DEF Ahead
<1>11. b \notin overtaken =>
         /\ c \notin server.lost
         /\ c \in server.synced => Copy("sync", o, was.state, d, u, server.st)
         /\ Answered(was.sock, was.pending, d, u)
  BY <1>1, CopiedIs DEF CopyInv, Copies, c, d, u, o, was
<1> HIDE DEF pg, r, p
<1>12. b \notin overtaken /\ c \in server.synced =>
         Copy("sync", o, pg.state, d, v, server.st)
  BY <1>3, <1>4, <1>5, <1>7, <1>10, <1>11, CopyAsks
<1>13. b \notin overtaken => Answered(pg.sock, pg.pending, d, v)
  BY <1>3, <1>7, <1>9, <1>11, AnsweredAsk
<1>14. page' = [page EXCEPT ![b] = pg] /\ up' = [up EXCEPT ![c] = v]
  BY <1>2 DEF pg, r
<1> HIDE DEF v
<1>15. /\ page'[b] = pg /\ \A a \in Pages : a # b => page'[a] = page[a]
       /\ up'[c] = v /\ \A k \in Conns : k # c => up'[k] = up[k]
  BY <1>3, <1>4, <1>14 DEF Typed
<1>16. Sock(b)' = c
  BY <1>7, <1>15 DEF Sock, c, was
<1>17. Dated(b)'
  <2>1. \A q \in was.pending : q.conn <= was.conns
    BY <1>4 DEF Dated, was
  <2>2. p.conn <= was.conns
    BY <1>1, <1>4, <1>9 DEF Numbered, Connected, GameClients, was
  <2> QED BY <1>1, <1>7, <1>15, <2>1, <2>2 DEF Dated
<1>18. b \notin overtaken => Copied(server, up, b)'
  <2>1. pg.status = "sync"
    BY <1>1, <1>7
  <2> QED BY <1>1, <1>11, <1>12, <1>13, <1>15, <1>16, <2>1 DEF Copied, d, o
<1>19. \A k \in Conns : k[1] # b =>
         /\ server'.down[k] = server.down[k] /\ up'[k] = up[k]
         /\ k \in server'.lost => k \in server.lost
  BY <1>1, <1>3, <1>15
<1>20. \A a \in Pages \ {b} : page'[a] = page[a] /\ (a \in overtaken => a \in overtaken')
  BY <1>1, <1>15
<1> QED
  BY <1>1, <1>17, <1>18, <1>19, <1>20, OwnCopies

-----------------------------------------------------------------------------
(* The theorems *)

\* Nobody has a page open on a game whose tricks they do not play.  (The copy of
\* somebody who only watches cannot tell whether the last trick was played, and
\* collect_trick fails in it: Apply, zpy.ts:1203.)
NobodyWatches == \A st \in Openings : AllSeated(st)

LEMMA CopyInit == ASSUME NobodyWatches, Init PROVE CopyInv
<1>1. PICK st \in Openings : server = Server(st)
  BY DEF Init
<1>2. Proper(server.st)
  BY <1>1 DEF Server, NobodyWatches, Proper, OpenInTurn
<1>3. \A b \in Pages : page[b].sock = 0 /\ page[b].pending = {}
  BY DEF Init, Page
<1>4. \A b \in Pages : Dated(b) /\ ~Connected(b)
  BY <1>3 DEF Dated, Connected
<1> QED
  BY <1>2, <1>4, InvInit DEF CopyInv, Copies

LEMMA CopyNext == ASSUME CopyInv, Next PROVE CopyInv'
<1>1. Inv'
  BY InvNext DEF CopyInv
<1>2. ASSUME NEW b \in Pages,
             Connect(b) \/ Attempt(b) \/ Break(b) \/ LeavePage(b) \/ PageHears(b)
      PROVE  (\A a \in Pages : Dated(a)') /\ Copies(server, up)'
  BY <1>2, ConnectCopies, AttemptCopies, CloseCopies, PageHelloCopies, PageResetCopies,
     PageUpdateCopies, PageRejectCopies DEF PageHears
<1>3. ASSUME NEW c \in Conns, ServerHears(c) \/ HearClose(c)
      PROVE  (\A a \in Pages : Dated(a)') /\ Copies(server, up)'
  BY <1>3, ServerHearsCopies, HearCloseCopies
<1>4. ASSUME NEW u \in Users, Rename(u)
      PROVE  (\A a \in Pages : Dated(a)') /\ Copies(server, up)'
  BY <1>4, RenameCopies
<1>5. ASSUME Expire
      PROVE  (\A a \in Pages : Dated(a)') /\ Copies(server, up)'
  BY <1>5, ExpireCopies
<1>6. (\A a \in Pages : Dated(a)') /\ Copies(server, up)'
  BY <1>2, <1>3, <1>4, <1>5 DEF Next
<1> QED
  BY <1>1, <1>6 DEF CopyInv

LEMMA CopyStutter == ASSUME CopyInv, UNCHANGED vars PROVE CopyInv'
<1>1. Inv'
  BY InvStutter DEF CopyInv
<1>2. server' = server /\ up' = up /\ page' = page /\ overtaken' = overtaken
  BY DEF vars
<1> QED
  BY <1>1, <1>2 DEF CopyInv, Dated, Connected, Sock, Copies, Proper, Copied

LEMMA CopyAlways == ASSUME NobodyWatches PROVE Spec => []CopyInv
<1>1. Init => CopyInv
  BY CopyInit
<1>2. CopyInv /\ [Next]_vars => CopyInv'
  BY CopyNext, CopyStutter
<1> QED
  BY <1>1, <1>2, PTL DEF Spec

\* The diagram of src/protocol/engine.ts commutes for any number of users, pages
\* and broken connections: a page that was not overtaken and has heard everything
\* shows the server's state, whatever it predicted on the way.
THEOREM CopiesAgree == ASSUME NobodyWatches PROVE Spec => []SyncUnlessOvertaken
<1>1. CopyInv => SyncUnlessOvertaken
  <2> SUFFICES ASSUME CopyInv, NEW b \in Pages \ overtaken, Quiet(b)
               PROVE  page[b].state = server.st
    BY DEF SyncUnlessOvertaken
  <2> DEFINE c == Sock(b)
             u == up[c]
  <2>1. page[b].status = "sync" /\ server.down[c] = <<>> /\ Numbered(b) /\ Listed(server)
        /\ \A i \in DOMAIN u : u[i].verb # "req:update"
    BY DEF Quiet, CopyInv, Inv, Good
  <2>2. Connected(b)
    BY <2>1 DEF Numbered
  <2>3. /\ Handshake("sync", UserOf[b], <<>>, u, Stage(server, c)) /\ u \in Seq(Up)
        /\ c \in Conns
    BY <2>1, <2>2, SocketIs DEF CopyInv
  <2>4. c \in server.synced
    <3>1. Stage(server, c) = "synced"
      BY <2>3 DEF Handshake
    <3> QED BY <2>1, <3>1, StageIs
  <2>5. Copy("sync", UserOf[b], page[b].state, <<>>, u, server.st)
    BY <2>1, <2>2, <2>4, CopiedIs DEF CopyInv, Copies
  <2>6. NoAhead(u)
    BY <2>1, <2>3 DEF NoAhead, Ahead, Asks
  <2>7. Leads(Shows(UserOf[b]), <<>>, page[b].state, server.st)
    BY <2>5, <2>6 DEF Copy
  <2> QED BY <2>7, LeadsEmpty
<1> QED
  BY <1>1, CopyAlways, PTL

\* Every request that is pending on the present connection is on its way, or its
\* one answer or the bye that ends the connection is: none is ever lost.
THEOREM AnsweredAlways == ASSUME NobodyWatches PROVE Spec => []RequestsAnswered
<1>1. CopyInv => RequestsAnswered
  <2> SUFFICES ASSUME CopyInv, NEW b \in Pages \ overtaken, page[b].status = "sync",
                      NEW p \in page[b].pending, p.conn = page[b].sock
               PROVE  \/ \E i \in DOMAIN up[Sock(b)] :
                           up[Sock(b)][i].verb = "req:update" /\ up[Sock(b)][i].tx = p.tx
                      \/ \E i \in DOMAIN server.down[Sock(b)] :
                           LET m == server.down[Sock(b)][i] IN
                           m.verb = "bye" \/ (m.verb \in {"update", "reject"} /\ m.tx = p.tx)
    BY DEF RequestsAnswered
  <2>1. Connected(b)
    BY DEF CopyInv, Inv, Numbered
  <2>2. Answered(page[b].sock, page[b].pending, server.down[Sock(b)], up[Sock(b)])
    BY <2>1, CopiedIs DEF CopyInv, Copies
  <2>3. up[Sock(b)] \in Seq(Up) /\ server.down[Sock(b)] \in Seq(Down)
    BY <2>1, SocketIs DEF CopyInv
  <2>4. Awaited(up[Sock(b)], p.tx) \/ Replied(server.down[Sock(b)], p.tx)
    BY <2>2 DEF Answered
  <2> QED BY <2>3, <2>4 DEF Awaited, Asks, Replied, Settles, Replies
<1> QED
  BY <1>1, CopyAlways, PTL

\* A page is overtaken as it takes or the server hears something, with a prediction
\* of its own and something foreign on their ways.
LEMMA Overtakes ==
  ASSUME CopyInv, [Next]_vars, NEW b \in overtaken', b \notin overtaken
  PROVE  /\ b \in Pages /\ Connected(b) /\ Sock(b) \in server.synced /\ page[b].status = "sync"
         /\ ~NoForeign(server.down[Sock(b)]) /\ ~NoAhead(up[Sock(b)])
<1>0. /\ Typed /\ server \in Servers /\ Good(server, up) /\ up \in [Conns -> Seq(Up)]
      /\ \A a \in Pages : Numbered(a)
  BY DEF CopyInv, Inv, Typed
<1>1. \/ PageUpdate(b) /\ b \in Pages /\ OvertakenOnArrival(b)
      \/ \E c \in Conns : HearUpdate(c) /\ c[1] = b /\ c = Sock(b)
           /\ Head(up[c]).intent.kind \in Predictable /\ OvertakenInFlight(b)
  <2>1. ASSUME NEW a \in Pages,
               Connect(a) \/ Attempt(a) \/ Break(a) \/ LeavePage(a) \/ PageHello(a)
                 \/ PageReset(a) \/ PageReject(a) \/ PageBye(a)
        PROVE  FALSE
    BY <2>1 DEF Connect, Attempt, Break, LeavePage, PageHello, PageReset, PageReject, PageBye,
                Forget
  <2>2. ASSUME NEW c \in Conns, HearHello(c) \/ HearReset(c) \/ HearClose(c)
        PROVE  FALSE
    BY <2>2 DEF HearHello, HearReset, HearClose
  <2>3. ~Expire /\ (\A u \in Users : ~Rename(u)) /\ ~UNCHANGED vars
    BY DEF Expire, Rename, vars
  <2>4. ASSUME NEW a \in Pages, PageUpdate(a)
        PROVE  PageUpdate(b) /\ b \in Pages /\ OvertakenOnArrival(b)
    <3>1. a = b /\ OvertakenOnArrival(a)
      BY <2>4 DEF PageUpdate
    <3> QED BY <2>4, <3>1
  <2>5. ASSUME NEW c \in Conns, HearUpdate(c)
        PROVE  c[1] = b /\ c = Sock(b)
               /\ Head(up[c]).intent.kind \in Predictable /\ OvertakenInFlight(b)
    BY <2>5 DEF HearUpdate
  <2> QED BY <2>1, <2>2, <2>3, <2>4, <2>5 DEF Next, PageHears, ServerHears
<1>2. CASE PageUpdate(b) /\ b \in Pages /\ OvertakenOnArrival(b)
  <2> DEFINE c == Sock(b)
             d == server.down[c]
             u == up[c]
  <2>1. Connected(b) /\ d # <<>> /\ Head(d).verb = "update"
    BY <1>2 DEF PageUpdate, Takes
  <2>2. /\ c \in Conns /\ d \in Seq(Down) /\ u \in Seq(Up)
        /\ page[b].status \in {"pending-reset", "sync"}
        /\ Handshake(page[b].status, UserOf[b], d, u, Stage(server, c))
    BY <1>2, <2>1, SocketIs DEF CopyInv
  <2>3. page[b].status = "sync"
    BY <2>1, <2>2, HandshakeTake
  <2>4. c \in Range(server.clients) /\ Foreign(Head(d))
        /\ \E i \in DOMAIN u : Ahead(u[i])
    BY <1>2 DEF OvertakenOnArrival, Ahead, Asks
  <2>5. Head(d) = d[1] /\ 1 \in 1..Len(d) /\ DOMAIN u = 1..Len(u)
    BY <2>1, <2>2, TailIs
  <2>6. c \in server.synced
    <3>1. Stage(server, c) \in {"come", "greeted", "synced"}
      BY <1>0, <2>4, StageIs DEF Good
    <3>2. Stage(server, c) = "synced"
      BY <2>2, <2>3, <3>1 DEF Handshake
    <3> QED BY <1>0, <3>2, StageIs DEF Good
  <2> QED BY <1>2, <2>1, <2>3, <2>4, <2>5, <2>6 DEF NoForeign, NoAhead
<1>3. ASSUME NEW c \in Conns, HearUpdate(c), c[1] = b, c = Sock(b),
             Head(up[c]).intent.kind \in Predictable, OvertakenInFlight(b)
      PROVE  /\ b \in Pages /\ Connected(b) /\ Sock(b) \in server.synced /\ page[b].status = "sync"
             /\ ~NoForeign(server.down[Sock(b)]) /\ ~NoAhead(up[Sock(b)])
  <2>1. c \in Range(server.clients) /\ up[c] # <<>> /\ Head(up[c]).verb = "req:update"
    BY <1>3 DEF HearUpdate, Hears
  <2>2. b \in Pages /\ Connected(b) /\ Sock(b) = c
    BY <1>0, <1>3, ConnIs DEF Connected, Sock
  <2>3. /\ server.down[c] \in Seq(Down) /\ up[c] \in Seq(Up)
        /\ page[b].status \in {"pending-reset", "sync"}
        /\ Handshake(page[b].status, UserOf[b], server.down[c], up[c], Stage(server, c))
    BY <2>2, SocketIs DEF CopyInv
  <2>4. Asks(Head(up[c])) /\ Ahead(Head(up[c]))
    BY <1>3, <2>1 DEF Asks, Ahead
  <2>5. Stage(server, c) \in {"come", "greeted", "synced"}
    BY <1>0, <2>1, StageIs DEF Good
  <2>6. page[b].status = "sync" /\ Stage(server, c) = "synced"
    BY <2>1, <2>3, <2>4, <2>5, AskingIs
  <2>7. c \in server.synced
    BY <1>0, <2>6, StageIs DEF Good
  <2>8. ~NoForeign(server.down[c])
    BY <1>3, <2>2, <2>3 DEF OvertakenInFlight, NoForeign
  <2>9. ~NoAhead(up[c])
    <3>1. Head(up[c]) = up[c][1] /\ 1 \in 1..Len(up[c])
      BY <2>1, <2>3, TailIs
    <3> QED BY <2>4, <3>1 DEF NoAhead
  <2> QED BY <2>2, <2>6, <2>7, <2>8, <2>9
<1> QED
  BY <1>1, <1>2, <1>3

\* A prediction that the page made and the server has not heard (client.ts:323) can
\* be overtaken only in the lobby, by an undo, or by what its own user did before: to
\* lead, follow or collect a trick it must be one's turn, and while it is, nobody else
\* can do anything but take back a play.
THEOREM TurnsAlways ==
  ASSUME NobodyWatches, OpenInTurn PROVE Spec => TurnsKeepPredictions
<1> DEFINE Excuses ==
      \A b \in overtaken' \ overtaken : \E i \in DOMAIN server.down[Sock(b)] :
        LET m == server.down[Sock(b)][i]
        IN  /\ Foreign(m)
            /\ \/ m.cmd.effect.kind \in {"add_player", "rm_player", "init_game", "observe_undo"}
               \/ m.cmd.effect.p = UserOf[b]
<1>1. ASSUME CopyInv, [Next]_vars PROVE Excuses
  <2> SUFFICES ASSUME NEW b \in overtaken', b \notin overtaken
               PROVE  \E i \in DOMAIN server.down[Sock(b)] : Excuse(server.down[Sock(b)][i], UserOf[b])
    BY DEF Excuse, Loose
  <2>1. /\ b \in Pages /\ Connected(b) /\ Sock(b) \in server.synced /\ page[b].status = "sync"
        /\ ~NoForeign(server.down[Sock(b)]) /\ ~NoAhead(up[Sock(b)])
    BY <1>1, Overtakes
  <2>2. Copy("sync", UserOf[b], page[b].state, server.down[Sock(b)], up[Sock(b)], server.st)
    BY <1>1, <2>1, CopiedIs DEF CopyInv, Copies
  <2>3. Excused(server.down[Sock(b)], UserOf[b])
    BY <2>1, <2>2 DEF Copy
  <2>4. server.down[Sock(b)] \in Seq(Down)
    BY <1>1, <2>1, SocketIs DEF CopyInv
  <2> QED BY <2>3, <2>4 DEF Excused
<1>2. CopyInv /\ [Next]_vars => [Excuses]_vars
  BY <1>1
<1>3. Spec => []CopyInv
  BY CopyAlways
<1>4. Spec => [][Excuses]_vars
  BY <1>2, <1>3, PTL DEF Spec
<1> QED
  BY <1>4 DEF TurnsKeepPredictions
=============================================================================
