--------------------------- MODULE GameSyncProofs ---------------------------
(***************************************************************************)
(* Proofs about one game and the pages that show it, for any users, pages, *)
(* openings and bounds.  First the engine's operators: what they return,   *)
(* and that a copy which applies what it is sent of an effect gets to the  *)
(* state that the effect was committed to.  Then the types, the order of   *)
(* what is said on a wire, that a page's list of users is the server's,    *)
(* and that every page is told the one history.                            *)
(***************************************************************************)
EXTENDS GameSync, Basics

-----------------------------------------------------------------------------
-----------------------------------------------------------------------------
(* Taking out an element *)

LEMMA ShortenedBy ==
  ASSUME NEW S, NEW s \in Seq(S), NEW i \in DOMAIN s
  PROVE  /\ RemoveAt(s, i) \in Seq(S)
         /\ Len(RemoveAt(s, i)) = Len(s) - 1
         /\ Range(RemoveAt(s, i)) \subseteq Range(s)
         /\ \A x \in Range(s) : x # s[i] => x \in Range(RemoveAt(s, i))
         /\ IsInjective(s) => IsInjective(RemoveAt(s, i))
         /\ IsInjective(s) => s[i] \notin Range(RemoveAt(s, i))
<1> DEFINE r == RemoveAt(s, i)
           a == SubSeq(s, 1, i - 1)
           b == SubSeq(s, i + 1, Len(s))
<1>1. Len(s) \in Nat /\ i \in 1..Len(s) /\ DOMAIN s = 1..Len(s)
  OBVIOUS
<1>2. a \in Seq(S) /\ Len(a) = i - 1 /\ \A j \in 1..(i - 1) : a[j] = s[j]
  BY <1>1
<1>3. b \in Seq(S) /\ Len(b) = Len(s) - i /\ \A j \in 1..(Len(s) - i) : b[j] = s[i + j]
  <2>1. b \in Seq(S) /\ Len(b) = (IF i + 1 <= Len(s) THEN Len(s) - (i + 1) + 1 ELSE 0)
    BY <1>1, SubSeqProperties
  <2>2. Len(b) = Len(s) - i
    BY <1>1, <2>1
  <2>3. ASSUME NEW j \in 1..(Len(s) - i) PROVE b[j] = s[i + j]
    BY <1>1, <2>2, SubSeqProperties
  <2> QED BY <2>1, <2>2, <2>3
<1>4. r = a \o b
  BY DEF RemoveAt
<1> HIDE DEF r, a, b
<1>5. /\ r \in Seq(S) /\ Len(r) = Len(s) - 1
      /\ \A j \in 1..(Len(s) - 1) : r[j] = IF j <= i - 1 THEN a[j] ELSE b[j - (i - 1)]
  <2>1. r \in Seq(S) /\ Len(r) = Len(a) + Len(b)
    BY <1>2, <1>3, <1>4, ConcatProperties
  <2>2. \A j \in 1..(Len(a) + Len(b)) : r[j] = IF j <= Len(a) THEN a[j] ELSE b[j - Len(a)]
    BY <1>2, <1>3, <1>4, ConcatProperties
  <2> QED BY <1>1, <1>2, <1>3, <2>1, <2>2
<1> DEFINE from(j) == IF j < i THEN j ELSE j + 1
<1>6. \A j \in 1..(Len(s) - 1) : from(j) \in 1..Len(s) /\ from(j) # i /\ r[j] = s[from(j)]
  <2> SUFFICES ASSUME NEW j \in 1..(Len(s) - 1)
               PROVE  from(j) \in 1..Len(s) /\ from(j) # i /\ r[j] = s[from(j)]
    OBVIOUS
  <2>1. CASE j < i
    BY <1>1, <1>2, <1>5, <2>1
  <2>2. CASE j >= i
    <3>1. j - (i - 1) \in 1..(Len(s) - i)
      BY <1>1, <2>2
    <3>2. r[j] = b[j - (i - 1)] /\ i + (j - (i - 1)) = j + 1
      BY <1>1, <1>5, <2>2
    <3> QED BY <1>1, <1>3, <2>2, <3>1, <3>2
  <2> QED BY <1>1, <2>1, <2>2
<1>7. DOMAIN r = 1..(Len(s) - 1)
  BY <1>5
<1>8. Range(r) \subseteq Range(s)
  BY <1>1, <1>6, <1>7 DEF Range
<1>9. \A x \in Range(s) : x # s[i] => x \in Range(r)
  <2> SUFFICES ASSUME NEW k \in DOMAIN s, s[k] # s[i] PROVE s[k] \in Range(r)
    BY DEF Range
  <2> DEFINE j == IF k < i THEN k ELSE k - 1
  <2>1. j \in 1..(Len(s) - 1) /\ from(j) = k
    BY <1>1
  <2> QED BY <1>6, <1>7, <2>1 DEF Range
<1>10. ASSUME IsInjective(s)
       PROVE  IsInjective(r) /\ s[i] \notin Range(r)
  <2>1. \A j, k \in 1..Len(s) : s[j] = s[k] => j = k
    BY <1>1, <1>10 DEF IsInjective
  <2>2. \A j, k \in 1..(Len(s) - 1) : from(j) = from(k) => j = k
    BY <1>1
  <2> QED BY <1>1, <1>6, <1>7, <2>1, <2>2 DEF IsInjective, Range
<1> QED
  BY <1>5, <1>8, <1>9, <1>10 DEF r

-----------------------------------------------------------------------------
(* The engine *)

Plays == Follows \cup {Lead}

Intents ==
  [kind : {"add_player", "rm_player", "start_game", "draw_card", "undo_play", "collect_trick"},
   p : Users, arg : {NULL}]
    \cup [kind : {"lead_play", "follow_lead"}, p : Users, arg : Plays]

Effects ==
  [kind : {"add_player", "rm_player", "add_to_hand", "observe_undo", "collect_trick"},
   p : Users, arg : {NULL}]
    \cup [kind : {"lead_play", "observe_lead", "follow_lead", "observe_follow"},
          p : Users, arg : Plays]
    \cup [kind : {"init_game"}, p : Users, arg : Seq(Users)]

LEMMA SeatTyped ==
  ASSUME NEW st \in States, NEW p
  PROVE  /\ Seat(st, p) \in Nat \cup {NULL}
         /\ p \in Seated(st) => Seat(st, p) + 1 \in DOMAIN st.players
<1>1. CASE p \in Seated(st)
  <2> DEFINE I == {i \in DOMAIN st.players : st.players[i] = p}
  <2>1. st.players \in Seq(Users) /\ DOMAIN st.players \in SUBSET (Nat \ {0})
    BY DEF States
  <2>2. PICK k \in I : TRUE
    BY <1>1 DEF Seated, Range
  <2>3. I \in SUBSET Nat
    BY <2>1
  <2>4. \E n \in I : \A m \in I : n <= m
    <3> HIDE DEF I
    <3> QED BY <2>2, <2>3, LeastNat
  <2>5. Min(I) \in I
    <3> HIDE DEF I
    <3> QED BY <2>4 DEF Min
  <2>6. Seat(st, p) = Min(I) - 1
    BY <1>1 DEF Seat
  <2>7. Min(I) \in DOMAIN st.players
    BY <2>5
  <2> HIDE DEF I
  <2> QED BY <2>1, <2>6, <2>7
<1>2. CASE p \notin Seated(st)
  BY <1>2 DEF Seat
<1> QED
  BY <1>1, <1>2

LEMMA Next_idxTyped ==
  ASSUME NEW st \in States, NEW i \in Nat \cup {NULL}
  PROVE  Next_idx(st, i) \in Nat
BY TableAssumption DEF Next_idx

LEMMA CommitPlayTyped ==
  ASSUME NEW st \in States, NEW p \in Users, NEW play \in Plays
  PROVE  /\ CommitPlay(st, p, play) \in States
         /\ CommitPlay(st, p, play).players = st.players
<1>1. Next_idx(st, st.cur) \in Nat
  BY Next_idxTyped DEF States
<1>2. (IF st.winning = NULL THEN p
       ELSE IF st.plays[st.winning] >= play THEN st.winning ELSE p) \in Users \cup {NULL}
  BY DEF States
<1> QED
  BY <1>1, <1>2 DEF CommitPlay, States, Plays

LEMMA WinnerBeforeTyped ==
  ASSUME NEW st \in States, NEW p
  PROVE  WinnerBefore(st, p) \in Users \cup {NULL}
<1>1. Seated(st) \subseteq Users /\ st.leader \in Users \cup {NULL}
  BY DEF States, Seated, Range
<1>2. \A T : T \subseteq Seated(st) =>
        (IF T = {} THEN st.leader ELSE CHOOSE q \in T : TRUE) \in Users \cup {NULL}
  BY <1>1
<1> QED
  BY <1>2 DEF WinnerBefore

-----------------------------------------------------------------------------
(* Effects *)

LEMMA CommitTyped ==
  ASSUME NEW st \in States, NEW e \in Effects, e.kind = "rm_player" => e.p \in Seated(st)
  PROVE  Commit(st, e) \in States
<1>1. CASE e.kind = "add_player"
  <2>1. Append(st.players, e.p) \in Seq(Users)
    BY DEF States, Effects
  <2> QED BY <1>1, <2>1 DEF Commit, AddPlayer, States, Effects
<1>2. CASE e.kind = "rm_player"
  <2> DEFINE left == RemoveAt(st.players, Seat(st, e.p) + 1)
  <2>1. left \in Seq(Users)
    BY <1>2, SeatTyped, ShortenedBy DEF States
  <2> HIDE DEF left
  <2>2. (IF e.p # st.owner THEN st.owner ELSE IF left = <<>> THEN NULL ELSE left[1])
           \in Users \cup {NULL}
    BY <2>1 DEF States
  <2>3. Commit(st, e) =
          [st EXCEPT !.players = left,
                     !.owner = IF e.p # st.owner THEN st.owner
                               ELSE IF left = <<>> THEN NULL ELSE left[1]]
    BY <1>2 DEF Commit, RmPlayer, left
  <2> QED BY <2>1, <2>2, <2>3 DEF States
<1>3. CASE e.kind = "init_game"
  <2> DEFINE seated == [st EXCEPT !.players = e.arg]
  <2>1. e.arg \in Seq(Users) /\ seated \in States
    BY <1>3 DEF Effects, States
  <2>2. (IF st.owner \in Seated(seated) THEN Seat(seated, st.owner) ELSE NULL) \in Nat \cup {NULL}
    BY <2>1, SeatTyped
  <2>3. Commit(st, e) = InitGame(st, e.arg)
    BY <1>3 DEF Commit
  <2>4. DeckSize \in Int
    BY TableAssumption
  <2> QED BY <2>1, <2>2, <2>3, <2>4 DEF InitGame, States, Phases
<1>4. CASE e.kind = "add_to_hand"
  <2>1. Next_idx(st, st.cur) \in Nat
    BY Next_idxTyped DEF States
  <2>2. Commit(st, e) = AddToHand(st) /\ st.left \in Int
    BY <1>4 DEF Commit, States
  <2>3. st.left - 1 \in Int /\ (IF st.left = 1 THEN "PREPARE" ELSE st.phase) \in Phases
    BY <2>2 DEF States, Phases
  <2> QED BY <2>1, <2>2, <2>3 DEF AddToHand, States
<1>5. CASE e.kind = "observe_undo"
  <2>1. Seat(st, e.p) \in Nat \cup {NULL} /\ WinnerBefore(st, e.p) \in Users \cup {NULL}
    BY SeatTyped, WinnerBeforeTyped
  <2> QED BY <1>5, <2>1 DEF Commit, ObserveUndo, States, Effects
<1>6. CASE e.kind = "collect_trick"
  <2>1. Seat(st, e.p) \in Nat \cup {NULL} /\ NoPlays \in [Users -> Follows \cup {Lead, NULL}]
    BY SeatTyped DEF NoPlays
  <2>2. Commit(st, e) = CollectTrick(st, e.p) /\ e.p \in Users /\ st.tricks \in Int
    BY <1>6 DEF Commit, States, Effects
  <2>3. st.tricks - 1 \in Int /\ "FINISH" \in Phases /\ "LEAD" \in Phases
    BY <2>2 DEF Phases, States
  <2>4. CASE st.tricks = 1
    <3>1. Commit(st, e) = [st EXCEPT !.phase = "FINISH"]
      BY <2>2, <2>4 DEF CollectTrick
    <3> QED BY <2>3, <3>1 DEF States
  <2>5. CASE st.tricks # 1
    <3>1. Commit(st, e) =
            [st EXCEPT !.phase = "LEAD", !.leader = e.p, !.cur = Seat(st, e.p),
                       !.tricks = st.tricks - 1, !.winning = NULL, !.plays = NoPlays]
      BY <2>2, <2>5 DEF CollectTrick
    <3> QED BY <2>1, <2>2, <2>3, <3>1 DEF States
  <2> QED BY <2>4, <2>5
<1>7. CASE e.kind \in {"lead_play", "observe_lead"}
  <2>1. CommitPlay(st, e.p, e.arg) \in States
    BY <1>7, CommitPlayTyped DEF Effects
  <2>2. Commit(st, e) = ObserveLead(st, e.p, e.arg)
    BY <1>7 DEF Commit
  <2> QED BY <2>1, <2>2 DEF ObserveLead, States, Phases
<1>8. CASE e.kind \in {"follow_lead", "observe_follow"}
  <2>1. CommitPlay(st, e.p, e.arg) \in States
    BY <1>8, CommitPlayTyped DEF Effects
  <2>2. Commit(st, e) = ObserveFollow(st, e.p, e.arg)
    BY <1>8 DEF Commit
  <2> QED BY <2>1, <2>2 DEF ObserveFollow, States
<1> QED
  BY <1>1, <1>2, <1>3, <1>4, <1>5, <1>6, <1>7, <1>8 DEF Effects

\* What an intent that is allowed may come to.
LEMMA EffectsTyped ==
  ASSUME NEW st \in States, NEW m \in Intents, Allowed(st, m), NEW e \in EffectsOf(st, m)
  PROVE  /\ e \in Effects /\ e.p = m.p
         /\ e.kind \in Predictable <=> m.kind \in Predictable
         /\ e.kind \in Predictable => e = m /\ Allowed(st, e)
         /\ e.kind = "rm_player" => e.p \in Seated(st)
         /\ Commit(st, e) \in States
<1>1. CASE m.kind = "start_game"
  <2>1. PICK f \in [DOMAIN st.players -> Seated(st)] : e = Call("init_game", m.p, f)
    BY <1>1 DEF EffectsOf
  <2>2. f \in Seq(Users)
    <3>1. st.players \in Seq(Users) /\ Seated(st) \subseteq Users
      BY DEF States, Seated, Range
    <3>2. f \in [1..Len(st.players) -> Users] /\ Len(st.players) \in Nat
      BY <3>1
    <3> QED BY <3>2
  <2>3. e \in Effects /\ e.p = m.p /\ e.kind = "init_game"
    BY <2>1, <2>2 DEF Call, Effects, Intents
  <2> QED BY <1>1, <2>3, CommitTyped DEF Predictable
<1>2. CASE m.kind \in {"draw_card", "undo_play"}
  <2>1. /\ e \in Effects /\ e.p = m.p /\ e.kind \in {"add_to_hand", "observe_undo"}
    BY <1>2 DEF EffectsOf, Call, Effects, Intents
  <2> QED BY <1>2, <2>1, CommitTyped DEF Predictable
<1>3. CASE m.kind \in Predictable
  <2>1. e = m /\ e \in Effects
    BY <1>3 DEF EffectsOf, Effects, Intents, Predictable
  <2>2. e.kind = "rm_player" => e.p \in Seated(st)
    BY <2>1 DEF Allowed
  <2> QED BY <1>3, <2>1, <2>2, CommitTyped
<1> QED
  BY <1>1, <1>2, <1>3 DEF Intents, Predictable

LEMMA EffectForTyped ==
  ASSUME NEW e \in Effects, NEW u
  PROVE  /\ EffectFor(e, u) \in Effects
         /\ u = e.p => EffectFor(e, u) = e
BY DEF EffectFor, Effects

\* The diagram of src/protocol/engine.ts: a copy that was the server's state
\* follows it to the state that the effect was committed to.
LEMMA Commutes ==
  ASSUME NEW st \in States, NEW m \in Intents, Allowed(st, m), NEW e \in EffectsOf(st, m), NEW u,
         e.kind = "collect_trick" => u \in Seated(st)
  PROVE  Apply(st, EffectFor(e, u), u) = Commit(st, e)
<1>1. e \in Effects /\ (e.kind \in Predictable => Allowed(st, e))
  BY EffectsTyped
<1>2. CASE u = e.p \/ e.kind \notin {"lead_play", "follow_lead"}
  <2>1. EffectFor(e, u) = e
    BY <1>2 DEF EffectFor
  <2> QED BY <1>1, <2>1 DEF Apply
<1>3. CASE u # e.p /\ e.kind = "lead_play"
  <2>1. EffectFor(e, u) = [e EXCEPT !.kind = "observe_lead"]
    BY <1>3 DEF EffectFor
  <2>2. /\ EffectFor(e, u).kind = "observe_lead"
        /\ EffectFor(e, u).p = e.p /\ EffectFor(e, u).arg = e.arg
    BY <1>1, <2>1 DEF Effects
  <2>3. Apply(st, EffectFor(e, u), u) = Commit(st, EffectFor(e, u))
    BY <2>2 DEF Apply, Predictable
  <2> HIDE DEF EffectFor
  <2> QED BY <1>3, <2>2, <2>3 DEF Commit
<1>4. CASE u # e.p /\ e.kind = "follow_lead"
  <2>1. EffectFor(e, u) = [e EXCEPT !.kind = "observe_follow"]
    BY <1>4 DEF EffectFor
  <2>2. /\ EffectFor(e, u).kind = "observe_follow"
        /\ EffectFor(e, u).p = e.p /\ EffectFor(e, u).arg = e.arg
    BY <1>1, <2>1 DEF Effects
  <2>3. Apply(st, EffectFor(e, u), u) = Commit(st, EffectFor(e, u))
    BY <2>2 DEF Apply, Predictable
  <2> QED BY <1>4, <2>2, <2>3 DEF Commit
<1> QED
  BY <1>2, <1>3, <1>4

-----------------------------------------------------------------------------
(* Who plays a trick *)

InPlay(st) == st.phase \in {"LEAD", "FOLLOW"}

\* Nobody sits down or leaves while a trick is being played.
LEMMA InPlayKeepsSeats ==
  ASSUME NEW st \in States, NEW m \in Intents, Allowed(st, m), NEW e \in EffectsOf(st, m),
         InPlay(Commit(st, e))
  PROVE  InPlay(st) /\ Seated(Commit(st, e)) = Seated(st)
<1>1. e \in Effects /\ e.p = m.p
  BY EffectsTyped
<1>2. CASE m.kind = "add_player"
  <2>1. e = m /\ st.phase = "INIT"
    BY <1>2 DEF Allowed, EffectsOf
  <2> QED BY <1>2, <2>1 DEF Commit, AddPlayer, InPlay, States
<1>3. CASE m.kind = "rm_player"
  <2>1. e = m /\ st.phase = "INIT"
    BY <1>3 DEF Allowed, EffectsOf
  <2>2. Commit(st, e).phase = st.phase
    BY <1>3, <2>1 DEF Commit, RmPlayer, States
  <2> QED BY <2>1, <2>2 DEF InPlay
<1>4. CASE m.kind = "start_game"
  <2>1. e.kind = "init_game"
    BY <1>4 DEF EffectsOf, Call
  <2>2. Commit(st, e).phase = "DRAW"
    BY <2>1 DEF Commit, InitGame, States
  <2> QED BY <2>2 DEF InPlay
<1>5. CASE m.kind = "draw_card"
  <2>1. e.kind = "add_to_hand" /\ st.phase = "DRAW"
    BY <1>5 DEF EffectsOf, Call, Allowed
  <2>2. Commit(st, e).phase \in {"DRAW", "PREPARE"}
    BY <2>1 DEF Commit, AddToHand, States
  <2> QED BY <2>2 DEF InPlay
<1>6. CASE m.kind = "undo_play"
  <2>1. e.kind = "observe_undo" /\ st.phase = "FOLLOW"
    BY <1>6 DEF EffectsOf, Call, Allowed, CheckUndo
  <2>2. Commit(st, e).players = st.players
    BY <2>1 DEF Commit, ObserveUndo, States
  <2> QED BY <2>1, <2>2 DEF InPlay, Seated
<1>7. CASE m.kind = "collect_trick"
  <2>1. e = m /\ st.phase = "FOLLOW"
    BY <1>7 DEF EffectsOf, Allowed
  <2>2. Commit(st, e).players = st.players
    BY <1>7, <2>1 DEF Commit, CollectTrick, States
  <2> QED BY <2>1, <2>2 DEF InPlay, Seated
<1>8. CASE m.kind = "lead_play"
  <2>1. e = m /\ st.phase = "LEAD" /\ e.arg \in Plays
    BY <1>8 DEF EffectsOf, Allowed, Intents
  <2>2. CommitPlay(st, e.p, e.arg) \in States /\ CommitPlay(st, e.p, e.arg).players = st.players
    BY <2>1, CommitPlayTyped DEF Intents
  <2>3. Commit(st, e).players = st.players
    BY <1>8, <2>1, <2>2 DEF Commit, ObserveLead, States
  <2> QED BY <2>1, <2>3 DEF InPlay, Seated
<1>9. CASE m.kind = "follow_lead"
  <2>1. e = m /\ st.phase = "FOLLOW" /\ e.arg \in Plays
    BY <1>9 DEF EffectsOf, Allowed, Intents
  <2>2. CommitPlay(st, e.p, e.arg) \in States /\ CommitPlay(st, e.p, e.arg).players = st.players
    BY <2>1, CommitPlayTyped DEF Intents
  <2>3. Commit(st, e).players = st.players
    BY <1>9, <2>1, <2>2 DEF Commit, ObserveFollow, States
  <2> QED BY <2>1, <2>3 DEF InPlay, Seated
<1> QED
  BY <1>2, <1>3, <1>4, <1>5, <1>6, <1>7, <1>8, <1>9 DEF Intents

-----------------------------------------------------------------------------
(* Types *)

Whos      == [id : Users, nick : Nat]
UserLists == Seq(Whos)
Verbs     == {"user:join", "user:rejoin", "user:nick", "user:part"}
Commands  == [kind : {"engine"}, effect : Effects]
               \cup [kind : {"protocol"}, verb : Verbs, who : Whos]

Hellos  == [verb : {"hello"}, you : Whos]
Resets  == [verb : {"reset"}, state : States, who : UserLists, at : Nat]
Updates == [verb : {"update"}, tx : Nat \cup {NULL}, cmd : Commands, at : Nat]
Rejects == [verb : {"reject"}, tx : Nat]
Byes    == [verb : {"bye"}]
Down    == Hellos \cup Resets \cup Updates \cup Rejects \cup Byes

Greetings == [verb : {"req:hello"}, nick : Nat]
Calls     == [verb : {"req:reset"}]
Requests  == [verb : {"req:update"}, tx : Nat, intent : Intents]
Up        == Greetings \cup Calls \cup Requests

Pendings == [tx : Nat, predicted : BOOLEAN, conn : Nat]

Servers ==
  [st : States, users : UserLists, clients : Seq(Conns), greeted : SUBSET Conns,
   synced : SUBSET Conns, zombie : BOOLEAN, down : [Conns -> Seq(Down)], lost : SUBSET Conns,
   committed : Nat]

GameClients ==
  [status : {"pending-reset", "sync", "disconnect"}, sock : Nat, conns : Nat,
   state : States \cup {NULL}, users : UserLists, me : Users \cup {NULL}, nick : Nat,
   next_tx : Nat, pending : SUBSET Pendings]

Typed ==
  /\ server \in Servers /\ up \in [Conns -> Seq(Up)] /\ page \in [Pages -> GameClients]
  /\ events \in 0..MaxEvents /\ seen \in [Pages -> Nat \cup {NULL}] /\ overtaken \in SUBSET Pages

-----------------------------------------------------------------------------
(* The invariant.  It speaks of a server s and of what x has on its way to *)
(* it, so that it can be followed through the steps of one handler.        *)

\* Every page opens one connection after the other, and no more than may break;
\* it has its copy while it is synced, and numbers its requests.
Numbered(b) ==
  /\ page[b].sock \in {0, page[b].conns} /\ page[b].conns <= events + 1
  /\ page[b].sock = 0 /\ page[b].status = "pending-reset" => page[b].conns <= events
  /\ page[b].status = "sync" => Connected(b)
  /\ page[b].status = "disconnect" => ~Connected(b)
  /\ page[b].state # NULL <=> page[b].status = "sync"
  /\ seen[b] # NULL <=> page[b].status = "sync"
  /\ page[b].me \in {NULL, UserOf[b]}
  /\ \A p \in page[b].pending : p.tx < page[b].next_tx
  /\ \A p, q \in page[b].pending : p.tx = q.tx => p = q

\* The Client objects.
Listed(s) ==
  /\ IsInjective(s.clients)
  /\ s.synced \subseteq s.greeted /\ s.greeted \subseteq Range(s.clients)

\* Only who was greeted asks for a reset.
Asked(s, x) ==
  \A c \in Range(s.clients) : \A i \in 1..Len(x[c]) :
    x[c][i].verb = "req:reset" => c \in s.greeted

\* Connections to come have no trace, and the present one is not given up.
Fresh(s, x, b) ==
  /\ \A k \in 1..(MaxEvents + 1) : k > page[b].conns =>
       /\ <<b, k>> \notin Range(s.clients) /\ <<b, k>> \notin s.lost
       /\ x[<<b, k>>] = <<>> /\ s.down[<<b, k>>] = <<>>
  /\ Connected(b) => Sock(b) \notin s.lost

\* How far a connection has come with the server.
Stage(s, c) ==
  IF c \in s.synced THEN "synced"
  ELSE IF c \in s.greeted THEN "greeted"
  ELSE IF c \in Range(s.clients) THEN "come" ELSE "gone"

\* Who says what when: how is the page's status, o its user, d and u are the two
\* wires.  A page that awaits its reset gets hello, then the reset, then updates
\* and rejects; bye is the last word on any wire.
Handshake(how, o, d, u, stage) ==
  /\ \A i \in 1..Len(d) : d[i].verb = "bye" => i = Len(d)
  /\ stage = "gone" <=> (d # <<>> /\ d[Len(d)].verb = "bye")
  /\ how = "pending-reset" =>
       /\ d # <<>> => d[1].verb \in {"hello", "reset", "bye"}
       /\ d # <<>> /\ d[1].verb = "hello" =>
            d[1].you.id = o /\ \A i \in 2..Len(d) : d[i].verb = "bye"
       /\ d # <<>> /\ d[1].verb = "reset" =>
            u = <<>> /\ \A i \in 2..Len(d) : d[i].verb \in {"update", "reject", "bye"}
       /\ stage = "come" => d = <<>> /\ Len(u) = 1 /\ u[1].verb = "req:hello"
       /\ stage = "greeted" =>
            \/ Len(d) = 1 /\ d[1].verb = "hello" /\ u = <<>>
            \/ d = <<>> /\ Len(u) = 1 /\ u[1].verb = "req:reset"
       /\ stage = "synced" => d # <<>> /\ d[1].verb = "reset"
  /\ how = "sync" =>
       /\ stage \in {"gone", "synced"}
       /\ \A i \in 1..Len(d) : d[i].verb \in {"update", "reject", "bye"}
       /\ \A i \in 1..Len(u) : u[i].verb = "req:update"

\* Every request on its way, and every update that answers one, is of a request
\* that is pending, with its prediction; no two have the same number.
Asks(m) == m.verb = "req:update"
Replies(m) == m.verb \in {"update", "reject"} /\ m.tx # NULL

Answers(pending, next_tx, o, d, u) ==
  /\ \A p \in pending : p.tx < next_tx
  /\ \A p, q \in pending : p.tx = q.tx => p = q
  /\ \A i \in 1..Len(u) : Asks(u[i]) =>
       /\ u[i].intent.p = o /\ u[i].tx < next_tx
       /\ \E p \in pending : p.tx = u[i].tx /\ (p.predicted <=> u[i].intent.kind \in Predictable)
  /\ \A i \in 1..Len(d) : Replies(d[i]) => d[i].tx < next_tx
  /\ \A i \in 1..Len(d) : Replies(d[i]) /\ d[i].verb = "update" =>
       /\ d[i].cmd.kind = "engine"
       /\ \E p \in pending :
            p.tx = d[i].tx /\ (p.predicted <=> d[i].cmd.effect.kind \in Predictable)
  /\ \A i, j \in 1..Len(u) : Asks(u[i]) /\ Asks(u[j]) /\ u[i].tx = u[j].tx => i = j
  /\ \A i, j \in 1..Len(d) : Replies(d[i]) /\ Replies(d[j]) /\ d[i].tx = d[j].tx => i = j
  /\ \A i \in 1..Len(d) : \A j \in 1..Len(u) : Replies(d[i]) /\ Asks(u[j]) => d[i].tx # u[j].tx

\* A page that takes what is on its way to it gets to the server's count and list
\* of users, as long as it is synced.
Views == [at : Nat, users : UserLists]
View(at, users) == [at |-> at, users |-> users]

Tells(v, m, w) ==
  IF m.verb = "update"
  THEN /\ m.at = v.at + 1 /\ w.at = m.at
       /\ w.users = IF m.cmd.kind = "protocol" THEN UsersAfter(v.users, m.cmd) ELSE v.users
  ELSE w = v

Told == {t \in Views \X Down \X Views : Tells(t[1], t[2], t[3])}

Gets(from, d, stage, last) ==
  \E to \in Views : /\ Leads(Told, d, from, to)
                    /\ to.at <= last.at
                    /\ stage = "synced" => to = last

Informed(how, from, d, stage, last) ==
  /\ how = "sync" => Gets(from, d, stage, last)
  /\ how = "pending-reset" /\ d # <<>> /\ d[1].verb = "reset" =>
       Gets(View(d[1].at, d[1].who), Tail(d), stage, last)

Talk(s, x, b) ==
  LET d     == s.down[Sock(b)]
      u     == x[Sock(b)]
      stage == Stage(s, Sock(b))
      pg    == page[b]
  IN  /\ Handshake(pg.status, UserOf[b], d, u, stage)
      /\ Answers(pg.pending, pg.next_tx, UserOf[b], d, u)
      /\ Informed(pg.status, View(seen[b], pg.users), d, stage, View(s.committed, s.users))

Good(s, x) ==
  /\ Listed(s) /\ Asked(s, x)
  /\ \A b \in Pages : Fresh(s, x, b) /\ (Connected(b) => Talk(s, x, b))

Inv ==
  /\ Typed
  /\ \A b \in Pages : Numbered(b)
  /\ Good(server, up)

-----------------------------------------------------------------------------
(* Messages *)

LEMMA DownIs ==
  ASSUME NEW m \in Down
  PROVE  /\ m.verb \in {"hello", "reset", "update", "reject", "bye"}
         /\ m.verb = "hello" => m \in Hellos /\ m.you \in Whos
         /\ m.verb = "reset" =>
              m \in Resets /\ m.state \in States /\ m.who \in UserLists /\ m.at \in Nat
         /\ m.verb = "update" =>
              m \in Updates /\ m.tx \in Nat \cup {NULL} /\ m.cmd \in Commands /\ m.at \in Nat
         /\ m.verb = "reject" => m \in Rejects /\ m.tx \in Nat
BY DEF Down, Hellos, Resets, Updates, Rejects, Byes

LEMMA UpIs ==
  ASSUME NEW m \in Up
  PROVE  /\ m.verb \in {"req:hello", "req:reset", "req:update"}
         /\ m.verb = "req:hello" => m.nick \in Nat
         /\ m.verb = "req:update" => m.tx \in Nat /\ m.intent \in Intents
BY DEF Up, Greetings, Calls, Requests

-----------------------------------------------------------------------------
(* The handshake, one message at a time *)

\* Another update or reject, perhaps in answer to a request.
LEMMA HandshakeReplies ==
  ASSUME NEW how, NEW o, NEW d \in Seq(Down), NEW u \in Seq(Up), NEW v \in Seq(Up),
         NEW m \in Down, m.verb \in {"update", "reject"},
         Handshake(how, o, d, u, "synced"), v = u \/ (u # <<>> /\ v = Tail(u))
  PROVE  Handshake(how, o, Append(d, m), v, "synced")
<1> DEFINE e == Append(d, m)
<1>1. /\ e \in Seq(Down) /\ e # <<>> /\ Len(d) \in Nat /\ Len(e) = Len(d) + 1
      /\ \A i \in 1..Len(d) : e[i] = d[i]
      /\ e[Len(d) + 1] = m
  BY AppendIs
<1>2. d # <<>> <=> Len(d) > 0
  BY <1>1, EmptyIs
<1> HIDE DEF e
<1>3. \A i \in 1..Len(e) : e[i].verb # "bye"
  BY <1>1, <1>2 DEF Handshake
<1>4. CASE how = "pending-reset"
  <2>1. d # <<>> /\ d[1].verb = "reset" /\ e[1] = d[1] /\ u = <<>> /\ v = <<>>
    BY <1>1, <1>2, <1>4 DEF Handshake
  <2>2. \A i \in 2..Len(e) : e[i].verb \in {"update", "reject", "bye"}
    BY <1>1, <1>4, <2>1 DEF Handshake
  <2> QED BY <1>1, <1>3, <1>4, <2>1, <2>2 DEF Handshake
<1>5. CASE how = "sync"
  <2>1. \A i \in 1..Len(e) : e[i].verb \in {"update", "reject", "bye"}
    BY <1>1, <1>5 DEF Handshake
  <2>2. \A i \in 1..Len(v) : v[i].verb = "req:update"
    <3>1. \A i \in 1..Len(u) : u[i].verb = "req:update"
      BY <1>5 DEF Handshake
    <3>2. u # <<>> => \A i \in 1..Len(Tail(u)) : Tail(u)[i] = u[i + 1] /\ i + 1 \in 1..Len(u)
      BY TailIs
    <3> QED BY <3>1, <3>2
  <2> QED BY <1>1, <1>3, <1>5, <2>1, <2>2 DEF Handshake
<1>6. CASE how \notin {"pending-reset", "sync"}
  BY <1>1, <1>3, <1>6 DEF Handshake
<1> QED
  BY <1>4, <1>5, <1>6 DEF e

LEMMA HandshakeHello ==
  ASSUME NEW how \in {"pending-reset", "sync"}, NEW o, NEW d \in Seq(Down), NEW u \in Seq(Up), NEW stage,
         NEW m \in Down, m.verb = "hello", m.you.id = o,
         u # <<>>, Head(u).verb = "req:hello", stage # "gone", Handshake(how, o, d, u, stage),
         stage \in {"come", "greeted", "synced"}
  PROVE  /\ stage = "come" /\ how = "pending-reset"
         /\ Handshake(how, o, Append(d, m), Tail(u), "greeted")
<1>1. stage = "come" /\ how = "pending-reset" /\ d = <<>> /\ Len(u) = 1
  BY TailIs, EmptyIs DEF Handshake
<1>2. Append(d, m) = <<m>>
  BY <1>1
<1>3. Tail(u) = <<>>
  <2>1. Tail(u) # <<>> <=> Len(u) > 1
    BY TailIs
  <2> QED BY <1>1, <2>1
<1> QED
  BY <1>1, <1>2, <1>3 DEF Handshake

LEMMA HandshakeReset ==
  ASSUME NEW how \in {"pending-reset", "sync"}, NEW o, NEW d \in Seq(Down), NEW u \in Seq(Up), NEW stage,
         NEW m \in Down, m.verb = "reset",
         u # <<>>, Head(u).verb = "req:reset", Handshake(how, o, d, u, stage),
         stage \in {"come", "greeted", "synced"}
  PROVE  /\ stage = "greeted" /\ how = "pending-reset" /\ d = <<>>
         /\ Handshake(how, o, Append(d, m), Tail(u), "synced")
<1>1. stage = "greeted" /\ how = "pending-reset" /\ d = <<>> /\ Len(u) = 1
  BY TailIs, EmptyIs DEF Handshake
<1>2. Append(d, m) = <<m>>
  BY <1>1
<1>3. Tail(u) = <<>>
  <2>1. Tail(u) # <<>> <=> Len(u) > 1
    BY TailIs
  <2> QED BY <1>1, <2>1
<1> QED
  BY <1>1, <1>2, <1>3 DEF Handshake

\* The last word.
LEMMA HandshakeBye ==
  ASSUME NEW how, NEW o, NEW d \in Seq(Down), NEW u \in Seq(Up),
         NEW stage \in {"come", "greeted", "synced"},
         NEW m \in Down, m.verb = "bye", Handshake(how, o, d, u, stage)
  PROVE  Handshake(how, o, Append(d, m), u, "gone")
<1> DEFINE e == Append(d, m)
<1>1. /\ e \in Seq(Down) /\ e # <<>> /\ Len(d) \in Nat /\ Len(e) = Len(d) + 1
      /\ \A i \in 1..Len(d) : e[i] = d[i]
      /\ e[Len(d) + 1] = m
  BY AppendIs
<1>2. d # <<>> <=> Len(d) > 0
  BY <1>1, EmptyIs
<1> HIDE DEF e
<1>3. (\A i \in 1..Len(e) : e[i].verb = "bye" => i = Len(e)) /\ e[Len(e)].verb = "bye"
  BY <1>1, <1>2 DEF Handshake
<1>4. CASE how = "pending-reset"
  <2>1. e[1].verb \in {"hello", "reset", "bye"}
    BY <1>1, <1>2, <1>4 DEF Handshake
  <2>2. e[1].verb = "hello" => e[1].you.id = o /\ \A i \in 2..Len(e) : e[i].verb = "bye"
    BY <1>1, <1>2, <1>4 DEF Handshake
  <2>3. e[1].verb = "reset" =>
          u = <<>> /\ \A i \in 2..Len(e) : e[i].verb \in {"update", "reject", "bye"}
    BY <1>1, <1>2, <1>4 DEF Handshake
  <2> QED BY <1>1, <1>3, <1>4, <2>1, <2>2, <2>3 DEF Handshake
<1>5. CASE how = "sync"
  <2>1. \A i \in 1..Len(e) : e[i].verb \in {"update", "reject", "bye"}
    BY <1>1, <1>5 DEF Handshake
  <2> QED BY <1>1, <1>3, <1>5, <2>1 DEF Handshake
<1>6. CASE how \notin {"pending-reset", "sync"}
  BY <1>1, <1>3, <1>6 DEF Handshake
<1> QED
  BY <1>4, <1>5, <1>6 DEF e

\* The page takes an update or a reject.
LEMMA HandshakeTake ==
  ASSUME NEW how, NEW o, NEW d \in Seq(Down), NEW u \in Seq(Up), NEW stage,
         d # <<>>, Head(d).verb \in {"update", "reject"}, how \in {"pending-reset", "sync"},
         Handshake(how, o, d, u, stage)
  PROVE  how = "sync" /\ Handshake(how, o, Tail(d), u, stage)
<1> DEFINE e == Tail(d)
<1>1. /\ e \in Seq(Down) /\ Head(d) = d[1] /\ Len(d) \in Nat \ {0} /\ Len(e) = Len(d) - 1
      /\ \A i \in 1..Len(e) : e[i] = d[i + 1] /\ i + 1 \in 1..Len(d)
  BY TailIs
<1>2. e # <<>> <=> Len(e) > 0
  BY <1>1, TailIs
<1> HIDE DEF e
<1>3. how = "sync"
  BY <1>1 DEF Handshake
<1>4. \A i \in 1..Len(e) : e[i].verb = "bye" => i = Len(e)
  BY <1>1 DEF Handshake
<1>5. stage = "gone" <=> (e # <<>> /\ e[Len(e)].verb = "bye")
  <2>1. CASE Len(e) > 0
    <3>1. e[Len(e)] = d[Len(d)]
      BY <1>1, <2>1
    <3> QED BY <1>2, <2>1, <3>1 DEF Handshake
  <2>2. CASE Len(e) = 0
    <3>1. Len(d) = 1
      BY <1>1, <2>2
    <3> QED BY <1>1, <1>2, <2>2, <3>1 DEF Handshake
  <2> QED BY <1>1, <2>1, <2>2
<1>6. \A i \in 1..Len(e) : e[i].verb \in {"update", "reject", "bye"}
  BY <1>1, <1>3 DEF Handshake
<1> QED
  BY <1>3, <1>4, <1>5, <1>6 DEF Handshake, e

\* The page takes hello and asks for a reset.
LEMMA GreetedIs ==
  ASSUME NEW how \in {"pending-reset", "sync"}, NEW o, NEW d \in Seq(Down), NEW u \in Seq(Up),
         NEW stage \in {"gone", "come", "greeted", "synced"},
         d # <<>>, Head(d).verb = "hello", Handshake(how, o, d, u, stage)
  PROVE  how = "pending-reset" /\ Head(d).you.id = o /\ stage \in {"gone", "greeted"}
<1>1. Head(d) = d[1] /\ Len(d) \in Nat \ {0} /\ 1 \in 1..Len(d)
  BY TailIs
<1> QED
  BY <1>1 DEF Handshake

LEMMA HandshakeGreeted ==
  ASSUME NEW o, NEW d \in Seq(Down), NEW u \in Seq(Up), NEW m \in Up, m.verb = "req:reset",
         NEW stage \in {"gone", "greeted"},
         d # <<>>, Head(d).verb = "hello", Handshake("pending-reset", o, d, u, stage)
  PROVE  /\ Handshake("pending-reset", o, Tail(d), Append(u, m), stage)
         /\ Tail(d) # <<>> => Tail(d)[1].verb = "bye"
<1> DEFINE e == Tail(d)
<1>1. /\ e \in Seq(Down) /\ Head(d) = d[1] /\ Len(d) \in Nat \ {0} /\ Len(e) = Len(d) - 1
      /\ \A i \in 1..Len(e) : e[i] = d[i + 1] /\ i + 1 \in 1..Len(d)
  BY TailIs
<1>2. e # <<>> <=> Len(e) > 0
  BY <1>1, TailIs
<1>3. Append(<<>>, m) = <<m>>
  OBVIOUS
<1> HIDE DEF e
<1>4. \A i \in 1..Len(e) : e[i].verb = "bye" /\ i = Len(e)
  BY <1>1 DEF Handshake
<1>5. CASE stage = "gone"
  <2>1. Len(d) # 1
    BY <1>1, <1>5 DEF Handshake
  <2>2. e # <<>> /\ Len(e) \in 1..Len(e)
    BY <1>1, <1>2, <2>1
  <2>3. 1 \in 1..Len(e) /\ e[1].verb = "bye" /\ e[Len(e)].verb = "bye"
    BY <1>1, <1>4, <2>2
  <2> QED BY <1>4, <1>5, <2>2, <2>3 DEF Handshake, e
<1>6. CASE stage = "greeted"
  <2>1. u = <<>> /\ Len(d) = 1
    BY <1>1, <1>6, EmptyIs DEF Handshake
  <2>2. e = <<>> /\ Len(e) = 0
    BY <1>1, <1>2, <2>1
  <2> QED BY <1>1, <1>3, <1>6, <2>1, <2>2 DEF Handshake, e
<1> QED
  BY <1>5, <1>6 DEF e

\* The page takes its reset, and perhaps asks for a seat.
LEMMA ResumedIs ==
  ASSUME NEW how \in {"pending-reset", "sync"}, NEW o, NEW d \in Seq(Down), NEW u \in Seq(Up), NEW stage,
         d # <<>>, Head(d).verb = "reset", Handshake(how, o, d, u, stage)
  PROVE  how = "pending-reset" /\ u = <<>>
<1>1. Head(d) = d[1] /\ Len(d) \in Nat \ {0} /\ 1 \in 1..Len(d)
  BY TailIs
<1> QED
  BY <1>1 DEF Handshake

AsksMore(u, v) == v = u \/ \E m \in Up : m.verb = "req:update" /\ v = Append(u, m)

LEMMA HandshakeSynced ==
  ASSUME NEW o, NEW d \in Seq(Down), NEW u \in Seq(Up), u = <<>>,
         NEW stage \in {"gone", "come", "greeted", "synced"}, NEW v \in Seq(Up),
         AsksMore(u, v), d # <<>>, Head(d).verb = "reset", Handshake("pending-reset", o, d, u, stage)
  PROVE  Handshake("sync", o, Tail(d), v, stage)
<1> DEFINE e == Tail(d)
<1>1. /\ e \in Seq(Down) /\ Head(d) = d[1] /\ Len(d) \in Nat \ {0} /\ Len(e) = Len(d) - 1
      /\ \A i \in 1..Len(e) : e[i] = d[i + 1] /\ i + 1 \in 1..Len(d)
  BY TailIs
<1>2. e # <<>> <=> Len(e) > 0
  BY <1>1, TailIs
<1> HIDE DEF e
<1>3. stage \in {"gone", "synced"}
  BY <1>1, EmptyIs DEF Handshake
<1>4. \A i \in 1..Len(e) :
        e[i].verb \in {"update", "reject", "bye"} /\ (e[i].verb = "bye" => i = Len(e))
  <2> SUFFICES ASSUME NEW i \in 1..Len(e)
               PROVE  /\ e[i].verb \in {"update", "reject", "bye"}
                      /\ e[i].verb = "bye" => i = Len(e)
    OBVIOUS
  <2>1. e[i] = d[i + 1] /\ i + 1 \in 1..Len(d) /\ i + 1 \in 2..Len(d)
    BY <1>1
  <2>2. d[1].verb = "reset"
    BY <1>1
  <2> QED BY <1>1, <1>3, <2>1, <2>2 DEF Handshake
<1>5. stage = "gone" <=> (e # <<>> /\ e[Len(e)].verb = "bye")
  <2>1. CASE Len(e) > 0
    <3>1. e[Len(e)] = d[Len(d)]
      BY <1>1, <2>1
    <3> QED BY <1>2, <2>1, <3>1 DEF Handshake
  <2>2. CASE Len(e) = 0
    <3>1. Len(d) = 1
      BY <1>1, <2>2
    <3> QED BY <1>1, <1>2, <2>2, <3>1 DEF Handshake
  <2> QED BY <1>1, <2>1, <2>2
<1>6. \A i \in 1..Len(v) : v[i].verb = "req:update"
  <2>1. CASE v = u
    BY <2>1
  <2>2. ASSUME NEW m \in Up, m.verb = "req:update", v = Append(u, m)
        PROVE  \A i \in 1..Len(v) : v[i].verb = "req:update"
    BY <2>2
  <2> QED BY <2>1, <2>2 DEF AsksMore
<1> QED
  BY <1>3, <1>4, <1>5, <1>6 DEF Handshake, e

\* The page asks for something.
LEMMA HandshakeAsks ==
  ASSUME NEW o, NEW d \in Seq(Down), NEW u \in Seq(Up), NEW stage,
         NEW m \in Up, m.verb = "req:update", Handshake("sync", o, d, u, stage)
  PROVE  Handshake("sync", o, d, Append(u, m), stage)
<1>1. \A i \in 1..Len(Append(u, m)) : Append(u, m)[i].verb = "req:update"
  BY AppendIs DEF Handshake
<1> QED
  BY <1>1 DEF Handshake

-----------------------------------------------------------------------------
(* Requests and their answers, one message at a time *)

\* Another message to the page that answers nothing.
LEMMA AnswersTold ==
  ASSUME NEW pending, NEW next_tx, NEW o, NEW d \in Seq(Down), NEW u \in Seq(Up),
         NEW m \in Down, ~Replies(m), Answers(pending, next_tx, o, d, u)
  PROVE  Answers(pending, next_tx, o, Append(d, m), u)
<1> DEFINE e == Append(d, m)
<1>1. /\ Len(d) \in Nat /\ Len(e) = Len(d) + 1
      /\ \A i \in 1..Len(d) : e[i] = d[i]
      /\ e[Len(d) + 1] = m
  BY AppendIs
<1> HIDE DEF e
<1>2. \A i \in 1..Len(e) : Replies(e[i]) => i \in 1..Len(d) /\ e[i] = d[i]
  BY <1>1
<1> QED
  BY <1>2 DEF Answers, e

\* The server takes a message off the wire.
LEMMA AnswersHeard ==
  ASSUME NEW pending, NEW next_tx, NEW o, NEW d, NEW u \in Seq(Up), u # <<>>,
         Answers(pending, next_tx, o, d, u)
  PROVE  Answers(pending, next_tx, o, d, Tail(u))
<1> DEFINE v == Tail(u)
<1>1. /\ Len(u) \in Nat /\ Len(v) \in Nat /\ \A i \in 1..Len(v) : v[i] = u[i + 1] /\ i + 1 \in 1..Len(u)
  BY TailIs
<1> HIDE DEF v
<1>2. \A i, j \in 1..Len(v) : i + 1 = j + 1 => i = j
  BY <1>1
<1> QED
  BY <1>1, <1>2 DEF Answers, v

LEMMA AnswersCleared ==
  ASSUME NEW pending, NEW next_tx, NEW o, NEW d, NEW u, Answers(pending, next_tx, o, d, u)
  PROVE  Answers(pending, next_tx, o, d, <<>>)
BY DEF Answers

\* The server answers the request that is next.
LEMMA AnswersOwn ==
  ASSUME NEW pending, NEW next_tx, NEW o, NEW d \in Seq(Down), NEW u \in Seq(Up), u # <<>>,
         Asks(Head(u)), NEW m \in Down, m.verb \in {"update", "reject"}, m.tx = Head(u).tx,
         m.verb = "update" =>
           /\ m.cmd.kind = "engine"
           /\ m.cmd.effect.kind \in Predictable <=> Head(u).intent.kind \in Predictable,
         Answers(pending, next_tx, o, d, u)
  PROVE  Answers(pending, next_tx, o, Append(d, m), Tail(u))
<1> DEFINE e == Append(d, m)
           v == Tail(u)
<1>1. /\ Len(d) \in Nat /\ Len(e) = Len(d) + 1
      /\ \A i \in 1..Len(d) : e[i] = d[i]
      /\ e[Len(d) + 1] = m
  BY AppendIs
<1>2. /\ Len(u) \in Nat \ {0} /\ Len(v) \in Nat /\ Head(u) = u[1]
      /\ \A i \in 1..Len(v) : v[i] = u[i + 1] /\ i + 1 \in 1..Len(u)
  BY TailIs
<1> HIDE DEF e, v
<1>3. \A i \in 1..Len(e) : (i \in 1..Len(d) /\ e[i] = d[i]) \/ (i = Len(d) + 1 /\ e[i] = m)
  BY <1>1
<1>4. 1 \in 1..Len(u) /\ Asks(u[1]) /\ m.tx = u[1].tx
  BY <1>2
<1>5. \A i \in 1..Len(v) : Asks(v[i]) => v[i].tx # m.tx
  <2> SUFFICES ASSUME NEW i \in 1..Len(v), Asks(v[i]), v[i].tx = m.tx PROVE FALSE
    OBVIOUS
  <2>1. i + 1 \in 1..Len(u) /\ Asks(u[i + 1]) /\ u[i + 1].tx = u[1].tx /\ i + 1 # 1
    BY <1>2, <1>4
  <2> QED BY <1>4, <2>1 DEF Answers
<1>6. \A i \in 1..Len(d) : Replies(d[i]) => d[i].tx # m.tx
  BY <1>4 DEF Answers
<1>7. Answers(pending, next_tx, o, d, v)
  BY AnswersHeard DEF v
<1>8. \A i \in 1..Len(e) : Replies(e[i]) => e[i].tx < next_tx
  BY <1>3, <1>4 DEF Answers
<1>9. \A i \in 1..Len(e) : Replies(e[i]) /\ e[i].verb = "update" =>
        /\ e[i].cmd.kind = "engine"
        /\ \E p \in pending :
             p.tx = e[i].tx /\ (p.predicted <=> e[i].cmd.effect.kind \in Predictable)
  <2> SUFFICES ASSUME NEW i \in 1..Len(e), Replies(e[i]), e[i].verb = "update"
               PROVE  /\ e[i].cmd.kind = "engine"
                      /\ \E p \in pending :
                           p.tx = e[i].tx /\ (p.predicted <=> e[i].cmd.effect.kind \in Predictable)
    OBVIOUS
  <2>1. CASE i \in 1..Len(d) /\ e[i] = d[i]
    BY <2>1 DEF Answers
  <2>2. CASE e[i] = m
    <3>1. PICK p \in pending : p.tx = u[1].tx /\ (p.predicted <=> u[1].intent.kind \in Predictable)
      BY <1>4 DEF Answers
    <3> QED BY <1>2, <1>4, <2>2, <3>1
  <2> QED BY <1>3, <2>1, <2>2
<1>10. \A i, j \in 1..Len(e) : Replies(e[i]) /\ Replies(e[j]) /\ e[i].tx = e[j].tx => i = j
  <2> SUFFICES ASSUME NEW i \in 1..Len(e), NEW j \in 1..Len(e),
                      Replies(e[i]), Replies(e[j]), e[i].tx = e[j].tx
               PROVE  i = j
    OBVIOUS
  <2>1. CASE i \in 1..Len(d) /\ e[i] = d[i] /\ j \in 1..Len(d) /\ e[j] = d[j]
    BY <2>1 DEF Answers
  <2> QED BY <1>3, <1>6, <2>1
<1>11. \A i \in 1..Len(e) : \A j \in 1..Len(v) : Replies(e[i]) /\ Asks(v[j]) => e[i].tx # v[j].tx
  BY <1>3, <1>5, <1>7 DEF Answers
<1> QED
  BY <1>7, <1>8, <1>9, <1>10, <1>11 DEF Answers, e, v

\* The page takes a message, and settles the request that it answers.
LEMMA AnswersTake ==
  ASSUME NEW pending \in SUBSET Pendings, NEW next_tx, NEW o,
         NEW d \in Seq(Down), NEW u \in Seq(Up), d # <<>>, NEW rest,
         \/ rest = pending
         \/ Head(d).verb \in {"update", "reject"} /\ rest = {p \in pending : p.tx # Head(d).tx},
         Answers(pending, next_tx, o, d, u)
  PROVE  Answers(rest, next_tx, o, Tail(d), u)
<1> DEFINE e == Tail(d)
<1>1. /\ Len(d) \in Nat \ {0} /\ Len(e) \in Nat /\ Head(d) = d[1]
      /\ \A i \in 1..Len(e) : e[i] = d[i + 1] /\ i + 1 \in 1..Len(d)
  BY TailIs
<1> HIDE DEF e
<1>2. 1 \in 1..Len(d) /\ \A i, j \in 1..Len(e) : (i + 1 = j + 1 => i = j) /\ i + 1 # 1
  BY <1>1
<1>3. Answers(pending, next_tx, o, e, u)
  <2>1. \A i \in 1..Len(e) : Replies(e[i]) =>
          /\ e[i].tx < next_tx
          /\ e[i].verb = "update" =>
               /\ e[i].cmd.kind = "engine"
               /\ \E p \in pending :
                    p.tx = e[i].tx /\ (p.predicted <=> e[i].cmd.effect.kind \in Predictable)
    BY <1>1 DEF Answers
  <2>2. \A i, j \in 1..Len(e) : Replies(e[i]) /\ Replies(e[j]) /\ e[i].tx = e[j].tx => i = j
    <3> SUFFICES ASSUME NEW i \in 1..Len(e), NEW j \in 1..Len(e),
                        Replies(e[i]), Replies(e[j]), e[i].tx = e[j].tx
                 PROVE  i = j
      OBVIOUS
    <3>1. i + 1 = j + 1
      BY <1>1 DEF Answers
    <3> QED BY <1>2, <3>1
  <2>3. \A i \in 1..Len(e) : \A j \in 1..Len(u) :
          Replies(e[i]) /\ Asks(u[j]) => e[i].tx # u[j].tx
    BY <1>1 DEF Answers
  <2> QED BY <2>1, <2>2, <2>3 DEF Answers
<1>4. CASE rest = pending
  BY <1>3, <1>4 DEF e
<1>5. CASE Head(d).verb \in {"update", "reject"} /\ rest = {p \in pending : p.tx # Head(d).tx}
  <2>1. \A i \in 1..Len(e) : Replies(e[i]) => e[i].tx # d[1].tx
    <3> SUFFICES ASSUME NEW i \in 1..Len(e), Replies(e[i]), e[i].tx = d[1].tx PROVE FALSE
      OBVIOUS
    <3>1. e[i] = d[i + 1] /\ i + 1 \in 1..Len(d) /\ Replies(d[i + 1]) /\ Replies(d[1])
      BY <1>1, <1>5 DEF Replies
    <3> QED BY <1>2, <3>1 DEF Answers
  <2>2. \A i \in 1..Len(u) : Asks(u[i]) => u[i].tx # d[1].tx
    <3> SUFFICES ASSUME NEW i \in 1..Len(u), Asks(u[i]), u[i].tx = d[1].tx PROVE FALSE
      OBVIOUS
    <3>1. u[i].tx # NULL
      <4>1. u[i].tx \in Nat
        BY UpIs DEF Asks
      <4> QED BY <4>1, TableAssumption
    <3>2. Replies(d[1])
      BY <1>1, <1>5, <3>1 DEF Replies
    <3> QED BY <1>2, <3>2 DEF Answers
  <2>3. rest \subseteq pending /\ \A p \in pending : p.tx # d[1].tx => p \in rest
    BY <1>1, <1>5
  <2>4. \A i \in 1..Len(u) : Asks(u[i]) =>
          /\ u[i].intent.p = o /\ u[i].tx < next_tx
          /\ \E p \in rest : p.tx = u[i].tx /\ (p.predicted <=> u[i].intent.kind \in Predictable)
    <3> SUFFICES ASSUME NEW i \in 1..Len(u), Asks(u[i])
                 PROVE  /\ u[i].intent.p = o /\ u[i].tx < next_tx
                        /\ \E p \in rest :
                             p.tx = u[i].tx /\ (p.predicted <=> u[i].intent.kind \in Predictable)
      OBVIOUS
    <3> QED BY <1>3, <2>2, <2>3 DEF Answers
  <2>5. \A i \in 1..Len(e) : Replies(e[i]) /\ e[i].verb = "update" =>
          /\ e[i].cmd.kind = "engine"
          /\ \E p \in rest :
               p.tx = e[i].tx /\ (p.predicted <=> e[i].cmd.effect.kind \in Predictable)
    <3> SUFFICES ASSUME NEW i \in 1..Len(e), Replies(e[i]), e[i].verb = "update"
                 PROVE  /\ e[i].cmd.kind = "engine"
                        /\ \E p \in rest :
                             p.tx = e[i].tx /\ (p.predicted <=> e[i].cmd.effect.kind \in Predictable)
      OBVIOUS
    <3> QED BY <1>3, <2>1, <2>3 DEF Answers
  <2> QED BY <1>3, <2>3, <2>4, <2>5 DEF Answers, e
<1> QED
  BY <1>4, <1>5

\* The page asks for something.
LEMMA AnswersAsk ==
  ASSUME NEW pending \in SUBSET Pendings, NEW next_tx \in Nat, NEW o,
         NEW d \in Seq(Down), NEW u \in Seq(Up), NEW m \in Up,
         Asks(m), m.tx = next_tx, m.intent.p = o,
         NEW p \in Pendings, p.tx = next_tx, p.predicted <=> m.intent.kind \in Predictable,
         Answers(pending, next_tx, o, d, u)
  PROVE  Answers(pending \cup {p}, next_tx + 1, o, d, Append(u, m))
<1> DEFINE v == Append(u, m)
<1>1. /\ Len(u) \in Nat /\ Len(v) = Len(u) + 1
      /\ \A i \in 1..Len(u) : v[i] = u[i]
      /\ v[Len(u) + 1] = m
  BY AppendIs
<1> HIDE DEF v
<1>2. \A i \in 1..Len(v) : (i \in 1..Len(u) /\ v[i] = u[i]) \/ (i = Len(u) + 1 /\ v[i] = m)
  BY <1>1
<1>3. \A q \in pending : q.tx \in Nat /\ q.tx < next_tx
  BY DEF Answers, Pendings
<1>4. \A i \in 1..Len(u) : Asks(u[i]) => u[i].tx \in Nat /\ u[i].tx < next_tx
  BY UpIs DEF Answers, Asks
<1>5. \A i \in 1..Len(d) : Replies(d[i]) => d[i].tx \in Nat /\ d[i].tx < next_tx
  BY DownIs DEF Answers, Replies
<1>6. \A q \in pending \cup {p} : q.tx < next_tx + 1
  BY <1>3
<1>7. \A q, r \in pending \cup {p} : q.tx = r.tx => q = r
  BY <1>3 DEF Answers
<1>8. \A i \in 1..Len(v) : Asks(v[i]) =>
        /\ v[i].intent.p = o /\ v[i].tx < next_tx + 1
        /\ \E q \in pending \cup {p} :
             q.tx = v[i].tx /\ (q.predicted <=> v[i].intent.kind \in Predictable)
  <2> SUFFICES ASSUME NEW i \in 1..Len(v), Asks(v[i])
               PROVE  /\ v[i].intent.p = o /\ v[i].tx < next_tx + 1
                      /\ \E q \in pending \cup {p} :
                           q.tx = v[i].tx /\ (q.predicted <=> v[i].intent.kind \in Predictable)
    OBVIOUS
  <2>1. CASE i \in 1..Len(u) /\ v[i] = u[i]
    <3>1. PICK q \in pending : q.tx = u[i].tx /\ (q.predicted <=> u[i].intent.kind \in Predictable)
      BY <2>1 DEF Answers
    <3>2. v[i].intent.p = o /\ v[i].tx < next_tx + 1
      BY <1>4, <2>1 DEF Answers
    <3> QED BY <2>1, <3>1, <3>2
  <2>2. CASE v[i] = m
    BY <2>2
  <2> QED BY <1>2, <2>1, <2>2
<1>9. \A i \in 1..Len(d) : Replies(d[i]) => d[i].tx < next_tx + 1
  BY <1>5
<1>10. \A i, j \in 1..Len(v) : Asks(v[i]) /\ Asks(v[j]) /\ v[i].tx = v[j].tx => i = j
  <2> SUFFICES ASSUME NEW i \in 1..Len(v), NEW j \in 1..Len(v),
                      Asks(v[i]), Asks(v[j]), v[i].tx = v[j].tx
               PROVE  i = j
    OBVIOUS
  <2>1. CASE i \in 1..Len(u) /\ v[i] = u[i] /\ j \in 1..Len(u) /\ v[j] = u[j]
    BY <2>1 DEF Answers
  <2> QED BY <1>2, <1>4, <2>1
<1>11. \A i \in 1..Len(d) : \A j \in 1..Len(v) : Replies(d[i]) /\ Asks(v[j]) => d[i].tx # v[j].tx
  BY <1>2, <1>5 DEF Answers
<1>12. \A i \in 1..Len(d) : Replies(d[i]) /\ d[i].verb = "update" =>
         /\ d[i].cmd.kind = "engine"
         /\ \E q \in pending \cup {p} :
              q.tx = d[i].tx /\ (q.predicted <=> d[i].cmd.effect.kind \in Predictable)
  BY DEF Answers
<1>13. \A i, j \in 1..Len(d) : Replies(d[i]) /\ Replies(d[j]) /\ d[i].tx = d[j].tx => i = j
  BY DEF Answers
<1> QED
  BY <1>6, <1>7, <1>8, <1>9, <1>10, <1>11, <1>12, <1>13 DEF Answers, v

-----------------------------------------------------------------------------
(* Views, one message at a time *)

LEMMA RenamedTyped ==
  ASSUME NEW users \in UserLists, NEW u, NEW nick \in Nat
  PROVE  Renamed(users, u, nick) \in UserLists
<1>1. users \in [1..Len(users) -> Whos] /\ Len(users) \in Nat /\ DOMAIN users = 1..Len(users)
  BY DEF UserLists
<1>2. \A i \in 1..Len(users) :
        (IF users[i].id = u THEN [users[i] EXCEPT !.nick = nick] ELSE users[i]) \in Whos
  BY <1>1 DEF Whos
<1>3. Renamed(users, u, nick) \in [1..Len(users) -> Whos]
  BY <1>1, <1>2 DEF Renamed
<1> QED
  BY <1>1, <1>3 DEF UserLists

LEMMA UsersAfterTyped ==
  ASSUME NEW users \in UserLists, NEW cmd \in Commands, cmd.kind = "protocol"
  PROVE  UsersAfter(users, cmd) \in UserLists
<1>1. cmd.verb \in Verbs /\ cmd.who \in Whos /\ cmd.who.nick \in Nat
  BY DEF Commands, Whos
<1>2. Append(users, cmd.who) \in UserLists
  BY <1>1 DEF UserLists
<1>3. Renamed(users, cmd.who.id, cmd.who.nick) \in UserLists
  BY <1>1, RenamedTyped
<1> QED
  BY <1>1, <1>2, <1>3 DEF UsersAfter, Verbs

LEMMA ViewIs ==
  ASSUME NEW at \in Nat, NEW users \in UserLists
  PROVE  View(at, users) \in Views /\ View(at, users).at = at /\ View(at, users).users = users
BY DEF View, Views

LEMMA ToldIs ==
  ASSUME NEW v, NEW m, NEW w
  PROVE  <<v, m, w>> \in Told <=> v \in Views /\ m \in Down /\ w \in Views /\ Tells(v, m, w)
BY DEF Told

\* What a page gets to is no less than where it starts.
LEMMA GetsFurther ==
  ASSUME NEW from \in Views, NEW d \in Seq(Down), NEW stage, NEW last \in Views,
         Gets(from, d, stage, last)
  PROVE  from.at <= last.at
<1>1. PICK to \in Views : Leads(Told, d, from, to) /\ to.at <= last.at
  BY DEF Gets
<1>2. PICK h : /\ h[0] = from /\ h[Len(d)] = to
               /\ \A i \in 1..Len(d) : <<h[i - 1], d[i], h[i]>> \in Told
  BY <1>1 DEF Leads
<1> DEFINE T == {n \in Nat : n <= Len(d) => h[n] \in Views /\ from.at <= h[n].at}
<1>3. from.at \in Nat /\ to.at \in Nat /\ last.at \in Nat
  BY DEF Views
<1>4. 0 \in T
  BY <1>2, <1>3
<1>5. ASSUME NEW n \in Nat, n \in T PROVE n + 1 \in T
  <2> SUFFICES ASSUME n + 1 <= Len(d)
               PROVE  h[n + 1] \in Views /\ from.at <= h[n + 1].at
    OBVIOUS
  <2>1. h[n] \in Views /\ from.at <= h[n].at /\ n + 1 \in 1..Len(d)
    BY <1>5
  <2>2. <<h[(n + 1) - 1], d[n + 1], h[n + 1]>> \in Told /\ (n + 1) - 1 = n
    BY <1>2, <2>1
  <2>3. h[n + 1] \in Views /\ Tells(h[n], d[n + 1], h[n + 1])
    BY <2>2, ToldIs
  <2>4. h[n].at \in Nat /\ h[n + 1].at \in Nat
    BY <2>1, <2>3 DEF Views
  <2> QED BY <1>3, <2>1, <2>3, <2>4 DEF Tells
<1>6. Nat \subseteq T
  <2> HIDE DEF T
  <2> QED BY <1>4, <1>5, Induct
<1>7. Len(d) \in T
  BY <1>6
<1> QED
  BY <1>1, <1>2, <1>3, <1>7

LEMMA GetsMore ==
  ASSUME NEW from \in Views, NEW d \in Seq(Down), NEW m \in Down, NEW last \in Views,
         NEW next \in Views, Tells(last, m, next), Gets(from, d, "synced", last)
  PROVE  Gets(from, Append(d, m), "synced", next)
<1>1. Leads(Told, d, from, last)
  BY DEF Gets
<1>2. Leads(Told, Append(d, m), from, next)
  BY <1>1, LeadsAppend, ToldIs
<1>3. next.at <= next.at
  BY DEF Views
<1> QED
  BY <1>2, <1>3 DEF Gets

\* A message that tells nothing.
LEMMA GetsNothing ==
  ASSUME NEW from \in Views, NEW d \in Seq(Down), NEW m \in Down, NEW last \in Views,
         m.verb # "update", NEW stage, NEW then, then = "synced" => stage = "synced",
         Gets(from, d, stage, last)
  PROVE  Gets(from, Append(d, m), then, last)
<1>1. PICK to \in Views : /\ Leads(Told, d, from, to) /\ to.at <= last.at
                          /\ stage = "synced" => to = last
  BY DEF Gets
<1>2. Leads(Told, Append(d, m), from, to)
  <2>1. <<to, m, to>> \in Told
    BY ToldIs DEF Tells
  <2> QED BY <1>1, <2>1, LeadsAppend
<1> QED
  BY <1>1, <1>2 DEF Gets

LEMMA GetsLater ==
  ASSUME NEW from, NEW d, NEW stage, stage # "synced",
         NEW last \in Views, NEW next \in Views, last.at <= next.at, Gets(from, d, stage, last)
  PROVE  Gets(from, d, stage, next)
<1>1. PICK to \in Views : Leads(Told, d, from, to) /\ to.at <= last.at
  BY DEF Gets
<1>2. to.at <= next.at
  BY <1>1 DEF Views
<1> QED
  BY <1>1, <1>2 DEF Gets

LEMMA GetsTake ==
  ASSUME NEW from \in Views, NEW d \in Seq(Down), d # <<>>, NEW stage, NEW last \in Views,
         Gets(from, d, stage, last)
  PROVE  \E v \in Views : Tells(from, Head(d), v) /\ Gets(v, Tail(d), stage, last)
<1>1. PICK to \in Views : /\ Leads(Told, d, from, to) /\ to.at <= last.at
                          /\ stage = "synced" => to = last
  BY DEF Gets
<1>2. PICK v : <<from, Head(d), v>> \in Told /\ Leads(Told, Tail(d), v, to)
  BY <1>1, LeadsTail
<1> QED
  BY <1>1, <1>2, ToldIs DEF Gets

\* The same for pages that may still wait for their reset.
LEMMA InformedMore ==
  ASSUME NEW how, NEW from, how = "sync" => from \in Views, NEW d \in Seq(Down), NEW m \in Down, m.verb = "update",
         NEW last \in Views, NEW next \in Views, Tells(last, m, next),
         Informed(how, from, d, "synced", last), how = "sync" \/ d # <<>>
  PROVE  Informed(how, from, Append(d, m), "synced", next)
<1>1. CASE how = "sync"
  BY <1>1, GetsMore DEF Informed
<1>2. CASE how = "pending-reset" /\ d # <<>> /\ d[1].verb = "reset"
  <2>1. d[1] \in Down /\ Tail(d) \in Seq(Down)
    BY <1>2, TailIs
  <2>2. View(d[1].at, d[1].who) \in Views
    BY <1>2, <2>1, DownIs, ViewIs
  <2>3. Gets(View(d[1].at, d[1].who), Append(Tail(d), m), "synced", next)
    BY <1>2, <2>1, <2>2, GetsMore DEF Informed
  <2>4. Append(Tail(d), m) = Tail(Append(d, m)) /\ Append(d, m)[1] = d[1]
    BY <1>2, TailAppend
  <2> QED BY <1>2, <2>3, <2>4 DEF Informed
<1>3. CASE how = "pending-reset" /\ ~(d # <<>> /\ d[1].verb = "reset")
  BY <1>3, TailAppend DEF Informed
<1>4. CASE how \notin {"sync", "pending-reset"}
  BY <1>4 DEF Informed
<1> QED
  BY <1>1, <1>2, <1>3, <1>4

LEMMA InformedNothing ==
  ASSUME NEW how, NEW from, how = "sync" => from \in Views, NEW d \in Seq(Down), NEW m \in Down,
         m.verb \notin {"update", "reset"},
         NEW last \in Views, NEW stage, NEW then, then = "synced" => stage = "synced",
         Informed(how, from, d, stage, last)
  PROVE  Informed(how, from, Append(d, m), then, last)
<1>1. CASE how = "sync"
  BY <1>1, GetsNothing DEF Informed
<1>2. CASE how = "pending-reset" /\ d # <<>> /\ d[1].verb = "reset"
  <2>1. d[1] \in Down /\ Tail(d) \in Seq(Down)
    BY <1>2, TailIs
  <2>2. View(d[1].at, d[1].who) \in Views
    BY <1>2, <2>1, DownIs, ViewIs
  <2>3. Gets(View(d[1].at, d[1].who), Tail(d), stage, last)
    BY <1>2 DEF Informed
  <2>4. Gets(View(d[1].at, d[1].who), Append(Tail(d), m), then, last)
    BY <2>1, <2>2, <2>3, GetsNothing
  <2>5. Append(Tail(d), m) = Tail(Append(d, m)) /\ Append(d, m)[1] = d[1]
    BY <1>2, TailAppend
  <2> QED BY <1>2, <2>4, <2>5 DEF Informed
<1>3. CASE how = "pending-reset" /\ d # <<>> /\ d[1].verb # "reset"
  BY <1>3, TailAppend DEF Informed
<1>4. CASE how = "pending-reset" /\ d = <<>>
  <2>1. Append(d, m)[1] = m
    BY <1>4
  <2> QED BY <1>4, <2>1 DEF Informed
<1>5. CASE how \notin {"sync", "pending-reset"}
  BY <1>5 DEF Informed
<1> QED
  BY <1>1, <1>2, <1>3, <1>4, <1>5

LEMMA InformedLater ==
  ASSUME NEW how, NEW from, NEW d, NEW stage, stage # "synced",
         NEW last \in Views, NEW next \in Views, last.at <= next.at,
         Informed(how, from, d, stage, last)
  PROVE  Informed(how, from, d, stage, next)
BY GetsLater DEF Informed

LEMMA InformedReset ==
  ASSUME NEW from, NEW m \in Down, m.verb = "reset", NEW last \in Views,
         last = View(m.at, m.who)
  PROVE  Informed("pending-reset", from, Append(<<>>, m), "synced", last)
<1>1. Append(<<>>, m) = <<m>> /\ Tail(<<m>>) = <<>>
  OBVIOUS
<1>2. Leads(Told, <<>>, last, last)
  BY LeadsEmpty
<1>3. last.at <= last.at
  BY DEF Views
<1>4. Gets(last, <<>>, "synced", last)
  BY <1>2, <1>3 DEF Gets
<1> QED
  BY <1>1, <1>4 DEF Informed

-----------------------------------------------------------------------------
(* What the handlers of the server do to its fields *)

LEMMA ConnIs ==
  ASSUME NEW c \in Conns
  PROVE  c[1] \in Pages /\ c[2] \in 1..(MaxEvents + 1) /\ c = <<c[1], c[2]>> /\ Who(c) \in Users
BY GameSyncAssumption DEF Conns, Who

LEMMA ServerIs ==
  ASSUME NEW s \in Servers
  PROVE  /\ s.st \in States /\ s.users \in UserLists /\ s.clients \in Seq(Conns)
         /\ s.greeted \subseteq Conns /\ s.synced \subseteq Conns /\ s.zombie \in BOOLEAN
         /\ s.down \in [Conns -> Seq(Down)] /\ s.lost \subseteq Conns /\ s.committed \in Nat
         /\ View(s.committed, s.users) \in Views
<1>1. /\ s.st \in States /\ s.users \in UserLists /\ s.clients \in Seq(Conns)
      /\ s.greeted \subseteq Conns /\ s.synced \subseteq Conns /\ s.zombie \in BOOLEAN
      /\ s.down \in [Conns -> Seq(Down)] /\ s.lost \subseteq Conns /\ s.committed \in Nat
  BY DEF Servers
<1> QED
  BY <1>1, ViewIs

\* The same clients, with the same on the way to them.
SameClients(s, t) ==
  /\ t.clients = s.clients /\ t.greeted = s.greeted /\ t.synced = s.synced
  /\ t.lost = s.lost /\ t.zombie = s.zombie

LEMMA SendIs ==
  ASSUME NEW s \in Servers, NEW cs, NEW m \in Down
  PROVE  /\ Send(s, cs, m) \in Servers /\ SameClients(s, Send(s, cs, m))
         /\ Send(s, cs, m).st = s.st /\ Send(s, cs, m).users = s.users
         /\ Send(s, cs, m).committed = s.committed
         /\ \A c \in Conns : Send(s, cs, m).down[c] =
              IF c \in cs \ s.lost THEN Append(s.down[c], m) ELSE s.down[c]
<1> DEFINE down == [c \in Conns |-> IF c \in cs \ s.lost THEN Append(s.down[c], m) ELSE s.down[c]]
<1>1. down \in [Conns -> Seq(Down)]
  BY ServerIs
<1>2. Send(s, cs, m) = [s EXCEPT !.down = down]
  BY DEF Send
<1>3. \A c \in Conns : down[c] = IF c \in cs \ s.lost THEN Append(s.down[c], m) ELSE s.down[c]
  OBVIOUS
<1> HIDE DEF down
<1> QED
  BY <1>1, <1>2, <1>3 DEF Servers, SameClients

\* An update for every synced client: msgs has what each is told.
Spread(s, t, msgs) ==
  /\ SameClients(s, t) /\ t.committed = s.committed + 1
  /\ \A c \in Conns : t.down[c] =
       IF c \in s.synced \ s.lost THEN Append(s.down[c], msgs[c]) ELSE s.down[c]

News(s, cmds, source, tx) ==
  [c \in Conns |-> [verb |-> "update", tx |-> IF c = source THEN tx ELSE NULL,
                    cmd |-> cmds[c], at |-> s.committed + 1]]

LEMMA NewsIs ==
  ASSUME NEW s \in Servers, NEW cmds \in [Conns -> Commands], NEW source, NEW tx \in Nat \cup {NULL},
         NEW c \in Conns
  PROVE  LET m == News(s, cmds, source, tx)[c]
         IN  /\ m \in Down /\ m.verb = "update" /\ m.cmd = cmds[c] /\ m.at = s.committed + 1
             /\ m.tx = IF c = source THEN tx ELSE NULL
<1>1. s.committed + 1 \in Nat /\ cmds[c] \in Commands
  BY ServerIs
<1>2. News(s, cmds, source, tx)[c] =
        [verb |-> "update", tx |-> IF c = source THEN tx ELSE NULL,
         cmd |-> cmds[c], at |-> s.committed + 1]
  BY DEF News
<1>3. News(s, cmds, source, tx)[c] \in Updates
  BY <1>1, <1>2 DEF Updates
<1> QED
  BY <1>2, <1>3 DEF Down

LEMMA PublishIs ==
  ASSUME NEW s \in Servers, NEW cmds \in [Conns -> Commands], NEW source, NEW tx \in Nat \cup {NULL}
  PROVE  LET t == Publish(s, cmds, source, tx)
         IN  /\ t \in Servers /\ Spread(s, t, News(s, cmds, source, tx))
             /\ t.st = s.st /\ t.users = s.users
<1> DEFINE msgs == News(s, cmds, source, tx)
           down == [c \in Conns |-> IF c \in s.synced \ s.lost THEN Append(s.down[c], msgs[c])
                                    ELSE s.down[c]]
           t    == Publish(s, cmds, source, tx)
<1>1. \A c \in Conns : msgs[c] \in Down /\ s.down[c] \in Seq(Down)
  BY NewsIs, ServerIs
<1>2. down \in [Conns -> Seq(Down)]
  <2> HIDE DEF msgs
  <2> QED BY <1>1
<1>3. t = [s EXCEPT !.committed = s.committed + 1, !.down = down]
  BY DEF Publish, News, Audience
<1>4. \A c \in Conns : down[c] =
        IF c \in s.synced \ s.lost THEN Append(s.down[c], msgs[c]) ELSE s.down[c]
  OBVIOUS
<1>5. s.committed + 1 \in Nat
  BY ServerIs
<1> HIDE DEF t, down, msgs
<1>6. /\ t \in Servers /\ t.committed = s.committed + 1 /\ t.down = down
      /\ SameClients(s, t) /\ t.st = s.st /\ t.users = s.users
  BY <1>2, <1>3, <1>5 DEF Servers, SameClients
<1>7. Spread(s, t, msgs)
  BY <1>4, <1>6 DEF Spread
<1> QED
  BY <1>6, <1>7 DEF t, msgs

\* A change of the game, and what everybody is told of it.
Shown(e) == [c \in Conns |-> [kind |-> "engine", effect |-> EffectFor(e, Who(c))]]

LEMMA ShownIs ==
  ASSUME NEW e \in Effects
  PROVE  /\ Shown(e) \in [Conns -> Commands]
         /\ \A c \in Conns : Shown(e)[c].kind = "engine" /\ Shown(e)[c].effect = EffectFor(e, Who(c))
BY EffectForTyped DEF Shown, Commands

LEMMA CommittedIs ==
  ASSUME NEW s \in Servers, NEW source, NEW tx \in Nat \cup {NULL}, NEW e \in Effects,
         Commit(s.st, e) \in States
  PROVE  LET t == Committed(s, source, tx, e)
         IN  /\ t \in Servers /\ Spread(s, t, News(s, Shown(e), source, tx))
             /\ t.st = Commit(s.st, e) /\ t.users = s.users
<1> DEFINE sent == Publish(s, Shown(e), source, tx)
           t    == Committed(s, source, tx, e)
<1>1. /\ sent \in Servers /\ Spread(s, sent, News(s, Shown(e), source, tx))
      /\ sent.users = s.users
  BY ShownIs, PublishIs
<1>2. t = [sent EXCEPT !.st = Commit(s.st, e)]
  BY DEF Committed, Shown
<1> HIDE DEF t, sent
<1>3. t \in Servers /\ t.st = Commit(s.st, e) /\ t.users = sent.users
  BY <1>1, <1>2 DEF Servers
<1>4. SameClients(sent, t) /\ t.committed = sent.committed /\ t.down = sent.down
  BY <1>1, <1>2 DEF Servers, SameClients
<1>5. Spread(s, t, News(s, Shown(e), source, tx))
  BY <1>1, <1>4 DEF Spread, SameClients
<1> QED
  BY <1>1, <1>3, <1>5 DEF t

-----------------------------------------------------------------------------
(* What a handler of the server leaves true *)

LEMMA PageIs ==
  ASSUME Typed, NEW b \in Pages, Numbered(b), Connected(b)
  PROVE  /\ Sock(b) \in Conns /\ Sock(b)[1] = b /\ Who(Sock(b)) = UserOf[b] /\ UserOf[b] \in Users
         /\ page[b].status \in {"pending-reset", "sync"}
         /\ page[b].status = "sync" => View(seen[b], page[b].users) \in Views
         /\ page[b].pending \in SUBSET Pendings /\ page[b].next_tx \in Nat
<1>1. page[b] \in GameClients /\ seen[b] \in Nat \cup {NULL}
  BY DEF Typed
<1>2. page[b].sock \in 1..(MaxEvents + 1)
  BY <1>1, GameSyncAssumption DEF Numbered, Connected, Typed, GameClients
<1>3. Sock(b) \in Conns /\ Sock(b)[1] = b /\ Who(Sock(b)) = UserOf[b] /\ UserOf[b] \in Users
  BY <1>2, GameSyncAssumption DEF Sock, Conns, Who
<1>4. page[b].status \in {"pending-reset", "sync"}
  BY <1>1 DEF Numbered, Connected, GameClients
<1>5. page[b].status = "sync" => View(seen[b], page[b].users) \in Views
  BY <1>1, ViewIs DEF Numbered, GameClients
<1> QED
  BY <1>1, <1>3, <1>4, <1>5 DEF GameClients

LEMMA StageIs ==
  ASSUME NEW s, NEW c, Listed(s)
  PROVE  /\ Stage(s, c) \in {"gone", "come", "greeted", "synced"}
         /\ Stage(s, c) = "synced" <=> c \in s.synced
         /\ Stage(s, c) \in {"synced", "greeted"} <=> c \in s.greeted
         /\ Stage(s, c) # "gone" <=> c \in Range(s.clients)
BY DEF Stage, Listed

LEMMA SameListed ==
  ASSUME NEW s, NEW t, SameClients(s, t), Listed(s)
  PROVE  Listed(t) /\ \A c : Stage(t, c) = Stage(s, c)
BY DEF SameClients, Listed, Stage

\* An update for everybody, which answers nothing of b's.
LEMMA SpreadTalk ==
  ASSUME Typed, NEW b \in Pages, Numbered(b), Connected(b),
         NEW s \in Servers, NEW t \in Servers, NEW msgs, Spread(s, t, msgs),
         NEW x \in [Conns -> Seq(Up)], Listed(s), Fresh(s, x, b), Talk(s, x, b),
         msgs[Sock(b)] \in Down, msgs[Sock(b)].verb = "update", msgs[Sock(b)].tx = NULL,
         Tells(View(s.committed, s.users), msgs[Sock(b)], View(t.committed, t.users))
  PROVE  Talk(t, x, b)
<1> DEFINE c == Sock(b)
           d == s.down[c]
           u == x[c]
           e == t.down[c]
           m == msgs[c]
           how == page[b].status
           from == View(seen[b], page[b].users)
           last == View(s.committed, s.users)
           next == View(t.committed, t.users)
<1>1. /\ c \in Conns /\ how \in {"pending-reset", "sync"} /\ (how = "sync" => from \in Views)
  BY PageIs
<1>2. d \in Seq(Down) /\ u \in Seq(Up) /\ last \in Views /\ next \in Views
  BY <1>1, ServerIs
<1>3. Stage(t, c) = Stage(s, c) /\ (Stage(s, c) = "synced" <=> c \in s.synced)
  BY SameListed, StageIs DEF Spread
<1>4. c \notin s.lost
  BY DEF Fresh
<1>5. e = IF c \in s.synced THEN Append(d, m) ELSE d
  BY <1>1, <1>4 DEF Spread
<1>6. /\ Handshake(how, UserOf[b], d, u, Stage(s, c))
      /\ Answers(page[b].pending, page[b].next_tx, UserOf[b], d, u)
      /\ Informed(how, from, d, Stage(s, c), last)
  BY DEF Talk
<1>7. last.at <= next.at
  BY <1>2, ViewIs, ServerIs DEF Spread
<1>8. Talk(t, x, b) <=>
      /\ Handshake(how, UserOf[b], e, u, Stage(t, c))
      /\ Answers(page[b].pending, page[b].next_tx, UserOf[b], e, u)
      /\ Informed(how, from, e, Stage(t, c), next)
  BY DEF Talk
<1>9. m \in Down /\ m.verb = "update" /\ m.tx = NULL /\ Tells(last, m, next)
  OBVIOUS
<1> HIDE DEF c, d, u, e, m, how, from, last, next
<1>10. CASE c \in s.synced
  <2>1. Stage(s, c) = "synced" /\ Stage(t, c) = "synced" /\ e = Append(d, m)
    BY <1>3, <1>5, <1>10
  <2>2. Handshake(how, UserOf[b], e, u, "synced")
    BY <1>2, <1>6, <1>9, <2>1, HandshakeReplies
  <2>3. Answers(page[b].pending, page[b].next_tx, UserOf[b], e, u)
    BY <1>2, <1>6, <1>9, <2>1, AnswersTold DEF Replies
  <2>4. how = "sync" \/ d # <<>>
    BY <1>1, <1>6, <2>1 DEF Handshake
  <2>5. Informed(how, from, e, "synced", next)
    BY <1>1, <1>2, <1>6, <1>9, <2>1, <2>4, InformedMore
  <2> QED BY <1>8, <2>1, <2>2, <2>3, <2>5
<1>11. CASE c \notin s.synced
  <2>1. Stage(s, c) # "synced" /\ Stage(t, c) = Stage(s, c) /\ e = d
    BY <1>3, <1>5, <1>11
  <2>2. Informed(how, from, e, Stage(t, c), next)
    BY <1>2, <1>6, <1>7, <2>1, InformedLater
  <2> QED BY <1>6, <1>8, <2>1, <2>2
<1> QED
  BY <1>10, <1>11

\* The same with b's first request answered, which is taken off the wire.
LEMMA SpreadAnswer ==
  ASSUME Typed, NEW b \in Pages, Numbered(b), Connected(b),
         NEW s \in Servers, NEW t \in Servers, NEW msgs, Spread(s, t, msgs),
         NEW x \in [Conns -> Seq(Up)], NEW y, Listed(s), Fresh(s, x, b), Talk(s, x, b),
         x[Sock(b)] # <<>>, Asks(Head(x[Sock(b)])), y[Sock(b)] = Tail(x[Sock(b)]),
         Sock(b) \in Range(s.clients),
         msgs[Sock(b)] \in Down, msgs[Sock(b)].verb = "update",
         msgs[Sock(b)].tx = Head(x[Sock(b)]).tx, msgs[Sock(b)].cmd.kind = "engine",
         msgs[Sock(b)].cmd.effect.kind \in Predictable
           <=> Head(x[Sock(b)]).intent.kind \in Predictable,
         Tells(View(s.committed, s.users), msgs[Sock(b)], View(t.committed, t.users))
  PROVE  page[b].status = "sync" /\ Sock(b) \in s.synced /\ Talk(t, y, b)
<1> DEFINE c == Sock(b)
           d == s.down[c]
           u == x[c]
           v == y[c]
           e == t.down[c]
           m == msgs[c]
           how == page[b].status
           from == View(seen[b], page[b].users)
           last == View(s.committed, s.users)
           next == View(t.committed, t.users)
<1>1. /\ c \in Conns /\ how \in {"pending-reset", "sync"} /\ (how = "sync" => from \in Views)
  BY PageIs
<1>2. /\ d \in Seq(Down) /\ u \in Seq(Up) /\ u # <<>> /\ Asks(Head(u)) /\ v = Tail(u)
      /\ last \in Views /\ next \in Views
  BY <1>1, ServerIs
<1>3. /\ Stage(t, c) = Stage(s, c) /\ Stage(s, c) \in {"come", "greeted", "synced"}
      /\ Stage(s, c) = "synced" <=> c \in s.synced
  BY SameListed, StageIs DEF Spread
<1>4. c \notin s.lost
  BY DEF Fresh
<1>5. e = IF c \in s.synced THEN Append(d, m) ELSE d
  BY <1>1, <1>4 DEF Spread
<1>6. /\ Handshake(how, UserOf[b], d, u, Stage(s, c))
      /\ Answers(page[b].pending, page[b].next_tx, UserOf[b], d, u)
      /\ Informed(how, from, d, Stage(s, c), last)
  BY DEF Talk
<1>7. Talk(t, y, b) <=>
      /\ Handshake(how, UserOf[b], e, v, Stage(t, c))
      /\ Answers(page[b].pending, page[b].next_tx, UserOf[b], e, v)
      /\ Informed(how, from, e, Stage(t, c), next)
  BY DEF Talk
<1>8. /\ m \in Down /\ m.verb = "update" /\ m.tx = Head(u).tx /\ Tells(last, m, next)
      /\ m.cmd.kind = "engine"
      /\ m.cmd.effect.kind \in Predictable <=> Head(u).intent.kind \in Predictable
  OBVIOUS
<1> HIDE DEF c, d, u, v, e, m, how, from, last, next
<1>9. how = "sync" /\ Stage(s, c) = "synced"
  <2>1. Head(u) = u[1] /\ 1 \in 1..Len(u) /\ u[1].verb = "req:update"
    BY <1>2, TailIs DEF Asks
  <2>2. how # "pending-reset"
    BY <1>2, <1>3, <1>6, <2>1 DEF Handshake
  <2> QED BY <1>1, <1>3, <1>6, <2>2 DEF Handshake
<1>10. c \in s.synced /\ Stage(t, c) = "synced" /\ e = Append(d, m)
  BY <1>3, <1>5, <1>9
<1>11. Handshake(how, UserOf[b], e, v, "synced")
  <2>1. v \in Seq(Up) /\ m.verb \in {"update", "reject"}
    BY <1>2, <1>8, TailIs
  <2> QED BY <1>2, <1>6, <1>8, <1>9, <1>10, <2>1, HandshakeReplies
<1>12. Answers(page[b].pending, page[b].next_tx, UserOf[b], e, v)
  BY <1>2, <1>6, <1>8, <1>10, AnswersOwn
<1>13. Informed(how, from, e, "synced", next)
  BY <1>1, <1>2, <1>6, <1>8, <1>9, <1>10, InformedMore
<1> QED
  BY <1>7, <1>9, <1>10, <1>11, <1>12, <1>13 DEF c, how

LEMMA SpreadFresh ==
  ASSUME NEW b \in Pages, NEW s, NEW t, NEW msgs, Spread(s, t, msgs), NEW x,
         Listed(s), Fresh(s, x, b)
  PROVE  Fresh(t, x, b)
<1>1. \A k \in 1..(MaxEvents + 1) : k > page[b].conns =>
        <<b, k>> \in Conns /\ <<b, k>> \notin s.synced
  BY DEF Fresh, Listed, Conns
<1> QED
  BY <1>1 DEF Spread, SameClients, Fresh

LEMMA SpreadGood ==
  ASSUME Typed, \A b \in Pages : Numbered(b),
         NEW s \in Servers, NEW t \in Servers, NEW msgs, Spread(s, t, msgs),
         NEW x \in [Conns -> Seq(Up)], Good(s, x),
         \A c \in Conns :
           /\ msgs[c] \in Down /\ msgs[c].verb = "update" /\ msgs[c].tx = NULL
           /\ Tells(View(s.committed, s.users), msgs[c], View(t.committed, t.users))
  PROVE  Good(t, x)
<1>1. Listed(t)
  BY SameListed DEF Good, Spread
<1>2. ASSUME NEW b \in Pages
      PROVE  Fresh(t, x, b) /\ (Connected(b) => Talk(t, x, b))
  BY <1>2, SpreadFresh, SpreadTalk, PageIs DEF Good
<1>3. Asked(t, x)
  BY DEF Good, Asked, Spread, SameClients
<1> QED
  BY <1>1, <1>2, <1>3 DEF Good

-----------------------------------------------------------------------------
(* Announcements *)

Announcement(verb, who) == [kind |-> "protocol", verb |-> verb, who |-> who]
Announced(verb, who) == [c \in Conns |-> Announcement(verb, who)]

LEMMA AnnouncedIs ==
  ASSUME NEW verb \in Verbs, NEW who \in Whos
  PROVE  /\ Announced(verb, who) \in [Conns -> Commands]
         /\ \A c \in Conns : Announced(verb, who)[c] = Announcement(verb, who)
BY DEF Announced, Announcement, Commands

Broadcasts(r, told, t, source, verb, who) ==
  /\ Spread(r, told, News(r, Announced(verb, who), NULL, NULL))
  /\ told.st = r.st /\ told.users = r.users
  /\ \/ t = told
     \/ \E m \in Intents :
          /\ Allowed(r.st, m) /\ m \in EffectsOf(r.st, m)
          /\ t \in Servers /\ Spread(told, t, News(told, Shown(m), source, NULL))
          /\ t.st = Commit(r.st, m) /\ t.users = r.users

\* A broadcast is an announcement, and perhaps an update that a player has left.
LEMMA BroadcastIs ==
  ASSUME NEW r \in Servers, NEW source, NEW verb \in Verbs, NEW who \in Whos
  PROVE  \E told \in Servers : Broadcasts(r, told, Broadcast(r, source, verb, who), source, verb, who)
<1> DEFINE cmds == Announced(verb, who)
           told == Publish(r, cmds, NULL, NULL)
           m    == IF verb = "user:part" THEN Translate(r.st, who.id) ELSE NULL
           t    == Broadcast(r, source, verb, who)
<1>1. cmds \in [Conns -> Commands]
  BY AnnouncedIs
<1>0. NULL \in Nat \cup {NULL}
  OBVIOUS
<1>2. /\ told \in Servers /\ Spread(r, told, News(r, cmds, NULL, NULL))
      /\ told.st = r.st /\ told.users = r.users
  BY <1>0, <1>1, PublishIs
<1>3. t = IF m # NULL /\ Allowed(r.st, m) THEN Committed(told, source, NULL, m) ELSE told
  BY DEF Broadcast, Announced, Announcement
<1> HIDE DEF told, t, cmds
<1>4. CASE m # NULL /\ Allowed(r.st, m)
  <2>1. m = Call("rm_player", who.id, NULL)
    BY <1>4 DEF Translate
  <2> HIDE DEF m
  <2>2. m \in Intents /\ m.kind = "rm_player" /\ who.id \in Users
    BY <2>1 DEF Call, Intents, Whos
  <2>3. m \in EffectsOf(r.st, m)
    BY <2>2 DEF EffectsOf
  <2>4. m \in Effects /\ Commit(r.st, m) \in States
    BY <1>4, <2>2, <2>3, EffectsTyped, ServerIs
  <2>5. /\ t \in Servers /\ Spread(told, t, News(told, Shown(m), source, NULL))
        /\ t.st = Commit(r.st, m) /\ t.users = r.users
    <3>1. t = Committed(told, source, NULL, m)
      BY <1>3, <1>4
    <3>2. Commit(told.st, m) \in States
      BY <1>2, <2>4
    <3>3. LET c == Committed(told, source, NULL, m)
          IN  /\ c \in Servers /\ Spread(told, c, News(told, Shown(m), source, NULL))
              /\ c.st = Commit(told.st, m) /\ c.users = told.users
      BY <1>0, <1>2, <2>4, <3>2, CommittedIs
    <3> QED BY <1>2, <3>1, <3>3
  <2> QED BY <1>2, <1>4, <2>2, <2>3, <2>5 DEF t, told, cmds, Broadcasts
<1>5. CASE ~(m # NULL /\ Allowed(r.st, m))
  BY <1>2, <1>3, <1>5 DEF t, told, cmds, Broadcasts
<1> QED
  BY <1>4, <1>5

\* s is the server as everybody knows it, r the one that has changed its list of
\* users and is about to tell.
LEMMA BroadcastGood ==
  ASSUME Typed, \A b \in Pages : Numbered(b),
         NEW s \in Servers, NEW r \in Servers, SameClients(s, r), r.down = s.down,
         r.committed = s.committed, NEW source, NEW verb \in Verbs, NEW who \in Whos,
         r.users = UsersAfter(s.users, Announcement(verb, who)),
         NEW x \in [Conns -> Seq(Up)], Good(s, x)
  PROVE  LET t == Broadcast(r, source, verb, who)
         IN  t \in Servers /\ Good(t, x) /\ SameClients(s, t) /\ t.committed > s.committed
<1> DEFINE cmds == Announced(verb, who)
           msgs == News(r, cmds, NULL, NULL)
           t    == Broadcast(r, source, verb, who)
<1>1. PICK told \in Servers :
        /\ Spread(r, told, msgs) /\ told.st = r.st /\ told.users = r.users
        /\ \/ t = told
           \/ \E m \in Intents :
                /\ Allowed(r.st, m) /\ m \in EffectsOf(r.st, m)
                /\ t \in Servers /\ Spread(told, t, News(told, Shown(m), source, NULL))
                /\ t.st = Commit(r.st, m) /\ t.users = r.users
  <2>1. PICK told \in Servers : Broadcasts(r, told, t, source, verb, who)
    BY BroadcastIs
  <2> QED BY <2>1 DEF Broadcasts
<1>2. cmds \in [Conns -> Commands] /\ \A c \in Conns : cmds[c] = Announcement(verb, who)
  BY AnnouncedIs
<1>0. NULL \in Nat \cup {NULL}
  OBVIOUS
<1> HIDE DEF t, cmds
<1>3. \A c \in Conns :
        /\ msgs[c] \in Down /\ msgs[c].verb = "update" /\ msgs[c].tx = NULL
        /\ msgs[c].cmd = Announcement(verb, who) /\ msgs[c].at = s.committed + 1
  <2> SUFFICES ASSUME NEW c \in Conns
               PROVE  /\ msgs[c] \in Down /\ msgs[c].verb = "update" /\ msgs[c].tx = NULL
                      /\ msgs[c].cmd = Announcement(verb, who) /\ msgs[c].at = s.committed + 1
    OBVIOUS
  <2>1. msgs[c] = [verb |-> "update", tx |-> NULL, cmd |-> cmds[c], at |-> r.committed + 1]
    BY DEF News
  <2> HIDE DEF msgs
  <2>2. msgs[c] \in Updates
    BY <1>0, <1>2, <2>1, ServerIs DEF Updates
  <2> QED BY <1>2, <2>1, <2>2 DEF Down
<1> HIDE DEF msgs
<1>4. Spread(s, told, msgs) /\ told.committed = s.committed + 1
  BY <1>1 DEF Spread, SameClients
<1>5. \A c \in Conns : Tells(View(s.committed, s.users), msgs[c], View(told.committed, told.users))
  <2>1. Announcement(verb, who).kind = "protocol"
    BY DEF Announcement
  <2> QED BY <1>1, <1>3, <1>4, <2>1 DEF Tells, View
<1>6. Good(told, x)
  BY <1>3, <1>4, <1>5, SpreadGood
<1>7. CASE t = told
  BY <1>4, <1>6, <1>7, ServerIs DEF Spread, t
<1>8. ASSUME NEW m \in Intents, Allowed(r.st, m), m \in EffectsOf(r.st, m),
             t \in Servers, Spread(told, t, News(told, Shown(m), source, NULL)),
             t.users = r.users
      PROVE  Good(t, x) /\ SameClients(s, t) /\ t.committed > s.committed
  <2> DEFINE more == News(told, Shown(m), source, NULL)
  <2>1. m \in Effects
    BY <1>8, EffectsTyped, ServerIs
  <2>2. \A c \in Conns :
          /\ more[c] \in Down /\ more[c].verb = "update" /\ more[c].tx = NULL
          /\ more[c].cmd.kind = "engine" /\ more[c].at = told.committed + 1
    <3> SUFFICES ASSUME NEW c \in Conns
                 PROVE  /\ more[c] \in Down /\ more[c].verb = "update" /\ more[c].tx = NULL
                        /\ more[c].cmd.kind = "engine" /\ more[c].at = told.committed + 1
      OBVIOUS
    <3>1. more[c] = [verb |-> "update", tx |-> NULL, cmd |-> Shown(m)[c], at |-> told.committed + 1]
      BY DEF News
    <3>2. Shown(m)[c] \in Commands /\ Shown(m)[c].kind = "engine" /\ told.committed + 1 \in Nat
      BY <2>1, ShownIs, ServerIs
    <3> HIDE DEF more
    <3>3. more[c] \in Updates
      BY <1>0, <3>1, <3>2 DEF Updates
    <3> QED BY <3>1, <3>2, <3>3 DEF Down
  <2> HIDE DEF more
  <2>3. t.committed = told.committed + 1 /\ t.users = told.users
    BY <1>1, <1>8 DEF Spread
  <2>4. \A c \in Conns : Tells(View(told.committed, told.users), more[c], View(t.committed, t.users))
    BY <2>2, <2>3 DEF Tells, View
  <2>5. Good(t, x)
    BY <1>6, <1>8, <2>2, <2>4, SpreadGood DEF more
  <2>6. SameClients(s, t)
    BY <1>4, <1>8 DEF Spread, SameClients
  <2> QED BY <1>4, <2>3, <2>5, <2>6, ServerIs
<1> QED
  BY <1>1, <1>7, <1>8 DEF t

-----------------------------------------------------------------------------
(* Those who are not concerned *)

LEMMA OthersTalk ==
  ASSUME NEW b \in Pages, NEW s, NEW t, NEW x, NEW y, Talk(s, x, b),
         t.down[Sock(b)] = s.down[Sock(b)], y[Sock(b)] = x[Sock(b)],
         Stage(t, Sock(b)) = Stage(s, Sock(b)), t.committed = s.committed, t.users = s.users
  PROVE  Talk(t, y, b)
BY DEF Talk

LEMMA OthersFresh ==
  ASSUME NEW b \in Pages, NEW s, NEW t, NEW x, NEW y, Fresh(s, x, b),
         Range(t.clients) \subseteq Range(s.clients), t.lost = s.lost,
         \A c \in Conns \ Range(s.clients) : t.down[c] = s.down[c] /\ y[c] \in {x[c], <<>>}
  PROVE  Fresh(t, y, b)
<1>1. \A k \in 1..(MaxEvents + 1) : k > page[b].conns => <<b, k>> \in Conns \ Range(s.clients)
  BY DEF Fresh, Conns
<1> QED
  BY <1>1 DEF Fresh

-----------------------------------------------------------------------------
(* hello and reset *)

LEMMA HelloGood ==
  ASSUME Typed, \A b \in Pages : Numbered(b),
         NEW s \in Servers, NEW x \in [Conns -> Seq(Up)], Good(s, x),
         NEW c \in Conns, c \in Range(s.clients), x[c] # <<>>, Head(x[c]).verb = "req:hello",
         NEW nick \in Nat
  PROVE  LET t == Hello(s, c, nick)
         IN  /\ t \in Servers /\ Good(t, [x EXCEPT ![c] = Tail(x[c])])
             /\ t.committed > s.committed
<1> DEFINE known == Known(s, Who(c))
           who   == [id |-> Who(c), nick |-> nick]
           m     == [verb |-> "hello", you |-> who]
           users == IF known THEN Renamed(s.users, Who(c), nick) ELSE Append(s.users, who)
           met   == [s EXCEPT !.users = users, !.greeted = s.greeted \cup {c}]
           r     == Send(met, {c}, m)
           sent  == Send(s, {c}, m)
           s1    == [sent EXCEPT !.greeted = s.greeted \cup {c}]
           verb  == IF known THEN "user:rejoin" ELSE "user:join"
           y     == [x EXCEPT ![c] = Tail(x[c])]
           t     == Hello(s, c, nick)
<1>1. who \in Whos /\ m \in Down /\ m.verb = "hello" /\ m.you = who /\ who.id = Who(c)
  BY ConnIs DEF Whos, Down, Hellos
<1>2. t = Broadcast(r, c, verb, who)
  BY DEF Hello, Greeting
<1>3. users \in UserLists /\ users = UsersAfter(s.users, Announcement(verb, who))
  <2>1. Append(s.users, who) \in UserLists /\ Renamed(s.users, Who(c), nick) \in UserLists
    BY <1>1, ServerIs, RenamedTyped DEF UserLists
  <2> QED BY <2>1 DEF UsersAfter, Announcement
<1>4. met \in Servers /\ met.down = s.down /\ met.lost = s.lost /\ met.committed = s.committed
      /\ met.clients = s.clients /\ met.greeted = s.greeted \cup {c} /\ met.synced = s.synced
      /\ met.users = users /\ met.zombie = s.zombie /\ met.st = s.st
  <2> HIDE DEF users
  <2> QED BY <1>3 DEF Servers
<1>5. y \in [Conns -> Seq(Up)] /\ y[c] = Tail(x[c]) /\ \A k \in Conns : k # c => y[k] = x[k]
  BY TailIs
<1> HIDE DEF known, who, m, users, met, verb, y, t
<1>6. /\ r \in Servers /\ r.clients = s.clients /\ r.greeted = s.greeted \cup {c}
      /\ r.synced = s.synced /\ r.lost = s.lost /\ r.zombie = s.zombie /\ r.committed = s.committed
      /\ r.users = users
      /\ \A k \in Conns : r.down[k] = IF k \in {c} \ s.lost THEN Append(s.down[k], m) ELSE s.down[k]
  BY <1>1, <1>4, SendIs DEF SameClients
<1>7. /\ sent \in Servers /\ SameClients(s, sent) /\ sent.users = s.users
      /\ sent.committed = s.committed
      /\ \A k \in Conns : sent.down[k] = IF k \in {c} \ s.lost THEN Append(s.down[k], m) ELSE s.down[k]
  BY <1>1, SendIs
<1> HIDE DEF r, sent
<1>8. /\ s1 \in Servers /\ s1.clients = s.clients /\ s1.greeted = s.greeted \cup {c}
      /\ s1.synced = s.synced /\ s1.lost = s.lost /\ s1.zombie = s.zombie
      /\ s1.committed = s.committed /\ s1.users = s.users /\ s1.down = sent.down
  BY <1>7 DEF Servers, SameClients
<1> HIDE DEF s1
<1>9. SameClients(s1, r) /\ r.down = s1.down
  <2>1. r.down \in [Conns -> Seq(Down)] /\ sent.down \in [Conns -> Seq(Down)]
    BY <1>6, <1>7, ServerIs
  <2>2. \A k \in Conns : r.down[k] = sent.down[k]
    BY <1>6, <1>7
  <2>3. r.down = sent.down
    BY <2>1, <2>2
  <2> QED BY <1>6, <1>8, <2>3 DEF SameClients
<1>10. Listed(s) /\ Listed(s1)
  BY <1>8 DEF Good, Listed
<1>11. Asked(s1, y)
  <2> SUFFICES ASSUME NEW k \in Range(s.clients), NEW i \in 1..Len(y[k]), y[k][i].verb = "req:reset"
               PROVE  k \in s.greeted \cup {c}
    BY <1>8 DEF Asked
  <2>1. CASE k = c
    BY <2>1
  <2>2. CASE k # c
    <3>1. y[k] = x[k]
      BY <1>5, <2>2, ServerIs DEF Range
    <3> QED BY <3>1 DEF Good, Asked
  <2> QED BY <2>1, <2>2
<1>12. ASSUME NEW b \in Pages
       PROVE  Fresh(s1, y, b)
  <2>1. \A k \in Conns \ Range(s.clients) : s1.down[k] = s.down[k] /\ y[k] = x[k]
    BY <1>5, <1>7, <1>8
  <2>2. Fresh(s, x, b)
    BY DEF Good
  <2> QED BY <1>8, <2>1, <2>2, OthersFresh
<1>13. ASSUME NEW b \in Pages, Connected(b)
       PROVE  Talk(s1, y, b)
  <2>1. Sock(b) \in Conns /\ Talk(s, x, b) /\ Fresh(s, x, b)
    BY <1>13, PageIs DEF Good
  <2>2. CASE Sock(b) # c
    <3>1. Stage(s1, Sock(b)) = Stage(s, Sock(b))
      BY <1>8, <2>2 DEF Stage
    <3> QED BY <1>5, <1>7, <1>8, <2>1, <2>2, <3>1, OthersTalk
  <2>3. CASE Sock(b) = c
    <3> DEFINE how == page[b].status
               from == View(seen[b], page[b].users)
               last == View(s.committed, s.users)
    <3>1. /\ how \in {"pending-reset", "sync"} /\ (how = "sync" => from \in Views)
          /\ last \in Views /\ x[c] \in Seq(Up) /\ s.down[c] \in Seq(Down) /\ Who(c) = UserOf[b]
      BY <1>13, <2>3, PageIs, ServerIs
    <3>2. c \notin s.lost
      BY <1>13, <2>1, <2>3 DEF Fresh
    <3>3. s1.down[c] = Append(s.down[c], m)
      BY <1>7, <1>8, <3>2
    <3>4. Stage(s, c) \in {"come", "greeted", "synced"}
      BY <1>10, StageIs
    <3>5. /\ Handshake(how, UserOf[b], s.down[c], x[c], Stage(s, c))
          /\ Answers(page[b].pending, page[b].next_tx, UserOf[b], s.down[c], x[c])
          /\ Informed(how, from, s.down[c], Stage(s, c), last)
      BY <2>1, <2>3 DEF Talk
    <3> HIDE DEF how, from, last
    <3>6. /\ Stage(s, c) = "come" /\ how = "pending-reset"
          /\ Handshake(how, UserOf[b], Append(s.down[c], m), y[c], "greeted")
      <4>1. m.you.id = UserOf[b]
        BY <1>1, <3>1
      <4>2. /\ Stage(s, c) = "come" /\ how = "pending-reset"
            /\ Handshake(how, UserOf[b], Append(s.down[c], m), Tail(x[c]), "greeted")
        BY <1>1, <3>1, <3>4, <3>5, <4>1, HandshakeHello
      <4> QED BY <1>5, <4>2
    <3>7. Stage(s1, c) = "greeted"
      BY <1>8, <3>6 DEF Stage
    <3>8. Answers(page[b].pending, page[b].next_tx, UserOf[b], Append(s.down[c], m), y[c])
      BY <1>1, <1>5, <3>1, <3>5, AnswersTold, AnswersHeard DEF Replies
    <3>9. Informed(how, from, Append(s.down[c], m), "greeted", last)
      BY <1>1, <3>1, <3>5, InformedNothing
    <3> QED BY <1>8, <2>3, <3>3, <3>6, <3>7, <3>8, <3>9 DEF Talk, how, from, last
  <2> QED BY <2>2, <2>3
<1>14. Good(s1, y)
  BY <1>10, <1>11, <1>12, <1>13 DEF Good
<1>15. verb \in Verbs
  BY DEF verb, Verbs
<1>16. t \in Servers /\ Good(t, y) /\ t.committed > s.committed
  BY <1>1, <1>2, <1>3, <1>5, <1>6, <1>8, <1>9, <1>14, <1>15, BroadcastGood
<1> QED
  BY <1>16 DEF t, y

\* A handler that speaks to the one connection it heard something from.
LEMMA OneGood ==
  ASSUME Typed, \A b \in Pages : Numbered(b),
         NEW s \in Servers, NEW t \in Servers,
         NEW x \in [Conns -> Seq(Up)], NEW y \in [Conns -> Seq(Up)],
         NEW c \in Range(s.clients), Good(s, x), Listed(t), Asked(t, y),
         Range(t.clients) \subseteq Range(s.clients), t.lost = s.lost,
         t.committed = s.committed, t.users = s.users,
         \A k \in Conns \ {c} :
           t.down[k] = s.down[k] /\ y[k] = x[k] /\ Stage(t, k) = Stage(s, k),
         \A b \in Pages : Connected(b) /\ Sock(b) = c /\ c \notin s.lost /\ Talk(s, x, b)
                            => Talk(t, y, b)
  PROVE  Good(t, y)
<1> SUFFICES ASSUME NEW b \in Pages
             PROVE  Fresh(t, y, b) /\ (Connected(b) => Talk(t, y, b))
  BY DEF Good
<1>1. Fresh(s, x, b) /\ (Connected(b) => Talk(s, x, b))
  BY DEF Good
<1>2. Fresh(t, y, b)
  BY <1>1, OthersFresh
<1>3. ASSUME Connected(b) PROVE Talk(t, y, b)
  <2>1. Sock(b) \in Conns /\ Sock(b) \notin s.lost
    BY <1>1, <1>3, PageIs DEF Fresh
  <2>2. CASE Sock(b) = c
    BY <1>1, <1>3, <2>1, <2>2
  <2>3. CASE Sock(b) # c
    BY <1>1, <1>3, <2>1, <2>3, OthersTalk
  <2> QED BY <2>2, <2>3
<1> QED
  BY <1>2, <1>3

LEMMA HeardIs ==
  ASSUME NEW x \in [Conns -> Seq(Up)], NEW c \in Conns, x[c] # <<>>
  PROVE  LET y == [x EXCEPT ![c] = Tail(x[c])]
         IN  y \in [Conns -> Seq(Up)] /\ y[c] = Tail(x[c]) /\ \A k \in Conns : k # c => y[k] = x[k]
BY TailIs

LEMMA ClientIs ==
  ASSUME NEW s \in Servers, NEW c \in Range(s.clients)
  PROVE  c \in Conns
BY ServerIs DEF Range

\* What is heard asks no more.
LEMMA AskedHeard ==
  ASSUME NEW s \in Servers, NEW t, NEW x \in [Conns -> Seq(Up)], NEW c \in Range(s.clients),
         x[c] # <<>>, Asked(s, x), Range(t.clients) \subseteq Range(s.clients),
         \A k \in Range(t.clients) : k \in s.greeted => k \in t.greeted
  PROVE  Asked(t, [x EXCEPT ![c] = Tail(x[c])])
<1> DEFINE y == [x EXCEPT ![c] = Tail(x[c])]
<1> SUFFICES ASSUME NEW k \in Range(t.clients), NEW i \in 1..Len(y[k]), y[k][i].verb = "req:reset"
             PROVE  k \in t.greeted
  BY DEF Asked
<1>1. k \in Conns /\ c \in Conns
  BY ClientIs
<1>2. CASE k = c
  <2>1. y[k] = Tail(x[k]) /\ x[k] \in Seq(Up)
    BY <1>1, <1>2
  <2>2. y[k][i] = x[k][i + 1] /\ i + 1 \in 1..Len(x[k])
    BY <1>2, <2>1, TailIs
  <2> QED BY <2>2 DEF Asked
<1>3. CASE k # c
  <2>1. y[k] = x[k]
    BY <1>1, <1>3
  <2> QED BY <2>1 DEF Asked
<1> QED
  BY <1>2, <1>3

LEMMA ResetGood ==
  ASSUME Typed, \A b \in Pages : Numbered(b),
         NEW s \in Servers, NEW x \in [Conns -> Seq(Up)], Good(s, x),
         NEW c \in Range(s.clients), x[c] # <<>>, Head(x[c]).verb = "req:reset"
  PROVE  LET t == Reset(s, c)
         IN  /\ t \in Servers /\ Good(t, [x EXCEPT ![c] = Tail(x[c])])
             /\ t.committed = s.committed /\ t.st = s.st /\ t.lost = s.lost /\ t.clients = s.clients
<1> DEFINE m    == [verb |-> "reset", state |-> s.st, who |-> s.users, at |-> s.committed]
           sent == Send(s, {c}, m)
           t    == Reset(s, c)
           y    == [x EXCEPT ![c] = Tail(x[c])]
<1>1. c \in Conns /\ Listed(s) /\ Asked(s, x)
  BY ClientIs DEF Good
<1>2. m \in Resets
  BY ServerIs DEF Resets
<1>3. m \in Down /\ m.verb = "reset" /\ m.who = s.users /\ m.at = s.committed
  BY <1>2 DEF Down
<1>4. t = [sent EXCEPT !.synced = s.synced \cup {c}]
  BY DEF Reset
<1>5. y \in [Conns -> Seq(Up)] /\ y[c] = Tail(x[c]) /\ \A k \in Conns : k # c => y[k] = x[k]
  BY <1>1, HeardIs
<1>6. c \in s.greeted
  <2>1. x[c] \in Seq(Up) /\ Head(x[c]) = x[c][1] /\ 1 \in 1..Len(x[c])
    BY <1>1, TailIs
  <2> QED BY <1>1, <2>1 DEF Asked
<1> HIDE DEF m
<1>7. /\ sent \in Servers /\ SameClients(s, sent) /\ sent.users = s.users /\ sent.st = s.st
      /\ sent.committed = s.committed
      /\ \A k \in Conns : sent.down[k] = IF k \in {c} \ s.lost THEN Append(s.down[k], m) ELSE s.down[k]
  BY <1>3, SendIs
<1> HIDE DEF sent, t, y
<1>8. /\ t \in Servers /\ t.clients = s.clients /\ t.greeted = s.greeted
      /\ t.synced = s.synced \cup {c} /\ t.lost = s.lost /\ t.st = s.st
      /\ t.committed = s.committed /\ t.users = s.users
      /\ \A k \in Conns : t.down[k] = IF k \in {c} \ s.lost THEN Append(s.down[k], m) ELSE s.down[k]
  BY <1>1, <1>4, <1>7 DEF Servers, SameClients
<1>9. Listed(t)
  BY <1>1, <1>6, <1>8 DEF Listed
<1>10. Asked(t, y)
  BY <1>1, <1>8, AskedHeard DEF y
<1>11. \A k \in Conns \ {c} :
         t.down[k] = s.down[k] /\ y[k] = x[k] /\ Stage(t, k) = Stage(s, k)
  BY <1>5, <1>8 DEF Stage
<1>12. ASSUME NEW b \in Pages, Connected(b), Sock(b) = c, c \notin s.lost, Talk(s, x, b)
       PROVE  Talk(t, y, b)
  <2> DEFINE how == page[b].status
             from == View(seen[b], page[b].users)
             last == View(s.committed, s.users)
  <2>1. /\ how \in {"pending-reset", "sync"} /\ (how = "sync" => from \in Views)
        /\ last \in Views /\ x[c] \in Seq(Up) /\ s.down[c] \in Seq(Down)
    BY <1>1, <1>12, PageIs, ServerIs
  <2>2. t.down[c] = Append(s.down[c], m) /\ Stage(t, c) = "synced"
    BY <1>1, <1>8, <1>12 DEF Stage
  <2>3. Stage(s, c) \in {"come", "greeted", "synced"}
    BY <1>1, StageIs
  <2>4. /\ Handshake(how, UserOf[b], s.down[c], x[c], Stage(s, c))
        /\ Answers(page[b].pending, page[b].next_tx, UserOf[b], s.down[c], x[c])
    BY <1>12 DEF Talk
  <2>5. last = View(m.at, m.who)
    BY <1>3
  <2> HIDE DEF how, from, last
  <2>6. /\ how = "pending-reset" /\ s.down[c] = <<>>
        /\ Handshake(how, UserOf[b], Append(s.down[c], m), Tail(x[c]), "synced")
    BY <1>3, <2>1, <2>3, <2>4, HandshakeReset
  <2>7. Answers(page[b].pending, page[b].next_tx, UserOf[b], Append(s.down[c], m), Tail(x[c]))
    BY <1>3, <2>1, <2>4, AnswersTold, AnswersHeard DEF Replies
  <2>8. Informed(how, from, Append(s.down[c], m), "synced", last)
    BY <1>3, <2>1, <2>5, <2>6, InformedReset
  <2> QED BY <1>5, <1>8, <1>12, <2>2, <2>6, <2>7, <2>8 DEF Talk, how, from, last
<1>13. Good(t, y)
  BY <1>5, <1>8, <1>9, <1>10, <1>11, <1>12, OneGood
<1> QED
  BY <1>8, <1>13 DEF t, y

-----------------------------------------------------------------------------
(* Those who leave *)

LEMMA SplicedIs ==
  ASSUME NEW clients \in Seq(Conns), NEW c \in Range(clients)
  PROVE  LET rest == Spliced(clients, c)
         IN  /\ rest \in Seq(Conns) /\ Len(rest) = Len(clients) - 1
             /\ Range(rest) \subseteq Range(clients)
             /\ \A k \in Range(clients) : k # c => k \in Range(rest)
             /\ IsInjective(clients) => IsInjective(rest) /\ c \notin Range(rest)
<1> DEFINE i == CHOOSE i \in DOMAIN clients : clients[i] = c
<1>1. i \in DOMAIN clients /\ clients[i] = c
  BY DEF Range
<1>2. Spliced(clients, c) = RemoveAt(clients, i)
  BY DEF Spliced
<1> HIDE DEF i
<1> QED
  BY <1>1, <1>2, ShortenedBy

\* sent is s after its bye to c, if c can still be told.
Parted(s, sent, c) ==
  /\ SameClients(s, sent) /\ sent.users = s.users /\ sent.st = s.st
  /\ sent.committed = s.committed
  /\ \A k \in Conns : sent.down[k] =
       IF k = c /\ c \notin s.lost THEN Append(s.down[k], [verb |-> "bye"]) ELSE s.down[k]

LEMMA LeaveGood ==
  ASSUME Typed, \A b \in Pages : Numbered(b),
         NEW s \in Servers, NEW x \in [Conns -> Seq(Up)], Good(s, x), NEW c \in Range(s.clients),
         NEW sent \in Servers, Parted(s, sent, c)
  PROVE  LET t == Dispose(sent, c)
         IN  /\ t \in Servers /\ Good(t, x) /\ t.lost = s.lost /\ t.committed >= s.committed
             /\ Len(t.clients) = Len(s.clients) - 1 /\ c \notin Range(t.clients)
             /\ Range(t.clients) \subseteq Range(s.clients)
<1> DEFINE m == [verb |-> "bye"]
<1>0. /\ SameClients(s, sent) /\ sent.users = s.users /\ sent.st = s.st
      /\ sent.committed = s.committed
      /\ \A k \in Conns : sent.down[k] =
           IF k = c /\ c \notin s.lost THEN Append(s.down[k], m) ELSE s.down[k]
      /\ m \in Down /\ m.verb = "bye"
  BY DEF Parted, Down, Byes
<1> HIDE DEF m
<1> DEFINE left == Spliced(s.clients, c)
           rest == [sent EXCEPT !.clients = left, !.synced = sent.synced \ {c},
                                !.greeted = sent.greeted \ {c}]
           who  == [id |-> Who(c), nick |-> 0]
           t    == Dispose(sent, c)
<1>1. c \in Conns /\ Listed(s) /\ Asked(s, x) /\ s.clients \in Seq(Conns)
  BY ClientIs, ServerIs DEF Good
<1>2. /\ left \in Seq(Conns) /\ Len(left) = Len(s.clients) - 1 /\ Range(left) \subseteq Range(s.clients)
      /\ \A k \in Range(s.clients) : k # c => k \in Range(left)
      /\ IsInjective(left) /\ c \notin Range(left)
  BY <1>1, SplicedIs DEF Listed
<1>3. t = IF c \in sent.greeted THEN Broadcast(rest, c, "user:part", who) ELSE rest
  BY <1>0 DEF Dispose, SameClients
<1> HIDE DEF left
<1>4. /\ rest \in Servers /\ rest.clients = left /\ rest.synced = s.synced \ {c}
      /\ rest.greeted = s.greeted \ {c} /\ rest.lost = s.lost /\ rest.users = s.users
      /\ rest.committed = s.committed
      /\ \A k \in Conns : rest.down[k] =
           IF k = c /\ c \notin s.lost THEN Append(s.down[k], m) ELSE s.down[k]
  BY <1>0, <1>2 DEF Servers, SameClients
<1> HIDE DEF rest, t
<1>5. Listed(rest)
  BY <1>1, <1>2, <1>4 DEF Listed
<1>6. Asked(rest, x)
  BY <1>1, <1>2, <1>4 DEF Asked
<1>7. \A k \in Conns \ {c} : rest.down[k] = s.down[k] /\ Stage(rest, k) = Stage(s, k)
  BY <1>2, <1>4 DEF Stage
<1>8. ASSUME NEW b \in Pages, Connected(b), Sock(b) = c, c \notin s.lost, Talk(s, x, b)
      PROVE  Talk(rest, x, b)
  <2> DEFINE how == page[b].status
             from == View(seen[b], page[b].users)
             last == View(s.committed, s.users)
  <2>1. /\ how \in {"pending-reset", "sync"} /\ (how = "sync" => from \in Views)
        /\ last \in Views /\ x[c] \in Seq(Up) /\ s.down[c] \in Seq(Down)
    BY <1>1, <1>8, PageIs, ServerIs
  <2>2. rest.down[c] = Append(s.down[c], m) /\ Stage(rest, c) = "gone"
    BY <1>1, <1>2, <1>4, <1>8 DEF Stage
  <2>3. Stage(s, c) \in {"come", "greeted", "synced"}
    BY <1>1, StageIs
  <2>4. /\ Handshake(how, UserOf[b], s.down[c], x[c], Stage(s, c))
        /\ Answers(page[b].pending, page[b].next_tx, UserOf[b], s.down[c], x[c])
        /\ Informed(how, from, s.down[c], Stage(s, c), last)
    BY <1>8 DEF Talk
  <2> HIDE DEF how, from, last
  <2>5. Handshake(how, UserOf[b], Append(s.down[c], m), x[c], "gone")
    BY <1>0, <2>1, <2>3, <2>4, HandshakeBye
  <2>6. Answers(page[b].pending, page[b].next_tx, UserOf[b], Append(s.down[c], m), x[c])
    BY <1>0, <2>1, <2>4, AnswersTold DEF Replies
  <2>7. Informed(how, from, Append(s.down[c], m), "gone", last)
    BY <1>0, <2>1, <2>4, InformedNothing
  <2> QED BY <1>4, <1>8, <2>2, <2>5, <2>6, <2>7 DEF Talk, how, from, last
<1>9. Good(rest, x)
  BY <1>2, <1>4, <1>5, <1>6, <1>7, <1>8, OneGood
<1>10. CASE c \notin sent.greeted
  BY <1>2, <1>3, <1>4, <1>9, <1>10, ServerIs DEF t
<1>11. CASE c \in sent.greeted
  <2>1. who \in Whos /\ "user:part" \in Verbs
    BY <1>1, ConnIs DEF Whos, Verbs
  <2>2. rest.users = UsersAfter(rest.users, Announcement("user:part", who)) /\ SameClients(rest, rest)
    BY DEF UsersAfter, Announcement, SameClients
  <2> HIDE DEF who
  <2>3. LET u == Broadcast(rest, c, "user:part", who)
        IN  u \in Servers /\ Good(u, x) /\ SameClients(rest, u) /\ u.committed > rest.committed
    BY <1>4, <1>9, <2>1, <2>2, BroadcastGood
  <2>4. t \in Servers /\ Good(t, x) /\ SameClients(rest, t) /\ t.committed > s.committed
    BY <1>3, <1>4, <1>11, <2>3
  <2>5. t.committed \in Nat /\ s.committed \in Nat
    BY <2>4, ServerIs
  <2> QED BY <1>2, <1>4, <2>4, <2>5 DEF SameClients, t
<1> QED
  BY <1>10, <1>11

LEMMA DisposeGood ==
  ASSUME Typed, \A b \in Pages : Numbered(b),
         NEW s \in Servers, NEW x \in [Conns -> Seq(Up)], Good(s, x), NEW c \in Range(s.clients),
         c \in s.lost
  PROVE  LET t == Dispose(s, c)
         IN  /\ t \in Servers /\ Good(t, x) /\ t.committed >= s.committed
             /\ c \notin Range(t.clients)
<1>1. Parted(s, s, c)
  BY DEF Parted, SameClients
<1> QED
  BY <1>1, LeaveGood

LEMMA ByeGood ==
  ASSUME Typed, \A b \in Pages : Numbered(b),
         NEW s \in Servers, NEW x \in [Conns -> Seq(Up)], Good(s, x), NEW c \in Range(s.clients)
  PROVE  LET t == Bye(s, c)
         IN  /\ t \in Servers /\ Good(t, x) /\ t.lost = s.lost /\ t.committed >= s.committed
             /\ Len(t.clients) = Len(s.clients) - 1
             /\ Range(t.clients) \subseteq Range(s.clients)
<1> DEFINE sent == Send(s, {c}, [verb |-> "bye"])
<1>1. [verb |-> "bye"] \in Down
  BY DEF Down, Byes
<1>2. sent \in Servers /\ Parted(s, sent, c)
  BY <1>1, SendIs DEF Parted
<1>3. Bye(s, c) = Dispose(sent, c)
  BY DEF Bye
<1> HIDE DEF sent
<1>4. LET t == Dispose(sent, c)
      IN  /\ t \in Servers /\ Good(t, x) /\ t.lost = s.lost /\ t.committed >= s.committed
          /\ Len(t.clients) = Len(s.clients) - 1
          /\ Range(t.clients) \subseteq Range(s.clients)
  BY <1>2, LeaveGood
<1> QED
  BY <1>3, <1>4

\* Nobody hears what is on its way from those who are no clients any more.
LEMMA ClearGood ==
  ASSUME NEW s \in Servers, NEW x, NEW y, Good(s, x),
         Typed, \A b \in Pages : Numbered(b),
         \A k \in Conns : y[k] = x[k] \/ (y[k] = <<>> /\ k \notin Range(s.clients))
  PROVE  Good(s, y)
<1>1. Listed(s) /\ Asked(s, x)
  BY DEF Good
<1>2. Asked(s, y)
  BY <1>1, ClientIs DEF Asked
<1> SUFFICES ASSUME NEW b \in Pages
             PROVE  Fresh(s, y, b) /\ (Connected(b) => Talk(s, y, b))
  BY <1>1, <1>2 DEF Good
<1>3. Fresh(s, x, b) /\ (Connected(b) => Talk(s, x, b))
  BY DEF Good
<1>4. Fresh(s, y, b)
  BY <1>3 DEF Fresh, Conns
<1>5. ASSUME Connected(b) PROVE Talk(s, y, b)
  <2>1. Sock(b) \in Conns
    BY <1>5, PageIs
  <2>2. CASE y[Sock(b)] = x[Sock(b)]
    BY <1>3, <1>5, <2>2 DEF Talk
  <2>3. CASE y[Sock(b)] = <<>> /\ Sock(b) \notin Range(s.clients)
    <3>1. Stage(s, Sock(b)) = "gone"
      BY <1>1, <2>3, StageIs
    <3>2. /\ Handshake(page[b].status, UserOf[b], s.down[Sock(b)], x[Sock(b)], "gone")
          /\ Answers(page[b].pending, page[b].next_tx, UserOf[b], s.down[Sock(b)], x[Sock(b)])
      BY <1>3, <1>5, <3>1 DEF Talk
    <3>3. Handshake(page[b].status, UserOf[b], s.down[Sock(b)], <<>>, "gone")
      BY <3>2 DEF Handshake
    <3>4. Answers(page[b].pending, page[b].next_tx, UserOf[b], s.down[Sock(b)], <<>>)
      BY <3>2, AnswersCleared
    <3> QED BY <1>3, <1>5, <2>3, <3>1, <3>3, <3>4 DEF Talk
  <2> QED BY <2>1, <2>2, <2>3
<1> QED
  BY <1>4, <1>5

\* destroy: its recursion has the value that its equation says.
LEMMA DestroyedIs ==
  ASSUME NEW s, Len(s.clients) \in Nat
  PROVE  \E left :
           /\ left = [n \in 0..Len(s.clients) |->
                        IF n = 0 THEN [s EXCEPT !.zombie = TRUE]
                        ELSE Bye(left[n - 1], left[n - 1].clients[1])]
           /\ Destroyed(s) = left[Len(s.clients)]
<1> DEFINE first    == [s EXCEPT !.zombie = TRUE]
           next(t)  == Bye(t, t.clients[1])
           Up_to(f, n) == f = [i \in 0..n |-> IF i = 0 THEN first ELSE next(f[i - 1])]
           T == {n \in Nat : \E f : Up_to(f, n)}
<1>1. 0 \in T
  <2> DEFINE f == [i \in 0..0 |-> first]
  <2>1. Up_to(f, 0)
    <3> HIDE DEF first, next
    <3> QED OBVIOUS
  <2> QED BY <2>1
<1>2. ASSUME NEW n \in Nat, n \in T PROVE n + 1 \in T
  <2>1. PICK f : Up_to(f, n)
    BY <1>2
  <2> DEFINE g == [i \in 0..(n + 1) |-> IF i = n + 1 THEN next(f[n]) ELSE f[i]]
  <2>2. Up_to(g, n + 1)
    <3> HIDE DEF first, next
    <3>1. \A i \in 0..n : f[i] = IF i = 0 THEN first ELSE next(f[i - 1])
      BY <2>1
    <3>2. ASSUME NEW i \in 0..(n + 1)
          PROVE  g[i] = IF i = 0 THEN first ELSE next(g[i - 1])
      <4>1. CASE i = n + 1
        BY <4>1
      <4>2. CASE i # n + 1
        <5>1. i \in 0..n /\ (i # 0 => i - 1 \in 0..n /\ g[i - 1] = f[i - 1]) /\ g[i] = f[i]
          BY <4>2
        <5> QED BY <3>1, <5>1
      <4> QED BY <4>1, <4>2
    <3>3. g = [i \in 0..(n + 1) |-> g[i]]
      OBVIOUS
    <3> HIDE DEF g
    <3> QED BY <3>2, <3>3
  <2> HIDE DEF g, Up_to
  <2> QED BY <2>2
<1>3. Len(s.clients) \in T
  <2> HIDE DEF T
  <2> QED BY <1>1, <1>2, Induct
<1>4. \E f : Up_to(f, Len(s.clients))
  BY <1>3
<1>5. Destroyed(s) = (CHOOSE f : Up_to(f, Len(s.clients)))[Len(s.clients)]
  BY DEF Destroyed
<1> HIDE DEF Up_to
<1>6. Up_to(CHOOSE f : Up_to(f, Len(s.clients)), Len(s.clients))
  BY <1>4
<1> QED
  BY <1>5, <1>6 DEF Up_to

LEMMA DestroyedGood ==
  ASSUME Typed, \A b \in Pages : Numbered(b),
         NEW s \in Servers, NEW x \in [Conns -> Seq(Up)], Good(s, x)
  PROVE  LET t == Destroyed(s)
         IN  /\ t \in Servers /\ Good(t, x) /\ t.lost = s.lost /\ t.committed >= s.committed
             /\ Range(t.clients) = {}
<1> DEFINE N == Len(s.clients)
           first == [s EXCEPT !.zombie = TRUE]
<1>1. N \in Nat /\ s.committed \in Nat
  BY ServerIs
<1>2. PICK left :
        /\ left = [n \in 0..N |-> IF n = 0 THEN first ELSE Bye(left[n - 1], left[n - 1].clients[1])]
        /\ Destroyed(s) = left[N]
  BY <1>1, DestroyedIs
<1>3. left[0] = first /\ \A n \in 1..N : left[n] = Bye(left[n - 1], left[n - 1].clients[1])
  <2> HIDE DEF first
  <2>1. \A n \in 0..N : left[n] = IF n = 0 THEN first ELSE Bye(left[n - 1], left[n - 1].clients[1])
    BY <1>2
  <2> HIDE DEF N
  <2> QED BY <1>1, <2>1
<1>4. /\ first \in Servers /\ first.clients = s.clients /\ first.lost = s.lost
      /\ first.committed = s.committed /\ first.greeted = s.greeted /\ first.synced = s.synced
      /\ first.users = s.users /\ first.down = s.down
  BY DEF Servers
<1> HIDE DEF first
<1>5. Good(first, x)
  <2>1. \A c : Stage(first, c) = Stage(s, c)
    BY <1>4 DEF Stage
  <2> QED BY <1>4, <2>1 DEF Good, Listed, Asked, Fresh, Talk
<1> DEFINE Holds(n) ==
             /\ left[n] \in Servers /\ Good(left[n], x) /\ left[n].lost = s.lost
             /\ left[n].committed >= s.committed /\ Len(left[n].clients) = N - n
           T == {n \in Nat : n <= N => Holds(n)}
<1>6. 0 \in T
  BY <1>1, <1>3, <1>4, <1>5
<1>7. ASSUME NEW n \in Nat, n \in T PROVE n + 1 \in T
  <2> SUFFICES ASSUME n + 1 <= N PROVE Holds(n + 1)
    OBVIOUS
  <2> DEFINE c == left[n].clients[1]
  <2>1. Holds(n)
    BY <1>1, <1>7
  <2>2. left[n + 1] = Bye(left[n], c)
    BY <1>1, <1>3
  <2>3. c \in Range(left[n].clients)
    <3>1. left[n].clients \in Seq(Conns) /\ Len(left[n].clients) >= 1
      BY <1>1, <2>1, ServerIs
    <3> QED BY <3>1 DEF Range
  <2> HIDE DEF c
  <2>4. LET t == Bye(left[n], c)
        IN  /\ t \in Servers /\ Good(t, x) /\ t.lost = left[n].lost
            /\ t.committed >= left[n].committed
            /\ Len(t.clients) = Len(left[n].clients) - 1
    BY <2>1, <2>3, ByeGood
  <2>5. left[n + 1].committed \in Nat /\ left[n].committed \in Nat
    BY <2>1, <2>2, <2>4, ServerIs
  <2> QED BY <1>1, <2>1, <2>2, <2>4, <2>5
<1>8. N \in T
  <2> HIDE DEF T
  <2> QED BY <1>1, <1>6, <1>7, Induct
<1>9. Holds(N)
  BY <1>1, <1>8
<1>10. Range(left[N].clients) = {}
  <2>1. left[N].clients \in Seq(Conns) /\ Len(left[N].clients) = 0
    BY <1>1, <1>9, ServerIs
  <2> QED BY <2>1 DEF Range
<1> QED
  BY <1>2, <1>9, <1>10

-----------------------------------------------------------------------------
(* update *)

\* Who asks for something is synced, and has been told so.
LEMMA AskingIs ==
  ASSUME NEW how \in {"pending-reset", "sync"}, NEW o, NEW d \in Seq(Down), NEW u \in Seq(Up),
         NEW stage \in {"come", "greeted", "synced"}, u # <<>>, Asks(Head(u)),
         Handshake(how, o, d, u, stage)
  PROVE  how = "sync" /\ stage = "synced"
<1>1. Head(u) = u[1] /\ 1 \in 1..Len(u) /\ u[1].verb = "req:update"
  BY TailIs DEF Asks
<1>2. how # "pending-reset"
  BY <1>1 DEF Handshake
<1> QED
  BY <1>2 DEF Handshake

LEMMA RejectedGood ==
  ASSUME Typed, \A b \in Pages : Numbered(b),
         NEW s \in Servers, NEW x \in [Conns -> Seq(Up)], Good(s, x),
         NEW c \in Range(s.clients), x[c] # <<>>, Asks(Head(x[c]))
  PROVE  LET t == Rejected(s, c, Head(x[c]).tx)
         IN  /\ t \in Servers /\ Good(t, [x EXCEPT ![c] = Tail(x[c])])
             /\ SameClients(s, t) /\ t.committed = s.committed /\ t.st = s.st
<1> DEFINE m == [verb |-> "reject", tx |-> Head(x[c]).tx]
           t == Rejected(s, c, Head(x[c]).tx)
           y == [x EXCEPT ![c] = Tail(x[c])]
<1>1. c \in Conns /\ Listed(s) /\ Asked(s, x) /\ x[c] \in Seq(Up)
  BY ClientIs DEF Good
<1>2. Head(x[c]) \in Up /\ Head(x[c]).tx \in Nat
  BY <1>1, TailIs, UpIs DEF Asks
<1>3. m \in Down /\ m.verb = "reject" /\ m.tx = Head(x[c]).tx
  BY <1>2 DEF Down, Rejects
<1>4. t = IF c \in s.synced THEN Send(s, {c}, m) ELSE s
  BY DEF Rejected
<1>5. y \in [Conns -> Seq(Up)] /\ y[c] = Tail(x[c]) /\ \A k \in Conns : k # c => y[k] = x[k]
  BY <1>1, HeardIs
<1> HIDE DEF m, t, y
<1>6. /\ t \in Servers /\ SameClients(s, t) /\ t.users = s.users /\ t.st = s.st
      /\ t.committed = s.committed
      /\ \A k \in Conns : t.down[k] =
           IF k = c /\ c \in s.synced \ s.lost THEN Append(s.down[k], m) ELSE s.down[k]
  <2>1. CASE c \in s.synced
    <3>1. LET u == Send(s, {c}, m)
          IN  /\ u \in Servers /\ SameClients(s, u) /\ u.users = s.users /\ u.st = s.st
              /\ u.committed = s.committed
              /\ \A k \in Conns : u.down[k] =
                   IF k \in {c} \ s.lost THEN Append(s.down[k], m) ELSE s.down[k]
      BY <1>3, SendIs
    <3>2. t = Send(s, {c}, m)
      BY <1>4, <2>1
    <3> QED BY <2>1, <3>1, <3>2
  <2>2. CASE c \notin s.synced
    BY <1>4, <2>2 DEF SameClients
  <2> QED BY <2>1, <2>2
<1>7. Listed(t) /\ \A k : Stage(t, k) = Stage(s, k)
  BY <1>1, <1>6, SameListed
<1>8. Asked(t, y)
  BY <1>1, <1>6, AskedHeard DEF y, SameClients
<1>9. ASSUME NEW b \in Pages, Connected(b), Sock(b) = c, c \notin s.lost, Talk(s, x, b)
      PROVE  Talk(t, y, b)
  <2> DEFINE how == page[b].status
             from == View(seen[b], page[b].users)
             last == View(s.committed, s.users)
  <2>1. /\ how \in {"pending-reset", "sync"} /\ (how = "sync" => from \in Views)
        /\ last \in Views /\ s.down[c] \in Seq(Down)
    BY <1>1, <1>9, PageIs, ServerIs
  <2>2. Stage(s, c) \in {"come", "greeted", "synced"} /\ (Stage(s, c) = "synced" <=> c \in s.synced)
    BY <1>1, StageIs
  <2>3. /\ Handshake(how, UserOf[b], s.down[c], x[c], Stage(s, c))
        /\ Answers(page[b].pending, page[b].next_tx, UserOf[b], s.down[c], x[c])
        /\ Informed(how, from, s.down[c], Stage(s, c), last)
    BY <1>9 DEF Talk
  <2> HIDE DEF how, from, last
  <2>4. how = "sync" /\ Stage(s, c) = "synced" /\ c \in s.synced
    BY <1>1, <2>1, <2>2, <2>3, AskingIs
  <2>5. t.down[c] = Append(s.down[c], m)
    BY <1>1, <1>6, <1>9, <2>4
  <2>6. Handshake(how, UserOf[b], Append(s.down[c], m), Tail(x[c]), "synced")
    BY <1>1, <1>3, <2>1, <2>3, <2>4, TailIs, HandshakeReplies
  <2>7. Answers(page[b].pending, page[b].next_tx, UserOf[b], Append(s.down[c], m), Tail(x[c]))
    BY <1>1, <1>3, <2>1, <2>3, AnswersOwn
  <2>8. Informed(how, from, Append(s.down[c], m), "synced", last)
    BY <1>3, <2>1, <2>3, <2>4, InformedNothing
  <2> QED BY <1>5, <1>6, <1>7, <1>9, <2>4, <2>5, <2>6, <2>7, <2>8 DEF Talk, how, from, last
<1>10. Good(t, y)
  <2>1. \A k \in Conns \ {c} :
          t.down[k] = s.down[k] /\ y[k] = x[k] /\ Stage(t, k) = Stage(s, k)
    BY <1>5, <1>6, <1>7
  <2>2. Range(t.clients) \subseteq Range(s.clients) /\ t.lost = s.lost
    BY <1>6 DEF SameClients
  <2> QED BY <1>5, <1>6, <1>7, <1>8, <1>9, <2>1, <2>2, OneGood
<1> QED
  BY <1>6, <1>10 DEF t, y

LEMMA AcceptedGood ==
  ASSUME Typed, \A b \in Pages : Numbered(b),
         NEW s \in Servers, NEW x \in [Conns -> Seq(Up)], Good(s, x),
         NEW c \in Range(s.clients), x[c] # <<>>, Asks(Head(x[c])),
         NEW e \in Larp(s.st, Head(x[c]).intent)
  PROVE  LET t == Committed(s, c, Head(x[c]).tx, e)
         IN  /\ t \in Servers /\ Good(t, [x EXCEPT ![c] = Tail(x[c])])
             /\ SameClients(s, t) /\ t.committed = s.committed + 1
<1> DEFINE m == Head(x[c])
           t == Committed(s, c, m.tx, e)
           y == [x EXCEPT ![c] = Tail(x[c])]
           msgs == News(s, Shown(e), c, m.tx)
<1>1. c \in Conns /\ Listed(s) /\ Asked(s, x) /\ x[c] \in Seq(Up)
  BY ClientIs DEF Good
<1>2. m \in Up /\ m.tx \in Nat /\ m.intent \in Intents /\ m.tx \in Nat \cup {NULL}
  BY <1>1, TailIs, UpIs DEF Asks
<1> HIDE DEF m
<1>3. /\ e \in Effects /\ e.p = m.intent.p /\ Commit(s.st, e) \in States
      /\ e.kind \in Predictable <=> m.intent.kind \in Predictable
  <2>1. Allowed(s.st, m.intent) /\ e \in EffectsOf(s.st, m.intent)
    BY DEF Larp, m
  <2> QED BY <1>2, <2>1, ServerIs, EffectsTyped
<1>4. y \in [Conns -> Seq(Up)] /\ y[c] = Tail(x[c]) /\ \A k \in Conns : k # c => y[k] = x[k]
  BY <1>1, HeardIs
<1>5. t \in Servers /\ Spread(s, t, msgs) /\ t.users = s.users
  BY <1>2, <1>3, CommittedIs
<1> HIDE DEF t, y
<1>6. ASSUME NEW k \in Conns
      PROVE  /\ msgs[k] \in Down /\ msgs[k].verb = "update"
             /\ msgs[k].cmd.kind = "engine" /\ msgs[k].cmd.effect = EffectFor(e, Who(k))
             /\ msgs[k].at = s.committed + 1
             /\ k = c => msgs[k].tx = m.tx
             /\ k # c => msgs[k].tx = NULL
  BY <1>2, <1>3, ShownIs, NewsIs
<1> HIDE DEF msgs
<1>7. t.committed = s.committed + 1 /\ SameClients(s, t)
  BY <1>5 DEF Spread
<1>8. \A k \in Conns : Tells(View(s.committed, s.users), msgs[k], View(t.committed, t.users))
  BY <1>5, <1>6, <1>7 DEF Tells, View
<1>9. Listed(t)
  BY <1>1, <1>7, SameListed
<1>10. Asked(t, y)
  BY <1>1, <1>7, AskedHeard DEF y, SameClients
<1>11. ASSUME NEW b \in Pages
       PROVE  Fresh(t, y, b) /\ (Connected(b) => Talk(t, y, b))
  <2>1. Fresh(s, x, b) /\ (Connected(b) => Talk(s, x, b))
    BY DEF Good
  <2>2. Fresh(t, x, b)
    BY <1>1, <1>5, <2>1, SpreadFresh
  <2>3. Fresh(t, y, b)
    <3>1. \A k \in 1..(MaxEvents + 1) : k > page[b].conns => <<b, k>> \in Conns /\ <<b, k>> # c
      BY <1>7, <2>2 DEF Fresh, Conns, SameClients
    <3> QED BY <1>4, <2>2, <3>1 DEF Fresh
  <2>4. ASSUME Connected(b), Sock(b) # c
        PROVE  Talk(t, y, b)
    <3>1. Sock(b) \in Conns
      BY <2>4, PageIs
    <3>2. Talk(t, x, b)
      BY <1>1, <1>5, <1>6, <1>8, <2>1, <2>4, <3>1, SpreadTalk
    <3>3. y[Sock(b)] = x[Sock(b)]
      BY <1>4, <2>4, <3>1
    <3> QED BY <3>2, <3>3 DEF Talk
  <2>5. ASSUME Connected(b), Sock(b) = c
        PROVE  Talk(t, y, b)
    <3>1. m.intent.p = UserOf[b] /\ Who(c) = UserOf[b]
      <4>1. m = x[c][1] /\ 1 \in 1..Len(x[c]) /\ Asks(m)
        BY <1>1, TailIs DEF m
      <4>2. Answers(page[b].pending, page[b].next_tx, UserOf[b], s.down[c], x[c])
        BY <2>1, <2>5 DEF Talk
      <4>3. Who(c) = UserOf[b]
        BY <2>5, PageIs
      <4> QED BY <4>1, <4>2, <4>3 DEF Answers
    <3>2. msgs[c].cmd.effect = e
      BY <1>1, <1>3, <1>6, <3>1, EffectForTyped
    <3>3. msgs[c] \in Down /\ msgs[c].verb = "update" /\ msgs[c].cmd.kind = "engine" /\ msgs[c].tx = m.tx
      BY <1>1, <1>6
    <3>4. /\ msgs[c].cmd.effect.kind \in Predictable <=> m.intent.kind \in Predictable
          /\ Tells(View(s.committed, s.users), msgs[c], View(t.committed, t.users))
      BY <1>1, <1>3, <1>8, <3>2
    <3> QED BY <1>1, <1>4, <1>5, <2>1, <2>5, <3>3, <3>4, SpreadAnswer DEF m
  <2> QED BY <2>1, <2>3, <2>4, <2>5
<1>12. Good(t, y)
  BY <1>9, <1>10, <1>11 DEF Good
<1> QED
  BY <1>5, <1>7, <1>12 DEF t, y, m

LEMMA UpdatedGood ==
  ASSUME Typed, \A b \in Pages : Numbered(b),
         NEW s \in Servers, NEW x \in [Conns -> Seq(Up)], Good(s, x),
         NEW c \in Range(s.clients), x[c] # <<>>, Asks(Head(x[c])),
         NEW t \in Updated(s, c, Head(x[c]).tx, Head(x[c]).intent)
  PROVE  /\ t \in Servers /\ Good(t, [x EXCEPT ![c] = Tail(x[c])])
         /\ SameClients(s, t) /\ t.committed >= s.committed
<1>1. s.committed \in Nat
  BY ServerIs
<1>2. CASE Larp(s.st, Head(x[c]).intent) = {}
  <2>1. t = Rejected(s, c, Head(x[c]).tx)
    BY <1>2 DEF Updated
  <2>2. LET r == Rejected(s, c, Head(x[c]).tx)
        IN  /\ r \in Servers /\ Good(r, [x EXCEPT ![c] = Tail(x[c])])
            /\ SameClients(s, r) /\ r.committed = s.committed
    BY RejectedGood
  <2> QED BY <1>1, <2>1, <2>2
<1>3. CASE Larp(s.st, Head(x[c]).intent) # {}
  <2>1. PICK e \in Larp(s.st, Head(x[c]).intent) : t = Committed(s, c, Head(x[c]).tx, e)
    BY <1>3 DEF Updated
  <2>2. LET r == Committed(s, c, Head(x[c]).tx, e)
        IN  /\ r \in Servers /\ Good(r, [x EXCEPT ![c] = Tail(x[c])])
            /\ SameClients(s, r) /\ r.committed = s.committed + 1
    BY AcceptedGood
  <2> QED BY <1>1, <2>1, <2>2
<1> QED
  BY <1>2, <1>3

-----------------------------------------------------------------------------
(* What the pages do *)

\* Another message to the server that asks for nothing.
LEMMA AnswersSaid ==
  ASSUME NEW pending, NEW next_tx, NEW o, NEW d, NEW u \in Seq(Up), NEW m \in Up,
         ~Asks(m), Answers(pending, next_tx, o, d, u)
  PROVE  Answers(pending, next_tx, o, d, Append(u, m))
<1> DEFINE v == Append(u, m)
<1>1. /\ Len(u) \in Nat /\ Len(v) = Len(u) + 1
      /\ \A i \in 1..Len(u) : v[i] = u[i]
      /\ v[Len(u) + 1] = m
  BY AppendIs
<1> HIDE DEF v
<1>2. \A i \in 1..Len(v) : Asks(v[i]) => i \in 1..Len(u) /\ v[i] = u[i]
  BY <1>1
<1> QED
  BY <1>2 DEF Answers, v

LEMMA SocketIs ==
  ASSUME Inv, NEW b \in Pages, Connected(b)
  PROVE  /\ Sock(b) \in Conns /\ Sock(b) = <<b, page[b].conns>> /\ Sock(b) \notin server.lost
         /\ page[b].sock = page[b].conns
         /\ page[b].status \in {"pending-reset", "sync"}
         /\ server.down[Sock(b)] \in Seq(Down) /\ up[Sock(b)] \in Seq(Up)
         /\ Stage(server, Sock(b)) \in {"gone", "come", "greeted", "synced"}
         /\ Handshake(page[b].status, UserOf[b], server.down[Sock(b)], up[Sock(b)],
                      Stage(server, Sock(b)))
         /\ Answers(page[b].pending, page[b].next_tx, UserOf[b], server.down[Sock(b)], up[Sock(b)])
         /\ Informed(page[b].status, View(seen[b], page[b].users), server.down[Sock(b)],
                     Stage(server, Sock(b)), View(server.committed, server.users))
<1>1. Sock(b) \in Conns /\ page[b].status \in {"pending-reset", "sync"}
  BY PageIs DEF Inv
<1>2. server.down[Sock(b)] \in Seq(Down) /\ up[Sock(b)] \in Seq(Up)
  BY <1>1, ServerIs DEF Inv, Typed
<1>3. Talk(server, up, b) /\ Sock(b) \notin server.lost
  BY DEF Inv, Good, Fresh
<1>4. Sock(b) = <<b, page[b].conns>> /\ page[b].sock = page[b].conns
  BY DEF Inv, Numbered, Connected, Sock
<1> QED
  BY <1>1, <1>2, <1>3, <1>4, StageIs DEF Talk, Inv, Good

\* What one page and its connection do leaves the others as they are.
LEMMA OwnGood ==
  ASSUME Inv, NEW b \in Pages,
         \A a \in Pages \ {b} : page'[a] = page[a] /\ seen'[a] = seen[a],
         \A k \in Conns : k[1] # b =>
           /\ server'.down[k] = server.down[k] /\ up'[k] = up[k]
           /\ k \in server'.lost <=> k \in server.lost
           /\ k \in Range(server'.clients) <=> k \in Range(server.clients),
         server'.greeted = server.greeted, server'.synced = server.synced,
         server'.committed = server.committed, server'.users = server.users,
         Listed(server'), Asked(server', up'), Fresh(server, up, b)',
         Connected(b)' => Talk(server, up, b)'
  PROVE  Good(server, up)'
<1> SUFFICES ASSUME NEW a \in Pages \ {b}
             PROVE  Fresh(server, up, a)' /\ (Connected(a)' => Talk(server, up, a)')
  BY DEF Good, Listed, Asked
<1>1. Fresh(server, up, a) /\ (Connected(a) => Talk(server, up, a))
  BY DEF Inv, Good
<1>2. page'[a] = page[a] /\ seen'[a] = seen[a] /\ Sock(a)' = Sock(a) /\ (Connected(a)' <=> Connected(a))
  BY DEF Sock, Connected
<1>3. \A k \in 1..(MaxEvents + 1) : <<a, k>> \in Conns /\ <<a, k>>[1] # b
  BY DEF Conns
<1>4. Connected(a) => Sock(a) \in Conns /\ Sock(a)[1] # b
  BY PageIs DEF Inv
<1>5. Fresh(server, up, a)'
  BY <1>1, <1>2, <1>3, <1>4 DEF Fresh
<1>6. ASSUME Connected(a) PROVE Talk(server, up, a)'
  <2>1. Stage(server', Sock(a)) = Stage(server, Sock(a))
    BY <1>4, <1>6 DEF Stage
  <2>2. server'.down[Sock(a)] = server.down[Sock(a)] /\ up'[Sock(a)] = up[Sock(a)]
    BY <1>4, <1>6
  <2> HIDE DEF Sock
  <2> QED BY <1>1, <1>2, <1>6, <2>1, <2>2 DEF Talk, Stage
<1> QED
  BY <1>2, <1>5, <1>6

\* The next message is taken off the wire: pg is the page, v what is on its way
\* to the server and at what it has seen, thereafter.
LEMMA TakeGood ==
  ASSUME Inv, NEW b \in Pages, Connected(b), server.down[Sock(b)] # <<>>,
         server' = [server EXCEPT !.down[Sock(b)] = Tail(@)], events' = events,
         NEW pg \in GameClients, page' = [page EXCEPT ![b] = pg],
         pg.sock = page[b].sock, pg.conns = page[b].conns,
         NEW v \in Seq(Up), up' = [up EXCEPT ![Sock(b)] = v],
         NEW at \in Nat \cup {NULL}, seen' = [seen EXCEPT ![b] = at],
         overtaken' \in SUBSET Pages, Numbered(b)',
         Sock(b) \in Range(server.clients) => \A i \in 1..Len(v) :
           v[i].verb = "req:reset" => Sock(b) \in server.greeted,
         Handshake(pg.status, UserOf[b], Tail(server.down[Sock(b)]), v, Stage(server, Sock(b))),
         Answers(pg.pending, pg.next_tx, UserOf[b], Tail(server.down[Sock(b)]), v),
         Informed(pg.status, View(at, pg.users), Tail(server.down[Sock(b)]),
                  Stage(server, Sock(b)), View(server.committed, server.users))
  PROVE  Inv'
<1> DEFINE c == Sock(b)
<1>1. /\ c \in Conns /\ c = <<b, page[b].conns>> /\ c \notin server.lost
      /\ server.down[c] \in Seq(Down)
  BY SocketIs
<1>2. Typed /\ Good(server, up) /\ server \in Servers
  BY DEF Inv, Typed
<1>3. Tail(server.down[c]) \in Seq(Down)
  BY <1>1, TailIs
<1> DEFINE down == [server.down EXCEPT ![c] = Tail(server.down[c])]
<1>4. server' = [server EXCEPT !.down = down] /\ down \in [Conns -> Seq(Down)]
      /\ down[c] = Tail(server.down[c]) /\ \A k \in Conns : k # c => down[k] = server.down[k]
  BY <1>1, <1>2, <1>3 DEF Servers
<1> HIDE DEF down
<1>5. /\ server' \in Servers /\ server'.down = down
      /\ server'.clients = server.clients /\ server'.greeted = server.greeted
      /\ server'.synced = server.synced /\ server'.lost = server.lost
      /\ server'.committed = server.committed /\ server'.users = server.users
  BY <1>2, <1>4 DEF Servers
<1>6. /\ up' \in [Conns -> Seq(Up)] /\ up'[c] = v /\ \A k \in Conns : k # c => up'[k] = up[k]
      /\ page' \in [Pages -> GameClients] /\ page'[b] = pg /\ \A a \in Pages : a # b => page'[a] = page[a]
      /\ seen' \in [Pages -> Nat \cup {NULL}] /\ seen'[b] = at
      /\ \A a \in Pages : a # b => seen'[a] = seen[a]
  BY <1>1, <1>2 DEF Typed
<1>7. Typed'
  BY <1>2, <1>5, <1>6 DEF Typed
<1>8. \A a \in Pages : Numbered(a)'
  <2> SUFFICES ASSUME NEW a \in Pages, a # b PROVE Numbered(a)'
    OBVIOUS
  <2>1. Numbered(a) /\ page'[a] = page[a] /\ seen'[a] = seen[a]
    BY <1>6 DEF Inv
  <2> QED BY <2>1 DEF Numbered, Connected
<1>9. Sock(b)' = c /\ (Connected(b)' <=> Connected(b)) /\ Stage(server', c) = Stage(server, c)
  BY <1>5, <1>6 DEF Sock, Connected, Stage
<1>10. Listed(server')
  BY <1>2, <1>5 DEF Good, Listed
<1>11. Asked(server', up')
  <2> SUFFICES ASSUME NEW k \in Range(server.clients), NEW i \in 1..Len(up'[k]),
                      up'[k][i].verb = "req:reset"
               PROVE  k \in server.greeted
    BY <1>5 DEF Asked
  <2>1. k \in Conns
    BY <1>2, ClientIs
  <2>2. CASE k = c
    BY <1>6, <2>2
  <2>3. CASE k # c
    <3>1. up'[k] = up[k]
      BY <1>6, <2>1, <2>3
    <3> QED BY <1>2, <3>1 DEF Good, Asked
  <2> QED BY <2>2, <2>3
<1>12. Fresh(server, up, b)'
  <2>1. Fresh(server, up, b) /\ page[b].conns \in Nat
    BY <1>2 DEF Good, Typed, GameClients
  <2>2. \A k \in 1..(MaxEvents + 1) : k > page[b].conns => <<b, k>> \in Conns /\ <<b, k>> # c
    BY <1>1, <2>1 DEF Conns
  <2> QED BY <1>1, <1>4, <1>5, <1>6, <1>9, <2>1, <2>2 DEF Fresh
<1>13. Talk(server, up, b)'
  BY <1>4, <1>5, <1>6, <1>9 DEF Talk, Stage
<1>14. \A k \in Conns : k[1] # b =>
         /\ server'.down[k] = server.down[k] /\ up'[k] = up[k]
         /\ k \in server'.lost <=> k \in server.lost
         /\ k \in Range(server'.clients) <=> k \in Range(server.clients)
  <2>1. \A k \in Conns : k[1] # b => k # c
    BY <1>1
  <2> QED BY <1>4, <1>5, <1>6, <2>1
<1>15. \A a \in Pages \ {b} : page'[a] = page[a] /\ seen'[a] = seen[a]
  BY <1>6
<1>16. Good(server, up)'
  BY <1>5, <1>10, <1>11, <1>12, <1>13, <1>14, <1>15, OwnGood
<1> QED
  BY <1>7, <1>8, <1>16 DEF Inv

LEMMA PageHelloStep ==
  ASSUME Inv, NEW b \in Pages, PageHello(b)
  PROVE  Inv'
<1> DEFINE c == Sock(b)
           d == server.down[c]
           u == up[c]
           m == [verb |-> "req:reset"]
           pg == [page[b] EXCEPT !.me = Head(d).you.id]
           stage == Stage(server, c)
           last == View(server.committed, server.users)
<1>1. /\ Connected(b) /\ d # <<>> /\ Head(d).verb = "hello"
      /\ server' = [server EXCEPT !.down[c] = Tail(@)] /\ events' = events
      /\ page' = [page EXCEPT ![b].me = Head(d).you.id]
      /\ up' = [up EXCEPT ![c] = Append(u, m)] /\ seen' = seen /\ overtaken' = overtaken
  BY DEF PageHello, Takes
<1>2. /\ c \in Conns /\ page[b].status \in {"pending-reset", "sync"}
      /\ d \in Seq(Down) /\ u \in Seq(Up) /\ stage \in {"gone", "come", "greeted", "synced"}
      /\ Handshake(page[b].status, UserOf[b], d, u, stage)
      /\ Answers(page[b].pending, page[b].next_tx, UserOf[b], d, u)
  BY <1>1, SocketIs
<1>3. Typed /\ page[b] \in GameClients /\ seen[b] \in Nat \cup {NULL} /\ Listed(server) /\ Numbered(b)
  BY DEF Inv, Typed, Good
<1>4. m \in Up /\ m.verb = "req:reset" /\ ~Asks(m)
  BY DEF Up, Calls, Asks
<1> HIDE DEF c, d, u, m, stage, last
<1>5. /\ page[b].status = "pending-reset" /\ Head(d).you.id = UserOf[b] /\ stage \in {"gone", "greeted"}
      /\ Tail(d) # <<>> => Tail(d)[1].verb = "bye"
      /\ Handshake(page[b].status, UserOf[b], Tail(d), Append(u, m), stage)
  <2>1. page[b].status = "pending-reset" /\ Head(d).you.id = UserOf[b] /\ stage \in {"gone", "greeted"}
    BY <1>1, <1>2, GreetedIs
  <2>2. /\ Handshake("pending-reset", UserOf[b], Tail(d), Append(u, m), stage)
        /\ Tail(d) # <<>> => Tail(d)[1].verb = "bye"
    BY <1>1, <1>2, <1>4, <2>1, HandshakeGreeted
  <2> QED BY <2>1, <2>2
<1>6. Answers(page[b].pending, page[b].next_tx, UserOf[b], Tail(d), Append(u, m))
  <2>1. page[b].pending \in SUBSET Pendings
    BY <1>3 DEF GameClients
  <2>2. Answers(page[b].pending, page[b].next_tx, UserOf[b], Tail(d), u)
    BY <1>1, <1>2, <2>1, AnswersTake
  <2> QED BY <1>2, <1>4, <2>2, AnswersSaid
<1>7. Append(u, m) \in Seq(Up)
  BY <1>2, <1>4
<1>8. UserOf[b] \in Users
  BY GameSyncAssumption
<1>9. /\ pg \in GameClients /\ pg.sock = page[b].sock /\ pg.conns = page[b].conns
      /\ pg.status = page[b].status /\ pg.pending = page[b].pending /\ pg.next_tx = page[b].next_tx
      /\ pg.users = page[b].users /\ pg.me = UserOf[b] /\ pg.state = page[b].state
  BY <1>3, <1>5, <1>8 DEF GameClients
<1>10. page' = [page EXCEPT ![b] = pg]
  BY <1>1
<1> HIDE DEF pg
<1>11. Informed(pg.status, View(seen[b], pg.users), Tail(d), stage, last)
  BY <1>5, <1>9 DEF Informed
<1>12. Numbered(b)'
  <2>1. page'[b] = pg
    BY <1>3, <1>10 DEF Typed
  <2> QED BY <1>1, <1>3, <1>9, <2>1 DEF Numbered, Connected
<1>13. c \in Range(server.clients) => c \in server.greeted
  BY <1>3, <1>5, StageIs DEF stage
<1>14. seen' = [seen EXCEPT ![b] = seen[b]] /\ overtaken' \in SUBSET Pages
  BY <1>1, <1>3 DEF Typed
<1> QED
  BY <1>1, <1>3, <1>5, <1>6, <1>7, <1>9, <1>10, <1>11, <1>12, <1>13, <1>14, TakeGood
     DEF c, d, u, stage, last

\* What is taken by a page that is synced, which says nothing to it.
LEMMA PageRejectStep ==
  ASSUME Inv, NEW b \in Pages, PageReject(b)
  PROVE  Inv'
<1> DEFINE c == Sock(b)
           d == server.down[c]
           u == up[c]
           rest == Settled(page[b], Head(d).tx)
           pg == [page[b] EXCEPT !.pending = rest]
           stage == Stage(server, c)
           last == View(server.committed, server.users)
           from == View(seen[b], page[b].users)
<1>1. /\ Connected(b) /\ d # <<>> /\ Head(d).verb = "reject"
      /\ server' = [server EXCEPT !.down[c] = Tail(@)] /\ events' = events
      /\ page' = [page EXCEPT ![b].pending = rest]
      /\ up' = up /\ seen' = seen /\ overtaken' = overtaken
  BY DEF PageReject, Takes
<1>2. /\ c \in Conns /\ page[b].status \in {"pending-reset", "sync"}
      /\ d \in Seq(Down) /\ u \in Seq(Up) /\ stage \in {"gone", "come", "greeted", "synced"}
      /\ Handshake(page[b].status, UserOf[b], d, u, stage)
      /\ Answers(page[b].pending, page[b].next_tx, UserOf[b], d, u)
      /\ Informed(page[b].status, from, d, stage, last)
  BY <1>1, SocketIs
<1>3. Typed /\ page[b] \in GameClients /\ seen[b] \in Nat \cup {NULL} /\ Listed(server)
      /\ Numbered(b) /\ Asked(server, up) /\ last \in Views
  BY ServerIs DEF Inv, Typed, Good
<1>4. page[b].status = "sync" => from \in Views
  BY <1>1, <1>3, PageIs
<1>5. rest = {p \in page[b].pending : p.tx # Head(d).tx}
  BY DEF Settled
<1> HIDE DEF c, d, u, stage, last, from, rest
<1>6. page[b].status = "sync" /\ Handshake(page[b].status, UserOf[b], Tail(d), u, stage)
  BY <1>1, <1>2, HandshakeTake
<1>7. Answers(rest, page[b].next_tx, UserOf[b], Tail(d), u)
  <2>1. page[b].pending \in SUBSET Pendings
    BY <1>3 DEF GameClients
  <2> QED BY <1>1, <1>2, <1>5, <2>1, AnswersTake
<1>8. Informed(page[b].status, from, Tail(d), stage, last)
  <2>1. Gets(from, d, stage, last)
    BY <1>2, <1>6 DEF Informed
  <2>2. PICK v \in Views : Tells(from, Head(d), v) /\ Gets(v, Tail(d), stage, last)
    BY <1>1, <1>2, <1>3, <1>4, <1>6, <2>1, GetsTake
  <2>3. v = from
    BY <1>1, <2>2 DEF Tells
  <2> QED BY <1>6, <2>2, <2>3 DEF Informed
<1>9. /\ pg \in GameClients /\ pg.sock = page[b].sock /\ pg.conns = page[b].conns
      /\ pg.status = page[b].status /\ pg.pending = rest /\ pg.next_tx = page[b].next_tx
      /\ pg.users = page[b].users /\ pg.me = page[b].me /\ pg.state = page[b].state
      /\ rest \subseteq page[b].pending
  BY <1>3, <1>5 DEF GameClients
<1>10. page' = [page EXCEPT ![b] = pg]
  BY <1>1
<1> HIDE DEF pg
<1>11. Numbered(b)'
  <2>1. page'[b] = pg
    BY <1>3, <1>10 DEF Typed
  <2> QED BY <1>1, <1>3, <1>9, <2>1 DEF Numbered, Connected
<1>12. c \in Range(server.clients) => \A i \in 1..Len(u) : u[i].verb = "req:reset" => c \in server.greeted
  BY <1>3 DEF Asked, u
<1>13. seen' = [seen EXCEPT ![b] = seen[b]] /\ overtaken' \in SUBSET Pages /\ up' = [up EXCEPT ![c] = u]
  BY <1>1, <1>2, <1>3 DEF Typed, u
<1>14. /\ Handshake(pg.status, UserOf[b], Tail(d), u, stage)
       /\ Answers(pg.pending, pg.next_tx, UserOf[b], Tail(d), u)
       /\ Informed(pg.status, View(seen[b], pg.users), Tail(d), stage, last)
  BY <1>6, <1>7, <1>8, <1>9 DEF from
<1> QED
  BY <1>1, <1>2, <1>3, <1>9, <1>10, <1>11, <1>12, <1>13, <1>14, TakeGood
     DEF c, d, stage, last

\* attempt: a request, with what it is remembered by.
LEMMA AttemptedIs ==
  ASSUME NEW pg \in GameClients, pg.state \in States, NEW m \in Intents,
         m.kind = "rm_player" => m.p \in Seated(pg.state)
  PROVE  LET pg2 == Attempted(pg, m)
             p   == [tx |-> pg.next_tx, predicted |-> m.kind \in Predictable, conn |-> pg.sock]
             r   == Request(pg, m)
         IN  /\ pg2 \in GameClients /\ pg2.state \in States /\ pg2.next_tx = pg.next_tx + 1
             /\ pg2.pending = pg.pending \cup {p} /\ p \in Pendings /\ p.tx = pg.next_tx
             /\ p.predicted <=> m.kind \in Predictable
             /\ pg2.status = pg.status /\ pg2.sock = pg.sock /\ pg2.conns = pg.conns
             /\ pg2.users = pg.users /\ pg2.me = pg.me
             /\ r \in Up /\ r.verb = "req:update" /\ Asks(r) /\ r.tx = pg.next_tx /\ r.intent = m
<1> DEFINE state == IF m.kind \in Predictable THEN Commit(pg.state, m) ELSE pg.state
           p     == [tx |-> pg.next_tx, predicted |-> m.kind \in Predictable, conn |-> pg.sock]
           r     == Request(pg, m)
           pending == pg.pending \cup {p}
           pg2   == Attempted(pg, m)
<1>1. state \in States
  <2>1. CASE m.kind \in Predictable
    <3>1. m \in Effects
      BY <2>1 DEF Intents, Effects, Predictable
    <3> QED BY <2>1, <3>1, CommitTyped
  <2> QED BY <2>1
<1>0. pg.next_tx \in Nat /\ pg.sock \in Nat /\ pg.pending \in SUBSET Pendings
      /\ pg.next_tx + 1 \in Nat
  BY DEF GameClients
<1>2. p \in Pendings /\ p.tx = pg.next_tx /\ (p.predicted <=> m.kind \in Predictable)
  <2>1. ASSUME NEW q \in BOOLEAN
        PROVE  [tx |-> pg.next_tx, predicted |-> q, conn |-> pg.sock] \in Pendings
    BY <1>0 DEF Pendings
  <2>2. (m.kind \in Predictable) \in BOOLEAN
    OBVIOUS
  <2>3. p \in Pendings
    BY <2>1, <2>2, Zenon
  <2> QED BY <2>3
<1>3. r \in Up /\ r.verb = "req:update" /\ Asks(r) /\ r.tx = pg.next_tx /\ r.intent = m
  BY DEF Request, Up, Requests, GameClients, Asks
<1>4. pg2 = [pg EXCEPT !.state = state, !.next_tx = pg.next_tx + 1, !.pending = pending]
  BY DEF Attempted
<1> HIDE DEF state, p, r, pg2
<1>5. pending \in SUBSET Pendings
  BY <1>0, <1>2
<1> HIDE DEF pending
<1>6. /\ pg2 \in GameClients /\ pg2.state = state /\ pg2.next_tx = pg.next_tx + 1
      /\ pg2.pending = pending
      /\ pg2.status = pg.status /\ pg2.sock = pg.sock /\ pg2.conns = pg.conns
      /\ pg2.users = pg.users /\ pg2.me = pg.me
  <2>1. state \in States \cup {NULL}
    BY <1>1
  <2> QED BY <1>0, <1>4, <1>5, <2>1 DEF GameClients
<1> QED
  BY <1>1, <1>2, <1>3, <1>6 DEF state, p, r, pg2, pending

\* What the page is after its reset, and what is on its way from it.
Resumed(pg, m) == [pg EXCEPT !.state = m.state, !.users = m.who, !.status = "sync"]
Joining(o) == Call("add_player", o, NULL)
Resumes(pg, m, o, u, pg2, v) ==
  \/ pg2 = Resumed(pg, m) /\ v = u
  \/ /\ pg2 = Attempted(Resumed(pg, m), Joining(o))
     /\ v = Append(u, Request(Resumed(pg, m), Joining(o)))

ResumedWell(pg, m, o, d, u, pg2, v) ==
  /\ pg2 \in GameClients /\ pg2.state \in States /\ pg2.status = "sync"
  /\ pg2.sock = pg.sock /\ pg2.conns = pg.conns /\ pg2.users = m.who /\ pg2.me = pg.me
  /\ AsksMore(u, v)
  /\ v \in Seq(Up) /\ Answers(pg2.pending, pg2.next_tx, o, d, v)

LEMMA PageResetIs ==
  ASSUME NEW pg \in GameClients, NEW m \in Resets, NEW u \in Seq(Up), NEW d \in Seq(Down),
         NEW o \in Users, Answers(pg.pending, pg.next_tx, o, d, u),
         NEW pg2, NEW v, Resumes(pg, m, o, u, pg2, v)
  PROVE  ResumedWell(pg, m, o, d, u, pg2, v)
<1> DEFINE was  == Resumed(pg, m)
           join == Joining(o)
<1>1. /\ was \in GameClients /\ was.state \in States /\ was.status = "sync" /\ was.sock = pg.sock
      /\ was.conns = pg.conns /\ was.users = m.who /\ was.me = pg.me /\ was.pending = pg.pending
      /\ was.next_tx = pg.next_tx
  BY DEF GameClients, Resets, Resumed
<1>2. join \in Intents /\ join.kind # "rm_player" /\ join.p = o
  BY DEF Call, Intents, Joining
<1> HIDE DEF was, join
<1>3. CASE pg2 = was /\ v = u
  BY <1>1, <1>3 DEF AsksMore, ResumedWell
<1>4. CASE pg2 = Attempted(was, join) /\ v = Append(u, Request(was, join))
  <2> DEFINE p == [tx |-> was.next_tx, predicted |-> join.kind \in Predictable, conn |-> was.sock]
             r == Request(was, join)
  <2>1. /\ pg2 \in GameClients /\ pg2.state \in States /\ pg2.next_tx = pg.next_tx + 1
        /\ pg2.pending = pg.pending \cup {p} /\ p \in Pendings /\ p.tx = pg.next_tx
        /\ p.predicted <=> join.kind \in Predictable
        /\ pg2.status = "sync" /\ pg2.sock = pg.sock /\ pg2.conns = pg.conns
        /\ pg2.users = m.who /\ pg2.me = pg.me
        /\ r \in Up /\ r.verb = "req:update" /\ Asks(r) /\ r.tx = pg.next_tx /\ r.intent = join
    BY <1>1, <1>2, <1>4, AttemptedIs
  <2>2. v = Append(u, r)
    BY <1>4
  <2> HIDE DEF p, r
  <2>3. Answers(pg2.pending, pg2.next_tx, o, d, v)
    <3>1. pg.pending \in SUBSET Pendings /\ pg.next_tx \in Nat /\ r.intent.p = o
      BY <1>2, <2>1 DEF GameClients
    <3>2. p.predicted <=> r.intent.kind \in Predictable
      BY <2>1
    <3>3. Answers(pg.pending \cup {p}, pg.next_tx + 1, o, d, Append(u, r))
      BY <2>1, <3>1, <3>2, AnswersAsk
    <3> QED BY <2>1, <2>2, <3>3
  <2>4. v \in Seq(Up)
    BY <2>1, <2>2
  <2>5. AsksMore(u, v)
    BY <2>1, <2>2 DEF AsksMore
  <2> QED BY <2>1, <2>2, <2>3, <2>4, <2>5 DEF ResumedWell
<1> QED
  BY <1>3, <1>4 DEF was, join, Resumes

LEMMA PageResetStep ==
  ASSUME Inv, NEW b \in Pages, PageReset(b)
  PROVE  /\ Inv' /\ server'.committed = server.committed
         /\ seen[b] = NULL
         /\ \E n \in 0..server.committed : seen' = [seen EXCEPT ![b] = n]
<1> DEFINE c == Sock(b)
           d == server.down[c]
           u == up[c]
           m == Head(d)
           stage == Stage(server, c)
           last == View(server.committed, server.users)
           was  == Resumed(page[b], m)
           join == Joining(UserOf[b])
<1>1. /\ Connected(b) /\ d # <<>> /\ m.verb = "reset"
      /\ server' = [server EXCEPT !.down[c] = Tail(@)] /\ events' = events
      /\ \/ page' = [page EXCEPT ![b] = Attempted(was, join)]
            /\ up' = [up EXCEPT ![c] = Append(u, Request(was, join))]
         \/ page' = [page EXCEPT ![b] = was] /\ up' = up
      /\ seen' = [seen EXCEPT ![b] = m.at] /\ overtaken' = overtaken
  BY DEF PageReset, Takes, Resumed, Joining
<1>2. /\ c \in Conns /\ page[b].status \in {"pending-reset", "sync"}
      /\ d \in Seq(Down) /\ u \in Seq(Up) /\ stage \in {"gone", "come", "greeted", "synced"}
      /\ Handshake(page[b].status, UserOf[b], d, u, stage)
      /\ Answers(page[b].pending, page[b].next_tx, UserOf[b], d, u)
      /\ Informed(page[b].status, View(seen[b], page[b].users), d, stage, last)
  BY <1>1, SocketIs
<1>3. /\ Typed /\ page[b] \in GameClients /\ seen[b] \in Nat \cup {NULL} /\ Listed(server) /\ Numbered(b)
      /\ Asked(server, up) /\ last \in Views /\ UserOf[b] \in Users /\ last.at = server.committed
      /\ server.committed \in Nat
  BY GameSyncAssumption, ServerIs, ViewIs DEF Inv, Typed, Good
<1>4. PICK pg, v : /\ Resumes(page[b], m, UserOf[b], u, pg, v)
                   /\ page' = [page EXCEPT ![b] = pg] /\ up' = [up EXCEPT ![c] = v]
  <2>1. up \in [Conns -> Seq(Up)]
    BY <1>3 DEF Typed
  <2>2. up = [up EXCEPT ![c] = u]
    BY <2>1
  <2> HIDE DEF u, c, d, m
  <2> QED BY <1>1, <2>2 DEF Resumes
<1> HIDE DEF c, d, u, m, stage, last
<1>5. m \in Resets /\ m = d[1] /\ m.at \in Nat /\ m.who \in UserLists
  <2>1. m \in Down /\ m = d[1]
    BY <1>1, <1>2, TailIs DEF m
  <2> QED BY <1>1, <2>1, DownIs
<1>6. Answers(page[b].pending, page[b].next_tx, UserOf[b], Tail(d), u)
  <2>1. page[b].pending \in SUBSET Pendings
    BY <1>3 DEF GameClients
  <2> QED BY <1>1, <1>2, <2>1, AnswersTake
<1>7. /\ pg \in GameClients /\ pg.state \in States /\ pg.status = "sync"
      /\ pg.sock = page[b].sock /\ pg.conns = page[b].conns /\ pg.users = m.who /\ pg.me = page[b].me
      /\ AsksMore(u, v)
      /\ v \in Seq(Up) /\ Answers(pg.pending, pg.next_tx, UserOf[b], Tail(d), v)
  <2>1. Tail(d) \in Seq(Down)
    BY <1>1, <1>2, TailIs
  <2>2. Resumes(page[b], m, UserOf[b], u, pg, v)
    BY <1>4
  <2>3. page[b] \in GameClients /\ UserOf[b] \in Users /\ m \in Resets /\ u \in Seq(Up)
    BY <1>2, <1>3, <1>5
  <2>4. ResumedWell(page[b], m, UserOf[b], Tail(d), u, pg, v)
    BY <1>6, <2>1, <2>2, <2>3, PageResetIs
  <2> QED BY <2>4 DEF ResumedWell
<1>8. /\ page[b].status = "pending-reset" /\ u = <<>>
      /\ Handshake("sync", UserOf[b], Tail(d), v, stage)
  <2>1. Head(d).verb = "reset"
    BY <1>1 DEF m
  <2>2. page[b].status = "pending-reset" /\ u = <<>>
    BY <1>1, <1>2, <2>1, ResumedIs
  <2>3. Handshake("pending-reset", UserOf[b], d, u, stage)
    BY <1>2, <2>2
  <2>4. d # <<>> /\ d \in Seq(Down) /\ u \in Seq(Up) /\ v \in Seq(Up) /\ AsksMore(u, v)
        /\ stage \in {"gone", "come", "greeted", "synced"}
    BY <1>1, <1>2, <1>7
  <2>5. Handshake("sync", UserOf[b], Tail(d), v, stage)
    BY <2>1, <2>2, <2>3, <2>4, HandshakeSynced
  <2> QED BY <2>2, <2>5
<1>9. Gets(View(m.at, m.who), Tail(d), stage, last)
  BY <1>1, <1>2, <1>5, <1>8 DEF Informed
<1>10. Informed(pg.status, View(m.at, pg.users), Tail(d), stage, last)
  BY <1>7, <1>9 DEF Informed
<1>11. page'[b] = pg /\ seen'[b] = m.at
  BY <1>1, <1>3, <1>4 DEF Typed
<1>12. Numbered(b)'
  <2>1. /\ \A p \in pg.pending : p.tx < pg.next_tx
        /\ \A p, q \in pg.pending : p.tx = q.tx => p = q
    BY <1>7 DEF Answers
  <2>2. m.at # NULL /\ pg.state # NULL
    BY <1>5, <1>7, TableAssumption, StatesAssumption
  <2> QED BY <1>1, <1>3, <1>7, <1>11, <2>1, <2>2 DEF Numbered, Connected
<1>13. c \in Range(server.clients) => \A i \in 1..Len(v) :
         v[i].verb = "req:reset" => c \in server.greeted
  BY <1>8 DEF Handshake
<1>14. overtaken' \in SUBSET Pages /\ m.at \in Nat \cup {NULL}
  BY <1>1, <1>3, <1>5 DEF Typed
<1>15. Inv'
  BY <1>1, <1>4, <1>7, <1>8, <1>10, <1>12, <1>13, <1>14, TakeGood DEF c, d, stage, last
<1>16. server'.committed = server.committed /\ seen[b] = NULL
  BY <1>1, <1>3, <1>8 DEF Typed, Servers, Numbered
<1>17. m.at \in 0..server.committed
  <2>1. View(m.at, m.who) \in Views /\ View(m.at, m.who).at = m.at
    BY <1>5, ViewIs
  <2>2. Tail(d) \in Seq(Down)
    BY <1>1, <1>2, TailIs
  <2>3. m.at <= server.committed
    BY <1>3, <1>9, <2>1, <2>2, GetsFurther
  <2> QED BY <1>3, <1>5, <2>3
<1> QED
  BY <1>1, <1>15, <1>16, <1>17

\* update: what the page is after it.
UpdatedWell(pg, m, pg2) ==
  /\ pg2 \in GameClients /\ pg2.state \in States
  /\ pg2.status = pg.status /\ pg2.sock = pg.sock /\ pg2.conns = pg.conns /\ pg2.me = pg.me
  /\ pg2.next_tx = pg.next_tx /\ pg2.pending \in {pg.pending, Settled(pg, m.tx)}
  /\ pg2.users = IF m.cmd.kind = "protocol" THEN UsersAfter(pg.users, m.cmd) ELSE pg.users

LEMMA PageUpdatedIs ==
  ASSUME NEW b \in Pages, NEW pg \in GameClients, pg.state \in States, NEW m \in Updates,
         Predicted(pg, m.tx) => m.cmd.kind = "engine"
  PROVE  UpdatedWell(pg, m, PageUpdated(pg, b, m))
<1> DEFINE rest == Settled(pg, m.tx)
           pg2  == PageUpdated(pg, b, m)
<1>1. rest \in SUBSET Pendings
  BY DEF Settled, GameClients
<1>2. m.cmd \in Commands /\ m.cmd.kind \in {"protocol", "engine"}
  BY DEF Updates, Commands
<1>3. CASE Predicted(pg, m.tx)
  <2>1. pg2 = [pg EXCEPT !.pending = rest] /\ m.cmd.kind # "protocol"
    BY <1>3 DEF PageUpdated
  <2> HIDE DEF rest, pg2
  <2> QED BY <1>1, <2>1 DEF GameClients, UpdatedWell, rest, pg2
<1>4. CASE ~Predicted(pg, m.tx) /\ m.cmd.kind = "protocol"
  <2> DEFINE users == UsersAfter(pg.users, m.cmd)
             nick  == IF m.cmd.verb = "user:nick" /\ m.cmd.who.id = pg.me
                      THEN m.cmd.who.nick ELSE pg.nick
  <2>1. pg2 = [pg EXCEPT !.users = users, !.nick = nick]
    BY <1>4 DEF PageUpdated
  <2>2. users \in UserLists
    BY <1>2, <1>4, UsersAfterTyped DEF GameClients
  <2>3. nick \in Nat
    BY <1>2, <1>4 DEF Commands, Whos, GameClients
  <2> HIDE DEF users, nick, pg2
  <2>4. /\ pg2 \in GameClients /\ pg2.state = pg.state /\ pg2.status = pg.status
        /\ pg2.sock = pg.sock /\ pg2.conns = pg.conns /\ pg2.me = pg.me
        /\ pg2.next_tx = pg.next_tx /\ pg2.pending = pg.pending /\ pg2.users = users
    BY <2>1, <2>2, <2>3 DEF GameClients
  <2> QED BY <1>4, <2>4 DEF UpdatedWell, users, pg2
<1>5. CASE ~Predicted(pg, m.tx) /\ m.cmd.kind = "engine"
  <2> DEFINE state == Apply(pg.state, m.cmd.effect, UserOf[b])
  <2>1. \/ state = NULL /\ pg2 = pg
        \/ state # NULL /\ pg2 = [pg EXCEPT !.state = state, !.pending = rest]
    BY <1>5 DEF PageUpdated
  <2>2. CASE state = NULL
    BY <1>5, <2>1, <2>2 DEF UpdatedWell
  <2>3. CASE state # NULL
    <3>1. m.cmd.effect \in Effects
      BY <1>2, <1>5 DEF Commands
    <3>2. state = Commit(pg.state, m.cmd.effect)
          /\ (m.cmd.effect.kind \in Predictable => Allowed(pg.state, m.cmd.effect))
      BY <2>3 DEF Apply
    <3>3. m.cmd.effect.kind = "rm_player" => m.cmd.effect.p \in Seated(pg.state)
      BY <3>2 DEF Allowed, Predictable
    <3>4. state \in States
      BY <3>1, <3>2, <3>3, CommitTyped
    <3>5. pg2 = [pg EXCEPT !.state = state, !.pending = rest]
      BY <2>1, <2>3
    <3> HIDE DEF state, rest, pg2
    <3>6. /\ pg2 \in GameClients /\ pg2.state = state /\ pg2.status = pg.status
          /\ pg2.sock = pg.sock /\ pg2.conns = pg.conns /\ pg2.me = pg.me
          /\ pg2.next_tx = pg.next_tx /\ pg2.pending = rest /\ pg2.users = pg.users
      BY <1>1, <3>4, <3>5 DEF GameClients
    <3> QED BY <1>5, <3>4, <3>6 DEF UpdatedWell, pg2, rest
  <2> QED BY <2>2, <2>3
<1> QED
  BY <1>2, <1>3, <1>4, <1>5

\* What a page was not told of yet is what the server committed next.
LEMMA PageUpdateStep ==
  ASSUME Inv, NEW b \in Pages, PageUpdate(b)
  PROVE  /\ Inv' /\ server'.committed = server.committed
         /\ seen[b] \in 0..(server.committed - 1)
         /\ seen' = [seen EXCEPT ![b] = seen[b] + 1]
<1> DEFINE c == Sock(b)
           d == server.down[c]
           u == up[c]
           m == Head(d)
           stage == Stage(server, c)
           last == View(server.committed, server.users)
           from == View(seen[b], page[b].users)
           pg   == PageUpdated(page[b], b, m)
<1>1. /\ Connected(b) /\ d # <<>> /\ m.verb = "update"
      /\ server' = [server EXCEPT !.down[c] = Tail(@)] /\ events' = events
      /\ page' = [page EXCEPT ![b] = pg] /\ up' = up /\ seen' = [seen EXCEPT ![b] = m.at]
      /\ overtaken' \in {overtaken, overtaken \cup {b}}
  BY DEF PageUpdate, Takes
<1>2. /\ c \in Conns /\ page[b].status \in {"pending-reset", "sync"}
      /\ d \in Seq(Down) /\ u \in Seq(Up) /\ stage \in {"gone", "come", "greeted", "synced"}
      /\ Handshake(page[b].status, UserOf[b], d, u, stage)
      /\ Answers(page[b].pending, page[b].next_tx, UserOf[b], d, u)
      /\ Informed(page[b].status, from, d, stage, last)
  BY <1>1, SocketIs
<1>3. Typed /\ page[b] \in GameClients /\ seen[b] \in Nat \cup {NULL} /\ Listed(server)
      /\ Numbered(b) /\ Asked(server, up) /\ last \in Views /\ last.at = server.committed
      /\ server.committed \in Nat
  BY ServerIs, ViewIs DEF Inv, Typed, Good
<1>4. page[b].status = "sync" => from \in Views
  BY <1>1, <1>3, PageIs
<1>5. m \in Updates /\ m = d[1] /\ 1 \in 1..Len(d) /\ m.at \in Nat
  <2>1. m \in Down /\ m = d[1] /\ Len(d) \in Nat \ {0}
    BY <1>1, <1>2, TailIs DEF m
  <2> QED BY <1>1, <2>1, DownIs
<1> HIDE DEF c, d, u, stage, last, from, m
<1>6. page[b].status = "sync" /\ Handshake(page[b].status, UserOf[b], Tail(d), u, stage)
  <2>1. Head(d).verb \in {"update", "reject"}
    BY <1>1 DEF m
  <2> QED BY <1>1, <1>2, <2>1, HandshakeTake
<1>7. page[b].state \in States /\ seen[b] \in Nat
  BY <1>3, <1>6 DEF Numbered, GameClients
<1>8. Predicted(page[b], m.tx) => m.cmd.kind = "engine"
  <2> SUFFICES ASSUME NEW p \in page[b].pending, p.tx = m.tx PROVE m.cmd.kind = "engine"
    BY DEF Predicted
  <2>1. p.tx \in Nat
    BY <1>3 DEF GameClients, Pendings
  <2>2. Replies(m)
    BY <1>1, <2>1, TableAssumption DEF Replies
  <2> QED BY <1>1, <1>2, <1>5, <2>2 DEF Answers
<1>9. UpdatedWell(page[b], m, pg)
  BY <1>3, <1>5, <1>7, <1>8, PageUpdatedIs
<1> HIDE DEF pg
<1>10. Answers(pg.pending, pg.next_tx, UserOf[b], Tail(d), u)
  <2>1. page[b].pending \in SUBSET Pendings
    BY <1>3 DEF GameClients
  <2>2. \/ pg.pending = page[b].pending
        \/ Head(d).verb \in {"update", "reject"}
             /\ pg.pending = {p \in page[b].pending : p.tx # Head(d).tx}
    BY <1>1, <1>9 DEF UpdatedWell, Settled, m
  <2>3. Answers(pg.pending, page[b].next_tx, UserOf[b], Tail(d), u)
    BY <1>1, <1>2, <2>1, <2>2, AnswersTake
  <2> QED BY <1>9, <2>3 DEF UpdatedWell
<1>11. PICK v \in Views : Tells(from, m, v) /\ Gets(v, Tail(d), stage, last)
  <2>1. Gets(from, d, stage, last)
    BY <1>2, <1>6 DEF Informed
  <2> QED BY <1>1, <1>2, <1>3, <1>4, <1>6, <2>1, GetsTake DEF m
<1>12. /\ m.at = seen[b] + 1 /\ v = View(m.at, pg.users)
  <2>1. /\ m.at = from.at + 1 /\ v.at = m.at
        /\ v.users = IF m.cmd.kind = "protocol" THEN UsersAfter(from.users, m.cmd) ELSE from.users
    BY <1>1, <1>11 DEF Tells
  <2>2. from.at = seen[b] /\ from.users = page[b].users
    BY DEF from, View
  <2>3. v = [at |-> v.at, users |-> v.users]
    BY DEF Views
  <2>4. v.users = pg.users
    BY <1>9, <2>1, <2>2 DEF UpdatedWell
  <2> QED BY <2>1, <2>2, <2>3, <2>4 DEF View
<1>13. Informed(pg.status, View(m.at, pg.users), Tail(d), stage, last)
  BY <1>6, <1>9, <1>11, <1>12 DEF Informed, UpdatedWell
<1>14. page'[b] = pg /\ seen'[b] = m.at
  BY <1>1, <1>3 DEF Typed
<1>15. Numbered(b)'
  <2>1. /\ \A p \in pg.pending : p.tx < pg.next_tx
        /\ \A p, q \in pg.pending : p.tx = q.tx => p = q
    BY <1>10 DEF Answers
  <2>2. m.at # NULL /\ pg.state # NULL
    BY <1>5, <1>9, TableAssumption, StatesAssumption DEF UpdatedWell
  <2> QED BY <1>1, <1>3, <1>6, <1>9, <1>14, <2>1, <2>2 DEF Numbered, Connected, UpdatedWell
<1>16. c \in Range(server.clients) => \A i \in 1..Len(u) : u[i].verb = "req:reset" => c \in server.greeted
  BY <1>3 DEF Asked, u
<1>17. /\ overtaken' \in SUBSET Pages /\ up' = [up EXCEPT ![c] = u]
       /\ m.at \in Nat \cup {NULL}
  BY <1>1, <1>2, <1>3, <1>5 DEF Typed, u
<1>18. /\ Handshake(pg.status, UserOf[b], Tail(d), u, stage)
       /\ pg \in GameClients /\ pg.sock = page[b].sock /\ pg.conns = page[b].conns
  BY <1>6, <1>9 DEF UpdatedWell
<1>19. Inv'
  BY <1>1, <1>2, <1>3, <1>10, <1>13, <1>15, <1>16, <1>17, <1>18, TakeGood
     DEF c, d, stage, last
<1>20. server'.committed = server.committed
  BY <1>1, <1>3 DEF Typed, Servers
<1>21. m.at <= server.committed
  <2>1. Tail(d) \in Seq(Down) /\ v.at = m.at
    BY <1>1, <1>2, <1>12, TailIs DEF View
  <2> QED BY <1>3, <1>11, <2>1, GetsFurther
<1> QED
  BY <1>1, <1>3, <1>7, <1>12, <1>19, <1>20, <1>21

-----------------------------------------------------------------------------
(* Connections that end and begin *)

Closes(b, how, lost, v) ==
  /\ Connected(b) /\ Forget(b) /\ up' = up
  /\ page' = [page EXCEPT ![b] = [Closed(page[b]) EXCEPT !.status = how]]
  /\ server' = [server EXCEPT !.lost = lost, !.down[Sock(b)] = v]
  /\ lost \in {server.lost, server.lost \cup {Sock(b)}}
  /\ events' \in 0..MaxEvents /\ events' >= events
  /\ how = "pending-reset" => events' > events

LEMMA ClosedGood ==
  ASSUME Inv, NEW b \in Pages, NEW how \in {"pending-reset", "disconnect"},
         NEW lost, NEW v \in Seq(Down), Closes(b, how, lost, v)
  PROVE  Inv' /\ server'.committed = server.committed
<1> DEFINE c  == Sock(b)
           pg == [Closed(page[b]) EXCEPT !.status = how]
           down == [server.down EXCEPT ![c] = v]
<1>0. /\ Connected(b) /\ Forget(b) /\ up' = up
      /\ page' = [page EXCEPT ![b] = [Closed(page[b]) EXCEPT !.status = how]]
      /\ server' = [server EXCEPT !.lost = lost, !.down[c] = v]
      /\ lost \in {server.lost, server.lost \cup {c}}
      /\ events' \in 0..MaxEvents /\ events' >= events
      /\ how = "pending-reset" => events' > events
  BY DEF Closes
<1>1. c \in Conns /\ c = <<b, page[b].conns>>
  BY <1>0, SocketIs
<1>2. /\ Typed /\ Good(server, up) /\ server \in Servers /\ page[b] \in GameClients
      /\ Numbered(b) /\ Fresh(server, up, b) /\ events \in Nat /\ events' \in Nat
      /\ server.lost \subseteq Conns
  BY <1>0, ServerIs, GameSyncAssumption DEF Inv, Typed, Good
<1>3. server' = [server EXCEPT !.lost = lost, !.down = down] /\ down \in [Conns -> Seq(Down)]
      /\ down[c] = v /\ \A k \in Conns : k # c => down[k] = server.down[k]
  BY <1>0, <1>1, <1>2 DEF Servers
<1>4. pg \in GameClients /\ pg.sock = 0 /\ pg.conns = page[b].conns /\ pg.status = how
      /\ pg.state = NULL /\ pg.me = NULL /\ pg.pending = page[b].pending
      /\ pg.next_tx = page[b].next_tx
  <2>1. <<>> \in UserLists /\ NULL \in States \cup {NULL} /\ NULL \in Users \cup {NULL}
    BY DEF UserLists
  <2> QED BY <1>2, <2>1 DEF GameClients, Closed
<1> HIDE DEF down, pg
<1>5. /\ server' \in Servers /\ server'.down = down
      /\ server'.clients = server.clients /\ server'.greeted = server.greeted
      /\ server'.synced = server.synced /\ server'.lost = lost
      /\ server'.committed = server.committed /\ server'.users = server.users
  <2>1. lost \in SUBSET Conns
    BY <1>0, <1>1, <1>2
  <2> HIDE DEF c
  <2> QED BY <1>2, <1>3, <2>1 DEF Servers
<1>6. /\ page' \in [Pages -> GameClients] /\ page'[b] = pg /\ \A a \in Pages : a # b => page'[a] = page[a]
      /\ seen' \in [Pages -> Nat \cup {NULL}] /\ seen'[b] = NULL
      /\ \A a \in Pages : a # b => seen'[a] = seen[a]
      /\ overtaken' \in SUBSET Pages
  BY <1>0, <1>2, <1>4 DEF Typed, Forget, pg
<1>7. Typed'
  BY <1>0, <1>2, <1>5, <1>6 DEF Typed
<1>8. \A a \in Pages : Numbered(a)'
  <2> SUFFICES ASSUME NEW a \in Pages PROVE Numbered(a)'
    OBVIOUS
  <2>1. CASE a = b
    <3>1. page[b].conns \in Nat /\ page[b].conns <= events + 1
      BY <1>2 DEF GameClients, Numbered
    <3>2. page[b].conns <= events' + 1 /\ (how = "pending-reset" => page[b].conns <= events')
      BY <1>0, <1>2, <3>1
    <3>3. /\ \A p \in page[b].pending : p.tx < page[b].next_tx
          /\ \A p, q \in page[b].pending : p.tx = q.tx => p = q
      BY <1>2 DEF Numbered
    <3> QED BY <1>4, <1>6, <2>1, <3>2, <3>3 DEF Numbered, Connected
  <2>2. CASE a # b
    <3>1. Numbered(a) /\ page'[a] = page[a] /\ seen'[a] = seen[a] /\ page[a].conns \in Nat
      BY <1>2, <1>6, <2>2 DEF Inv, Typed, GameClients
    <3>2. /\ page[a].conns <= events + 1 => page[a].conns <= events' + 1
          /\ page[a].conns <= events => page[a].conns <= events'
      BY <1>0, <1>2, <3>1
    <3> QED BY <3>1, <3>2 DEF Numbered, Connected
  <2> QED BY <2>1, <2>2
<1>9. ~Connected(b)'
  BY <1>4, <1>6 DEF Connected
<1>10. Listed(server') /\ Asked(server', up')
  BY <1>0, <1>2, <1>5 DEF Good, Listed, Asked
<1>11. Fresh(server, up, b)'
  <2>1. \A k \in 1..(MaxEvents + 1) : k > page[b].conns => <<b, k>> \in Conns /\ <<b, k>> # c
    BY <1>1, <1>2 DEF Conns, GameClients
  <2>2. \A k \in 1..(MaxEvents + 1) : k > page[b].conns =>
          /\ <<b, k>> \notin Range(server'.clients) /\ <<b, k>> \notin server'.lost
          /\ up'[<<b, k>>] = <<>> /\ server'.down[<<b, k>>] = <<>>
    <3> HIDE DEF c
    <3> QED BY <1>0, <1>2, <1>3, <1>5, <2>1 DEF Fresh
  <2> QED BY <1>4, <1>6, <1>9, <2>2 DEF Fresh
<1>12. \A k \in Conns : k[1] # b =>
         /\ server'.down[k] = server.down[k] /\ up'[k] = up[k]
         /\ k \in server'.lost <=> k \in server.lost
         /\ k \in Range(server'.clients) <=> k \in Range(server.clients)
  <2>1. \A k \in Conns : k[1] # b => k # c
    BY <1>1
  <2> HIDE DEF c
  <2> QED BY <1>0, <1>3, <1>5, <2>1
<1>13. \A a \in Pages \ {b} : page'[a] = page[a] /\ seen'[a] = seen[a]
  BY <1>6
<1>14. Good(server, up)'
  BY <1>5, <1>9, <1>10, <1>11, <1>12, <1>13, OwnGood
<1> QED
  BY <1>5, <1>7, <1>8, <1>14 DEF Inv

LEMMA CloseStep ==
  ASSUME Inv, NEW b \in Pages, Break(b) \/ LeavePage(b) \/ PageBye(b)
  PROVE  Inv' /\ server'.committed = server.committed /\ seen' = [seen EXCEPT ![b] = NULL]
<1>1. /\ <<>> \in Seq(Down) /\ events \in 0..MaxEvents /\ MaxEvents \in Nat
  BY GameSyncAssumption DEF Inv, Typed
<1>2. Forget(b)
  BY DEF Break, LeavePage, PageBye
<1> DEFINE lost == server.lost \cup {Sock(b)}
<1>3. CASE Break(b)
  <2>1. Closes(b, "pending-reset", lost, <<>>)
    BY <1>1, <1>3 DEF Break, Closes
  <2> HIDE DEF lost
  <2> QED BY <1>1, <1>2, <2>1, ClosedGood DEF Forget
<1>4. CASE LeavePage(b)
  <2>1. Closes(b, "disconnect", lost, <<>>)
    BY <1>1, <1>4 DEF LeavePage, Closes
  <2> HIDE DEF lost
  <2> QED BY <1>1, <1>2, <2>1, ClosedGood DEF Forget
<1>5. CASE PageBye(b)
  <2> DEFINE rest == Tail(server.down[Sock(b)])
  <2>1. Connected(b) /\ server.down[Sock(b)] # <<>>
        /\ server' = [server EXCEPT !.down[Sock(b)] = rest] /\ events' = events
    BY <1>5 DEF PageBye, Takes
  <2>2. rest \in Seq(Down)
    BY <2>1, SocketIs, TailIs
  <2> HIDE DEF rest
  <2>3. server' = [server EXCEPT !.lost = server.lost, !.down[Sock(b)] = rest]
    BY <2>1 DEF Inv, Typed, Servers
  <2>4. /\ Connected(b) /\ up' = up /\ events' = events
        /\ page' = [page EXCEPT ![b] = [Closed(page[b]) EXCEPT !.status = "disconnect"]]
    BY <1>5, <2>1 DEF PageBye
  <2>5. events' >= events /\ events' \in 0..MaxEvents
    BY <1>1, <2>4
  <2>6. Closes(b, "disconnect", server.lost, rest)
    BY <1>2, <2>3, <2>4, <2>5 DEF Closes
  <2> QED BY <1>2, <2>2, <2>6, ClosedGood DEF Forget
<1> QED
  BY <1>3, <1>4, <1>5

LEMMA ConnectStep ==
  ASSUME Inv, NEW b \in Pages, Connect(b)
  PROVE  Inv' /\ server'.committed = server.committed
<1> DEFINE k == page[b].conns + 1
           c == <<b, k>>
           hello == [verb |-> "req:hello", nick |-> page[b].nick]
           pg == [page[b] EXCEPT !.sock = k, !.conns = k]
           clients == Append(server.clients, c)
<1>1. /\ ~Connected(b) /\ page[b].status = "pending-reset"
      /\ page' = [page EXCEPT ![b].sock = k, ![b].conns = k]
      /\ server' = [server EXCEPT !.clients = clients]
      /\ up' = [up EXCEPT ![c] = <<hello>>]
      /\ events' = events /\ seen' = seen /\ overtaken' = overtaken
  BY DEF Connect
<1>2. /\ Typed /\ Good(server, up) /\ server \in Servers /\ page[b] \in GameClients
      /\ Numbered(b) /\ Fresh(server, up, b) /\ Listed(server) /\ events \in 0..MaxEvents
      /\ MaxEvents \in Nat
  BY GameSyncAssumption DEF Inv, Typed, Good
<1>3. /\ page[b].conns \in Nat /\ k \in 1..(MaxEvents + 1) /\ k > page[b].conns /\ k <= events + 1
      /\ k # 0 /\ k \in Nat
  <2>1. page[b].conns \in Nat /\ page[b].conns <= events
    BY <1>1, <1>2 DEF GameClients, Numbered, Connected
  <2> QED BY <1>2, <2>1
<1>4. c \in Conns /\ c[1] = b
  BY <1>3 DEF Conns
<1>5. c \notin Range(server.clients) /\ c \notin server.lost /\ server.down[c] = <<>>
  BY <1>2, <1>3 DEF Fresh
<1>6. hello \in Up /\ hello.verb = "req:hello"
  BY <1>2 DEF Up, Greetings, GameClients
<1>7. pg \in GameClients /\ pg.sock = k /\ pg.conns = k /\ pg.status = "pending-reset"
      /\ pg.state = page[b].state /\ pg.me = page[b].me /\ pg.pending = page[b].pending
      /\ pg.next_tx = page[b].next_tx
  BY <1>1, <1>2, <1>3 DEF GameClients
<1>8. page' = [page EXCEPT ![b] = pg]
  BY <1>1
<1>9. /\ clients \in Seq(Conns) /\ Range(clients) = Range(server.clients) \cup {c}
      /\ IsInjective(clients)
  <2>1. server.clients \in Seq(Conns) /\ IsInjective(server.clients)
    BY <1>2, ServerIs DEF Listed
  <2> HIDE DEF c
  <2> QED BY <1>4, <1>5, <2>1, AppendRange
<1> HIDE DEF k, c, hello, pg, clients
<1>10. /\ server' \in Servers /\ server'.clients = clients /\ server'.greeted = server.greeted
       /\ server'.synced = server.synced /\ server'.lost = server.lost
       /\ server'.down = server.down
       /\ server'.committed = server.committed /\ server'.users = server.users
  BY <1>1, <1>2, <1>9 DEF Servers
<1>11. <<hello>> \in Seq(Up) /\ Len(<<hello>>) = 1 /\ <<hello>>[1] = hello
  BY <1>6
<1>12. /\ up' \in [Conns -> Seq(Up)] /\ up'[c] = <<hello>>
       /\ \A j \in Conns : j # c => up'[j] = up[j]
  BY <1>1, <1>2, <1>4, <1>11 DEF Typed
<1>13. /\ page' \in [Pages -> GameClients] /\ page'[b] = pg
       /\ \A a \in Pages : a # b => page'[a] = page[a]
  BY <1>2, <1>7, <1>8 DEF Typed
<1>14. Typed'
  BY <1>1, <1>2, <1>10, <1>12, <1>13 DEF Typed
<1>15. \A a \in Pages : Numbered(a)'
  <2> SUFFICES ASSUME NEW a \in Pages PROVE Numbered(a)'
    OBVIOUS
  <2>1. CASE a = b
    <3>1. Connected(b)'
      BY <1>3, <1>7, <1>13 DEF Connected
    <3> QED BY <1>1, <1>2, <1>3, <1>7, <1>13, <2>1, <3>1 DEF Numbered
  <2>2. CASE a # b
    <3>1. Numbered(a) /\ page'[a] = page[a]
      BY <1>13, <2>2 DEF Inv
    <3> QED BY <1>1, <3>1 DEF Numbered, Connected
  <2> QED BY <2>1, <2>2
<1>16. Connected(b)' /\ Sock(b)' = c
  BY <1>3, <1>7, <1>13 DEF Connected, Sock, c
<1>17. Listed(server')
  BY <1>2, <1>9, <1>10 DEF Listed
<1>18. Asked(server', up')
  <2> SUFFICES ASSUME NEW j \in Range(clients), NEW i \in 1..Len(up'[j]),
                      up'[j][i].verb = "req:reset"
               PROVE  j \in server.greeted
    BY <1>10 DEF Asked
  <2>1. CASE j = c
    BY <1>6, <1>11, <1>12, <2>1
  <2>2. CASE j # c
    <3>1. j \in Range(server.clients) /\ j \in Conns
      BY <1>2, <1>9, <2>2, ClientIs
    <3>2. up'[j] = up[j]
      BY <1>12, <2>2, <3>1
    <3> QED BY <1>2, <3>1, <3>2 DEF Good, Asked
  <2> QED BY <2>1, <2>2
<1>19. Fresh(server, up, b)'
  <2>1. \A j \in 1..(MaxEvents + 1) : j > k =>
          j > page[b].conns /\ <<b, j>> \in Conns /\ <<b, j>> # c
    BY <1>3 DEF Conns, c
  <2>2. \A j \in 1..(MaxEvents + 1) : j > k =>
          /\ <<b, j>> \notin Range(clients) /\ <<b, j>> \notin server.lost
          /\ up'[<<b, j>>] = <<>> /\ server.down[<<b, j>>] = <<>>
    BY <1>2, <1>9, <1>12, <2>1 DEF Fresh
  <2> QED BY <1>5, <1>7, <1>10, <1>13, <1>16, <2>2 DEF Fresh
<1>20. Stage(server', c) = "come"
  BY <1>2, <1>5, <1>9, <1>10 DEF Stage, Listed
<1>21. Talk(server, up, b)'
  <2>1. Handshake("pending-reset", UserOf[b], <<>>, <<hello>>, "come")
    BY <1>6, <1>11 DEF Handshake
  <2>2. Answers(pg.pending, pg.next_tx, UserOf[b], <<>>, <<hello>>)
    BY <1>2, <1>6, <1>7, <1>11 DEF Answers, Numbered, Asks
  <2>3. \A from, last : Informed("pending-reset", from, <<>>, "come", last)
    BY DEF Informed
  <2> QED BY <1>5, <1>7, <1>10, <1>12, <1>13, <1>16, <1>20, <2>1, <2>2, <2>3 DEF Talk
<1>22. \A j \in Conns : j[1] # b =>
         /\ server'.down[j] = server.down[j] /\ up'[j] = up[j]
         /\ j \in server'.lost <=> j \in server.lost
         /\ j \in Range(server'.clients) <=> j \in Range(server.clients)
  BY <1>4, <1>9, <1>10, <1>12
<1>23. \A a \in Pages \ {b} : page'[a] = page[a] /\ seen'[a] = seen[a]
  BY <1>1, <1>13
<1>24. Good(server, up)'
  BY <1>10, <1>17, <1>18, <1>19, <1>21, <1>22, <1>23, OwnGood
<1> QED
  BY <1>10, <1>14, <1>15, <1>24 DEF Inv

-----------------------------------------------------------------------------
(* Requests *)

LEMMA OfferedIs ==
  ASSUME NEW pg, NEW o \in Users, NEW m \in Offered(pg, o)
  PROVE  /\ m \in Intents /\ m.p = o /\ Allowed(pg.state, m)
         /\ m.kind = "rm_player" => m.p \in Seated(pg.state)
<1>1. Lead \in Plays /\ Follows \subseteq Plays
  BY DEF Plays
<1>2. \/ m = Call("start_game", o, NULL) \/ m = Call("draw_card", o, NULL)
      \/ m = Call("lead_play", o, Lead) \/ m = Call("collect_trick", o, NULL)
      \/ m = Call("undo_play", o, NULL)
      \/ m = Call("add_player", o, NULL) \/ m = Call("rm_player", o, NULL)
      \/ \E play \in Follows : m = Call("follow_lead", o, play)
  BY DEF Offered
<1>3. Allowed(pg.state, m)
  BY DEF Offered
<1>4. m \in Intents /\ m.p = o
  BY <1>1, <1>2 DEF Call, Intents
<1>5. m.kind = "rm_player" => m.p \in Seated(pg.state)
  BY <1>3 DEF Allowed
<1> QED
  BY <1>3, <1>4, <1>5

LEMMA AttemptStep ==
  ASSUME Inv, NEW b \in Pages, Attempt(b)
  PROVE  Inv' /\ server'.committed = server.committed
<1> DEFINE c == Sock(b)
           d == server.down[c]
           u == up[c]
           stage == Stage(server, c)
           last == View(server.committed, server.users)
           from == View(seen[b], page[b].users)
<1>1. /\ page[b].status = "sync" /\ Connected(b)
      /\ server' = server /\ events' = events /\ seen' = seen /\ overtaken' = overtaken
  BY DEF Attempt
<1>2. PICK m \in Offered(page[b], UserOf[b]) :
        /\ page' = [page EXCEPT ![b] = Attempted(page[b], m)]
        /\ up' = [up EXCEPT ![c] = Append(u, Request(page[b], m))]
  BY DEF Attempt
<1>3. /\ c \in Conns /\ d \in Seq(Down) /\ u \in Seq(Up) /\ c = <<b, page[b].conns>>
      /\ stage \in {"gone", "come", "greeted", "synced"}
      /\ Handshake(page[b].status, UserOf[b], d, u, stage)
      /\ Answers(page[b].pending, page[b].next_tx, UserOf[b], d, u)
      /\ Informed(page[b].status, from, d, stage, last)
  BY <1>1, SocketIs
<1>4. Typed /\ Good(server, up) /\ page[b] \in GameClients /\ Numbered(b) /\ UserOf[b] \in Users
      /\ server \in Servers
  BY GameSyncAssumption DEF Inv, Typed
<1>5. page[b].state \in States
  BY <1>1, <1>4 DEF Numbered, GameClients
<1> DEFINE pg == Attempted(page[b], m)
           r  == Request(page[b], m)
           p  == [tx |-> page[b].next_tx, predicted |-> m.kind \in Predictable, conn |-> page[b].sock]
           v  == Append(u, r)
<1>6. m \in Intents /\ m.p = UserOf[b] /\ (m.kind = "rm_player" => m.p \in Seated(page[b].state))
  BY <1>4, OfferedIs
<1>7. /\ pg \in GameClients /\ pg.state \in States /\ pg.next_tx = page[b].next_tx + 1
      /\ pg.pending = page[b].pending \cup {p} /\ p \in Pendings /\ p.tx = page[b].next_tx
      /\ p.predicted <=> m.kind \in Predictable
      /\ pg.status = page[b].status /\ pg.sock = page[b].sock /\ pg.conns = page[b].conns
      /\ pg.users = page[b].users /\ pg.me = page[b].me
      /\ r \in Up /\ r.verb = "req:update" /\ Asks(r) /\ r.tx = page[b].next_tx /\ r.intent = m
  BY <1>4, <1>5, <1>6, AttemptedIs
<1> HIDE DEF c, d, u, stage, last, from, pg, r, p
<1>8. Handshake(pg.status, UserOf[b], d, v, stage)
  <2>1. Handshake("sync", UserOf[b], d, v, stage)
    BY <1>1, <1>3, <1>7, HandshakeAsks
  <2> QED BY <1>1, <1>7, <2>1
<1>9. Answers(pg.pending, pg.next_tx, UserOf[b], d, v)
  <2>1. page[b].pending \in SUBSET Pendings /\ page[b].next_tx \in Nat /\ r.intent.p = UserOf[b]
    BY <1>4, <1>6, <1>7 DEF GameClients
  <2>2. p.predicted <=> r.intent.kind \in Predictable
    BY <1>7
  <2>3. Answers(page[b].pending \cup {p}, page[b].next_tx + 1, UserOf[b], d, Append(u, r))
    BY <1>3, <1>7, <2>1, <2>2, AnswersAsk
  <2> QED BY <1>7, <2>3
<1>10. v \in Seq(Up) /\ \A i \in 1..Len(v) : v[i].verb = "req:reset" => i \in 1..Len(u) /\ v[i] = u[i]
  BY <1>3, <1>7, AppendIs
<1> HIDE DEF v
<1>11. page' = [page EXCEPT ![b] = pg] /\ up' = [up EXCEPT ![c] = v]
  BY <1>2 DEF pg, r, v
<1>12. /\ up' \in [Conns -> Seq(Up)] /\ up'[c] = v /\ \A k \in Conns : k # c => up'[k] = up[k]
       /\ page' \in [Pages -> GameClients] /\ page'[b] = pg
       /\ \A a \in Pages : a # b => page'[a] = page[a]
  BY <1>3, <1>4, <1>7, <1>10, <1>11 DEF Typed
<1>13. Typed'
  BY <1>1, <1>4, <1>12 DEF Typed
<1>14. \A a \in Pages : Numbered(a)'
  <2> SUFFICES ASSUME NEW a \in Pages PROVE Numbered(a)'
    OBVIOUS
  <2>1. CASE a = b
    <3>1. /\ \A q \in pg.pending : q.tx < pg.next_tx
          /\ \A q1, q2 \in pg.pending : q1.tx = q2.tx => q1 = q2
      BY <1>9 DEF Answers
    <3>2. pg.state # NULL
      BY <1>7, StatesAssumption
    <3> QED BY <1>1, <1>4, <1>7, <1>12, <2>1, <3>1, <3>2 DEF Numbered, Connected
  <2>2. CASE a # b
    <3>1. Numbered(a) /\ page'[a] = page[a]
      BY <1>12, <2>2 DEF Inv
    <3> QED BY <1>1, <3>1 DEF Numbered, Connected
  <2> QED BY <2>1, <2>2
<1>15. Sock(b)' = c /\ Connected(b)'
  BY <1>1, <1>7, <1>12 DEF Sock, Connected, c
<1>16. Asked(server, up')
  <2> SUFFICES ASSUME NEW k \in Range(server.clients), NEW i \in 1..Len(up'[k]),
                      up'[k][i].verb = "req:reset"
               PROVE  k \in server.greeted
    BY DEF Asked
  <2>1. k \in Conns
    BY <1>4, ClientIs
  <2>2. CASE k = c
    <3>1. i \in 1..Len(u) /\ u[i].verb = "req:reset"
      BY <1>10, <1>12, <2>2
    <3> QED BY <1>4, <2>2, <3>1 DEF Good, Asked, u
  <2>3. CASE k # c
    <3>1. up'[k] = up[k]
      BY <1>12, <2>1, <2>3
    <3> QED BY <1>4, <3>1 DEF Good, Asked
  <2> QED BY <2>2, <2>3
<1>17. Fresh(server, up, b)'
  <2>1. Fresh(server, up, b) /\ page[b].conns \in Nat
    BY <1>4 DEF Good, GameClients
  <2>2. \A k \in 1..(MaxEvents + 1) : k > page[b].conns => <<b, k>> \in Conns /\ <<b, k>> # c
    BY <1>3, <2>1 DEF Conns
  <2> QED BY <1>1, <1>7, <1>12, <1>15, <2>1, <2>2 DEF Fresh, c
<1>18. Talk(server, up, b)'
  <2>1. Informed(pg.status, from, d, stage, last)
    BY <1>3, <1>7
  <2>2. from = View(seen[b], pg.users)
    BY <1>7 DEF from
  <2> QED BY <1>1, <1>8, <1>9, <1>12, <1>15, <2>1, <2>2 DEF Talk, d, stage, last
<1>19. \A k \in Conns : k[1] # b => k # c
  BY <1>3
<1>20. Listed(server)
  BY <1>4 DEF Good
<1>21. Good(server, up)'
  <2>1. \A a \in Pages \ {b} : page'[a] = page[a] /\ seen'[a] = seen[a]
    BY <1>1, <1>12
  <2>2. \A k \in Conns : k[1] # b =>
          /\ server'.down[k] = server.down[k] /\ up'[k] = up[k]
          /\ k \in server'.lost <=> k \in server.lost
          /\ k \in Range(server'.clients) <=> k \in Range(server.clients)
    BY <1>1, <1>12, <1>19
  <2>3. Listed(server') /\ Asked(server', up')
    BY <1>1, <1>16, <1>20
  <2> QED BY <1>1, <1>17, <1>18, <2>1, <2>2, <2>3, OwnGood
<1> QED
  BY <1>1, <1>13, <1>14, <1>21 DEF Inv

-----------------------------------------------------------------------------
(* What the server does *)

LEMMA ServedGood ==
  ASSUME Inv, page' = page, seen' = seen, overtaken' \in SUBSET Pages,
         events' \in 0..MaxEvents, events' >= events,
         NEW t \in Servers, NEW y \in [Conns -> Seq(Up)], Good(t, y), server' = t, up' = y
  PROVE  Inv'
<1>1. Typed'
  BY DEF Inv, Typed
<1>2. \A b \in Pages : Numbered(b)'
  <2> SUFFICES ASSUME NEW b \in Pages PROVE Numbered(b)'
    OBVIOUS
  <2>1. Numbered(b) /\ page[b].conns \in Nat
    BY DEF Inv, Typed, GameClients
  <2>2. events \in Nat /\ events' \in Nat
    BY GameSyncAssumption DEF Inv, Typed
  <2>3. /\ page[b].conns <= events + 1 => page[b].conns <= events' + 1
        /\ page[b].conns <= events => page[b].conns <= events'
    BY <2>1, <2>2
  <2> QED BY <2>1, <2>3 DEF Numbered, Connected
<1>3. Good(server, up)'
  <2> SUFFICES ASSUME NEW b \in Pages
               PROVE  Fresh(server, up, b)' /\ (Connected(b)' => Talk(server, up, b)')
    BY DEF Good, Listed, Asked
  <2>1. Fresh(t, y, b) /\ (Connected(b) => Talk(t, y, b))
    BY DEF Good
  <2>2. (Connected(b)' <=> Connected(b)) /\ Sock(b)' = Sock(b)
    BY DEF Connected, Sock
  <2>3. Fresh(server, up, b)'
    BY <2>1, <2>2 DEF Fresh
  <2>4. Connected(b) => Talk(server, up, b)'
    BY <2>1, <2>2 DEF Talk
  <2> QED BY <2>2, <2>3, <2>4
<1> QED
  BY <1>1, <1>2, <1>3 DEF Inv

LEMMA ServerHearsStep ==
  ASSUME Inv, NEW c \in Conns, ServerHears(c)
  PROVE  Inv' /\ server'.committed >= server.committed /\ seen' = seen
<1> DEFINE y == [up EXCEPT ![c] = Tail(up[c])]
<1>1. /\ c \in Range(server.clients) /\ up[c] # <<>> /\ up' = y
      /\ page' = page /\ events' = events /\ seen' = seen
  BY DEF ServerHears, HearHello, HearReset, HearUpdate, Hears
<1>2. /\ Typed /\ server \in Servers /\ up \in [Conns -> Seq(Up)] /\ Good(server, up)
      /\ \A b \in Pages : Numbered(b)
      /\ server.committed \in Nat /\ overtaken \in SUBSET Pages
  BY ServerIs DEF Inv, Typed
<1>3. events' \in 0..MaxEvents /\ events' >= events
  BY <1>1, GameSyncAssumption DEF Inv, Typed
<1>4. Head(up[c]) \in Up /\ y \in [Conns -> Seq(Up)]
  BY <1>1, <1>2, HeardIs, TailIs
<1> HIDE DEF y
<1>5. CASE HearHello(c)
  <2>1. Head(up[c]).verb = "req:hello" /\ server' = Hello(server, c, Head(up[c]).nick)
        /\ overtaken' = overtaken
    BY <1>5 DEF HearHello, Hears
  <2>2. Head(up[c]).nick \in Nat
    BY <1>4, <2>1, UpIs
  <2> DEFINE t == Hello(server, c, Head(up[c]).nick)
  <2>3. t \in Servers /\ Good(t, y) /\ t.committed > server.committed
    BY <1>1, <1>2, <2>1, <2>2, HelloGood DEF y
  <2> HIDE DEF t
  <2>4. server' = t /\ t.committed \in Nat
    BY <2>1, <2>3, ServerIs DEF t
  <2>5. Inv'
    BY <1>1, <1>2, <1>3, <1>4, <2>1, <2>3, <2>4, ServedGood
  <2> QED BY <1>1, <1>2, <2>3, <2>4, <2>5
<1>6. CASE HearReset(c)
  <2>1. Head(up[c]).verb = "req:reset" /\ server' = Reset(server, c) /\ overtaken' = overtaken
    BY <1>6 DEF HearReset, Hears
  <2> DEFINE t == Reset(server, c)
  <2>2. t \in Servers /\ Good(t, y) /\ t.committed = server.committed
    BY <1>1, <1>2, <2>1, ResetGood DEF y
  <2> HIDE DEF t
  <2>3. server' = t
    BY <2>1 DEF t
  <2>4. Inv'
    BY <1>1, <1>2, <1>3, <1>4, <2>1, <2>2, <2>3, ServedGood
  <2> QED BY <1>1, <1>2, <2>2, <2>3, <2>4
<1>7. CASE HearUpdate(c)
  <2> DEFINE m == Head(up[c])
  <2>1. m.verb = "req:update" /\ server' \in Updated(server, c, m.tx, m.intent)
        /\ overtaken' \in {overtaken, overtaken \cup {c[1]}}
    BY <1>7 DEF HearUpdate, Hears
  <2>2. Asks(m)
    BY <2>1 DEF Asks
  <2>3. server' \in Servers /\ Good(server', y) /\ server'.committed >= server.committed
    BY <1>1, <1>2, <2>1, <2>2, UpdatedGood DEF y
  <2>4. overtaken' \in SUBSET Pages
    BY <1>2, <2>1, ConnIs
  <2> HIDE DEF m
  <2>5. PICK t \in Servers : Good(t, y) /\ server' = t
    BY <2>3
  <2>6. Inv'
    BY <1>1, <1>2, <1>3, <1>4, <2>4, <2>5, ServedGood
  <2> QED BY <1>1, <2>3, <2>6
<1> QED
  BY <1>5, <1>6, <1>7 DEF ServerHears

LEMMA HearCloseStep ==
  ASSUME Inv, NEW c \in Conns, HearClose(c)
  PROVE  Inv' /\ server'.committed >= server.committed /\ seen' = seen
<1> DEFINE t == Dispose(server, c)
           y == [up EXCEPT ![c] = <<>>]
<1>1. /\ c \in Range(server.clients) /\ c \in server.lost /\ server' = t /\ up' = y
      /\ page' = page /\ events' = events /\ seen' = seen /\ overtaken' = overtaken
  BY DEF HearClose
<1>2. /\ Typed /\ server \in Servers /\ up \in [Conns -> Seq(Up)] /\ Good(server, up)
      /\ \A b \in Pages : Numbered(b)
      /\ overtaken \in SUBSET Pages
  BY DEF Inv, Typed
<1>3. events' \in 0..MaxEvents /\ events' >= events
  BY <1>1, GameSyncAssumption DEF Inv, Typed
<1>4. /\ t \in Servers /\ Good(t, up) /\ t.committed >= server.committed
      /\ c \notin Range(t.clients)
  BY <1>1, <1>2, DisposeGood
<1>5. y \in [Conns -> Seq(Up)] /\ \A k \in Conns : y[k] = up[k] \/ (y[k] = <<>> /\ k = c)
  <2>1. <<>> \in Seq(Up)
    OBVIOUS
  <2> QED BY <1>2, <2>1
<1> HIDE DEF t, y
<1>6. Good(t, y)
  <2>1. \A k \in Conns : y[k] = up[k] \/ (y[k] = <<>> /\ k \notin Range(t.clients))
    BY <1>4, <1>5
  <2> QED BY <1>2, <1>4, <2>1, ClearGood
<1>7. Inv'
  BY <1>1, <1>2, <1>3, <1>4, <1>5, <1>6, ServedGood
<1> QED
  BY <1>1, <1>4, <1>7

LEMMA RenameStep ==
  ASSUME Inv, NEW u \in Users, Rename(u)
  PROVE  Inv' /\ server'.committed >= server.committed /\ seen' = seen
<1> DEFINE source == CHOOSE d \in Range(server.clients) : Who(d) = u
           who == [id |-> u, nick |-> events + 1]
           r == [server EXCEPT !.users = Renamed(server.users, u, events + 1)]
           t == Broadcast(r, source, "user:nick", who)
<1>1. /\ events < MaxEvents /\ events' = events + 1 /\ server' = t
      /\ up' = up /\ page' = page /\ seen' = seen /\ overtaken' = overtaken
  BY DEF Rename
<1>2. /\ Typed /\ server \in Servers /\ up \in [Conns -> Seq(Up)] /\ Good(server, up)
      /\ \A b \in Pages : Numbered(b)
      /\ overtaken \in SUBSET Pages /\ server.users \in UserLists /\ server.committed \in Nat
  BY ServerIs DEF Inv, Typed
<1>3. events \in Nat /\ events' \in 0..MaxEvents /\ events' >= events
  BY <1>1, GameSyncAssumption DEF Inv, Typed
<1>4. who \in Whos /\ who.id = u /\ who.nick = events + 1 /\ "user:nick" \in Verbs
  BY <1>3 DEF Whos, Verbs
<1>5. /\ r \in Servers /\ SameClients(server, r) /\ r.down = server.down
      /\ r.committed = server.committed /\ r.users = Renamed(server.users, u, events + 1)
  <2>1. Renamed(server.users, u, events + 1) \in UserLists
    BY <1>2, <1>3, RenamedTyped
  <2> QED BY <1>2, <2>1 DEF Servers, SameClients
<1>6. r.users = UsersAfter(server.users, Announcement("user:nick", who))
  BY <1>4, <1>5 DEF UsersAfter, Announcement
<1> HIDE DEF r, who, source
<1>7. t \in Servers /\ Good(t, up) /\ t.committed > server.committed
  BY <1>2, <1>4, <1>5, <1>6, BroadcastGood
<1> HIDE DEF t
<1>8. t.committed \in Nat
  BY <1>7, ServerIs
<1>9. Inv'
  BY <1>1, <1>2, <1>3, <1>7, ServedGood
<1> QED
  BY <1>1, <1>2, <1>7, <1>8, <1>9

LEMMA ExpireStep ==
  ASSUME Inv, Expire
  PROVE  Inv' /\ server'.committed >= server.committed /\ seen' = seen
<1> DEFINE t == Destroyed(server)
           y == [c \in Conns |-> <<>>]
<1>1. /\ events < MaxEvents /\ events' = events + 1 /\ server' = t /\ up' = y
      /\ page' = page /\ seen' = seen /\ overtaken' = overtaken
  BY DEF Expire
<1>2. /\ Typed /\ server \in Servers /\ up \in [Conns -> Seq(Up)] /\ Good(server, up)
      /\ \A b \in Pages : Numbered(b)
      /\ overtaken \in SUBSET Pages
  BY DEF Inv, Typed
<1>3. events' \in 0..MaxEvents /\ events' >= events
  BY <1>1, GameSyncAssumption DEF Inv, Typed
<1>4. t \in Servers /\ Good(t, up) /\ t.committed >= server.committed /\ Range(t.clients) = {}
  BY <1>2, DestroyedGood
<1>5. y \in [Conns -> Seq(Up)] /\ \A k \in Conns : y[k] = <<>>
  <2>1. <<>> \in Seq(Up)
    OBVIOUS
  <2> QED BY <2>1
<1> HIDE DEF t, y
<1>6. Good(t, y)
  <2>1. \A k \in Conns : y[k] = up[k] \/ (y[k] = <<>> /\ k \notin Range(t.clients))
    BY <1>4, <1>5
  <2> QED BY <1>2, <1>4, <2>1, ClearGood
<1>7. Inv'
  BY <1>1, <1>2, <1>3, <1>4, <1>5, <1>6, ServedGood
<1> QED
  BY <1>1, <1>4, <1>7

-----------------------------------------------------------------------------
(* The invariant holds, and what the pages have seen goes on as one history *)

\* No page, no connection and nothing on its way.
LEMMA InvInit == Init => Inv
<1> SUFFICES ASSUME Init PROVE Inv
  OBVIOUS
<1>1. PICK st \in Openings : server = Server(st)
  BY DEF Init
<1>2. /\ up = [c \in Conns |-> <<>>] /\ page = [b \in Pages |-> Page] /\ events = 0
      /\ seen = [b \in Pages |-> NULL] /\ overtaken = {}
  BY DEF Init
<1>3. st \in States /\ st.players \in Seq(Users)
  BY GameSyncAssumption DEF States
<1> DEFINE users == [i \in DOMAIN st.players |-> [id |-> st.players[i], nick |-> 0]]
<1>4. users \in UserLists
  <2>1. \A i \in 1..Len(st.players) : [id |-> st.players[i], nick |-> 0] \in Whos
    BY <1>3 DEF Whos
  <2>2. users \in [1..Len(st.players) -> Whos] /\ Len(st.players) \in Nat
    BY <1>3, <2>1
  <2> HIDE DEF users
  <2> QED BY <2>2, IsASeq DEF UserLists
<1> HIDE DEF users
<1>5. /\ server \in Servers /\ server.clients = <<>> /\ server.greeted = {}
      /\ server.synced = {} /\ server.lost = {} /\ \A c \in Conns : server.down[c] = <<>>
  <2>1. [c \in Conns |-> <<>>] \in [Conns -> Seq(Down)] /\ <<>> \in Seq(Conns)
    OBVIOUS
  <2>2. server = [st |-> st, users |-> users, clients |-> <<>>, greeted |-> {}, synced |-> {},
                  zombie |-> FALSE, down |-> [c \in Conns |-> <<>>], lost |-> {}, committed |-> 0]
    BY <1>1 DEF Server, users
  <2> QED BY <1>3, <1>4, <2>1, <2>2 DEF Servers
<1>6. Page \in GameClients
  <2>1. <<>> \in UserLists /\ NULL \in States \cup {NULL} /\ NULL \in Users \cup {NULL}
    BY DEF UserLists
  <2> QED BY <2>1 DEF Page, GameClients
<1>7. Typed
  <2>1. up \in [Conns -> Seq(Up)]
    BY <1>2
  <2>2. page \in [Pages -> GameClients] /\ seen \in [Pages -> Nat \cup {NULL}]
    BY <1>2, <1>6
  <2> QED BY <1>2, <1>5, <2>1, <2>2, GameSyncAssumption DEF Typed
<1>8. \A b \in Pages : page[b].sock = 0 /\ page[b].conns = 0 /\ page[b].status = "pending-reset"
                       /\ page[b].state = NULL /\ page[b].me = NULL /\ page[b].pending = {}
                       /\ seen[b] = NULL
  BY <1>2 DEF Page
<1>9. \A b \in Pages : Numbered(b)
  BY <1>2, <1>8 DEF Numbered, Connected
<1>10. Range(server.clients) = {}
  BY <1>5 DEF Range
<1>11. Good(server, up)
  <2>1. Listed(server) /\ Asked(server, up)
    BY <1>5, <1>10 DEF Listed, IsInjective, Asked
  <2>2. \A b \in Pages : Fresh(server, up, b)
    <3>1. \A b \in Pages : \A k \in 1..(MaxEvents + 1) : <<b, k>> \in Conns
      BY DEF Conns
    <3> QED BY <1>2, <1>5, <1>8, <1>10, <3>1 DEF Fresh, Connected
  <2> QED BY <1>8, <2>1, <2>2 DEF Good, Connected
<1> QED
  BY <1>7, <1>9, <1>11 DEF Inv

\* A step of the pages and the server is one of the history, or none.
Reads ==
  \/ server'.committed >= server.committed /\ seen' = seen
  \/ /\ server'.committed = server.committed
     /\ \E b \in Pages :
          \/ /\ seen[b] = NULL
             /\ \E n \in 0..server.committed : seen' = [seen EXCEPT ![b] = n]
          \/ seen[b] \in 0..(server.committed - 1) /\ seen' = [seen EXCEPT ![b] = seen[b] + 1]
          \/ seen' = [seen EXCEPT ![b] = NULL]

LEMMA PageStep ==
  ASSUME Inv, NEW b \in Pages,
         Connect(b) \/ Attempt(b) \/ Break(b) \/ LeavePage(b) \/ PageHears(b)
  PROVE  Inv' /\ Reads
<1>1. server.committed \in Nat
  BY ServerIs DEF Inv, Typed
<1>2. CASE Connect(b)
  <2>1. seen' = seen
    BY <1>2 DEF Connect
  <2> QED BY <1>1, <1>2, <2>1, ConnectStep DEF Reads
<1>3. CASE Attempt(b)
  <2>1. seen' = seen
    BY <1>3 DEF Attempt
  <2> QED BY <1>1, <1>3, <2>1, AttemptStep DEF Reads
<1>4. CASE Break(b) \/ LeavePage(b) \/ PageBye(b)
  BY <1>4, CloseStep DEF Reads
<1>5. CASE PageHello(b) \/ PageReject(b)
  <2>1. seen' = seen /\ server'.committed = server.committed
    BY <1>5 DEF PageHello, PageReject, Takes, Inv, Typed, Servers
  <2> QED BY <1>1, <1>5, <2>1, PageHelloStep, PageRejectStep DEF Reads
<1>6. CASE PageReset(b)
  BY <1>6, PageResetStep DEF Reads
<1>7. CASE PageUpdate(b)
  BY <1>7, PageUpdateStep DEF Reads
<1> QED
  BY <1>2, <1>3, <1>4, <1>5, <1>6, <1>7 DEF PageHears

LEMMA InvNext == ASSUME Inv, Next PROVE Inv' /\ Reads
<1>1. ASSUME NEW b \in Pages,
             Connect(b) \/ Attempt(b) \/ Break(b) \/ LeavePage(b) \/ PageHears(b)
      PROVE  Inv' /\ Reads
  BY <1>1, PageStep
<1>2. ASSUME NEW c \in Conns, ServerHears(c) \/ HearClose(c)
      PROVE  Inv' /\ Reads
  BY <1>2, ServerHearsStep, HearCloseStep DEF Reads
<1>3. ASSUME NEW u \in Users, Rename(u) PROVE Inv' /\ Reads
  BY <1>3, RenameStep DEF Reads
<1>4. CASE Expire
  BY <1>4, ExpireStep DEF Reads
<1> QED
  BY <1>1, <1>2, <1>3, <1>4 DEF Next

LEMMA InvStutter == ASSUME Inv, UNCHANGED vars PROVE Inv'
<1>1. /\ server' = server /\ up' = up /\ page' = page /\ events' = events
      /\ seen' = seen /\ overtaken' = overtaken
  BY DEF vars
<1>2. events' >= events /\ events' \in 0..MaxEvents /\ Good(server, up)
  BY <1>1, GameSyncAssumption DEF Inv, Typed
<1> QED
  BY <1>1, <1>2, ServedGood DEF Inv, Typed

LEMMA InvAlways == Spec => []Inv
<1>1. Inv /\ [Next]_vars => Inv'
  BY InvNext, InvStutter
<1> QED
  BY <1>1, InvInit, PTL DEF Spec

-----------------------------------------------------------------------------
(* The theorems *)

\* The pages and the server keep the types and the statuses of client.ts, in
\* every game and however often its connections break.
THEOREM SyncTypes == Spec => []TypeOK
<1>1. Inv => TypeOK
  <2> SUFFICES ASSUME Inv PROVE TypeOK
    OBVIOUS
  <2>1. /\ server.synced \subseteq server.greeted /\ server.greeted \subseteq Range(server.clients)
        /\ Range(server.clients) \subseteq Conns /\ server.committed \in Nat
    <3>1. \A c \in Range(server.clients) : c \in Conns
      BY ClientIs DEF Inv, Typed
    <3> QED BY <3>1, ServerIs DEF Inv, Typed, Good, Listed
  <2>2. \A b \in Pages :
          /\ page[b].status \in {"pending-reset", "sync", "disconnect"}
          /\ page[b].sock \in 0..page[b].conns
          /\ page[b].state # NULL <=> page[b].status = "sync"
          /\ page[b].me \in {NULL, UserOf[b]}
    BY DEF Inv, Typed, GameClients, Numbered
  <2> QED BY <2>1, <2>2 DEF TypeOK
<1> QED
  BY <1>1, InvAlways, PTL

\* No update and no reject reaches a page that has not had its reset, whoever
\* comes, goes, asks and is renamed in between (client.ts:189 and 203).
THEOREM NothingBeforeResetAlways == Spec => []NothingBeforeReset
<1>1. Inv => NothingBeforeReset
  <2> SUFFICES ASSUME Inv, NEW b \in Pages, Connected(b), server.down[Sock(b)] # <<>>,
                      Head(server.down[Sock(b)]).verb \in {"update", "reject"}
               PROVE  page[b].status = "sync"
    BY DEF NothingBeforeReset
  <2>1. /\ page[b].status \in {"pending-reset", "sync"}
        /\ server.down[Sock(b)] \in Seq(Down)
        /\ Handshake(page[b].status, UserOf[b], server.down[Sock(b)], up[Sock(b)],
                     Stage(server, Sock(b)))
    BY SocketIs
  <2>2. Head(server.down[Sock(b)]) = server.down[Sock(b)][1]
    BY <2>1, TailIs
  <2> QED BY <2>1, <2>2 DEF Handshake
<1> QED
  BY <1>1, InvAlways, PTL

\* The list of users that a page was sent once and has changed by announcements
\* since is the server's whenever nothing is on its way to the page.
THEOREM UsersAgreeAlways == Spec => []UsersAgree
<1>1. Inv => UsersAgree
  <2> SUFFICES ASSUME Inv, NEW b \in Pages, Quiet(b)
               PROVE  page[b].users = server.users
    BY DEF UsersAgree
  <2> DEFINE c == Sock(b)
             last == View(server.committed, server.users)
             from == View(seen[b], page[b].users)
  <2>1. page[b].status = "sync" /\ server.down[c] = <<>>
    BY DEF Quiet
  <2>2. Connected(b)
    BY <2>1 DEF Inv, Numbered
  <2>3. /\ Handshake("sync", UserOf[b], <<>>, up[c], Stage(server, c))
        /\ Informed("sync", from, <<>>, Stage(server, c), last)
    BY <2>1, <2>2, SocketIs
  <2> HIDE DEF c, last, from
  <2>4. Stage(server, c) = "synced"
    BY <2>3 DEF Handshake
  <2>5. Gets(from, <<>>, "synced", last)
    BY <2>3, <2>4 DEF Informed
  <2>6. from = last
    BY <2>5, LeadsEmpty DEF Gets
  <2> QED BY <2>6 DEF from, last, View
<1> QED
  BY <1>1, InvAlways, PTL

\* What the pages see of the game is the one history of OneHistory, entry by
\* entry: a page starts anywhere in it, skips nothing, reads nothing twice and
\* never reads ahead.  (That they read all of it needs fairness.)
THEOREM OneHistorySafety == Spec => History!Init /\ [][History!Next]_(History!vars)
<1>1. Init => History!Init
  BY DEF Init, Server, History!Init
<1>2. ASSUME Inv, [Next]_vars PROVE [History!Next]_(History!vars)
  <2>1. CASE UNCHANGED vars
    BY <2>1 DEF vars, History!vars
  <2>2. CASE Next
    <3>1. Inv' /\ Reads
      BY <2>2, <1>2, InvNext
    <3>2. /\ server.committed \in Nat /\ server'.committed \in Nat
          /\ seen \in [Pages -> Nat \cup {NULL}]
      BY <1>2, <3>1, ServerIs DEF Inv, Typed
    <3>3. CASE server'.committed >= server.committed /\ seen' = seen
      <4>1. CASE server'.committed = server.committed
        BY <3>3, <4>1 DEF History!vars
      <4>2. CASE server'.committed # server.committed
        BY <3>2, <3>3, <4>2 DEF History!Next, History!Commit
      <4> QED BY <4>1, <4>2
    <3>4. ASSUME NEW b \in Pages, server'.committed = server.committed, seen[b] = NULL,
                 NEW n \in 0..server.committed, seen' = [seen EXCEPT ![b] = n]
          PROVE  History!Next
      BY <3>4 DEF History!Next, History!Subscribe
    <3>5. ASSUME NEW b \in Pages, server'.committed = server.committed,
                 seen[b] \in 0..(server.committed - 1), seen' = [seen EXCEPT ![b] = seen[b] + 1]
          PROVE  History!Next
      <4>1. seen[b] # NULL /\ seen[b] < server.committed
        BY <3>2, <3>5, TableAssumption
      <4> QED BY <3>5, <4>1 DEF History!Next, History!Read
    <3>6. ASSUME NEW b \in Pages, server'.committed = server.committed,
                 seen' = [seen EXCEPT ![b] = NULL]
          PROVE  [History!Next]_(History!vars)
      <4>1. CASE seen[b] = NULL
        <5>1. seen' = seen
          BY <3>2, <3>6, <4>1
        <5> QED BY <3>6, <5>1 DEF History!vars
      <4>2. CASE seen[b] # NULL
        BY <3>6, <4>2 DEF History!Next, History!Unsubscribe
      <4> QED BY <4>1, <4>2
    <3> QED BY <3>1, <3>3, <3>4, <3>5, <3>6 DEF Reads
  <2> QED BY <1>2, <2>1, <2>2
<1> QED
  BY <1>1, <1>2, InvAlways, PTL DEF Spec
=============================================================================
