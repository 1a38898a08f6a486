----------------------------- MODULE MCGameSync -----------------------------
(* Small games for GameSync. *)
EXTENDS GameSync, TLC

CONSTANTS ann, bob, cat, page1, page2

\* Two players at home and one whose connection is gone.
TwoPages == page1 :> bob @@ page2 :> cat

\* A table that nobody has come to, and one in the middle of a trick: ann has
\* led, bob has beaten it, cat is to follow, and everybody has one more card.
InLobby == Empty
InTrick == [Empty EXCEPT !.phase = "FOLLOW", !.owner = ann, !.players = <<ann, bob, cat>>,
                         !.cur = 2, !.leader = ann, !.tricks = 2,
                         !.plays = [NoPlays EXCEPT ![ann] = Lead, ![bob] = 2], !.winning = bob]
LobbyAndTrick == {InLobby, InTrick}

\* Whoever has a page open on a trick plays in it (NobodyWatches, of which the
\* proof of SyncUnlessOvertaken in GameCopyProofs makes use).
ASSUME NobodyOnlyWatches ==
    \A st \in Openings : st.phase \in {"LEAD", "FOLLOW"} => \A b \in Pages : UserOf[b] \in Seated(st)

\* Every opening is one that turns lead to (OpenInTurn, of which the proof of
\* TurnsKeepPredictions makes use).
ASSUME OpeningsInTurn ==
    \A st \in Openings :
      /\ st.phase = "LEAD" => st.plays = NoPlays /\ st.winning = NULL
      /\ st.phase = "FOLLOW" =>
           /\ \A u \in Users : st.plays[u] # NULL => u \in Seated(st)
           /\ trick_over(st.plays, st) => current(st) \in {NULL, st.winning}
=============================================================================
