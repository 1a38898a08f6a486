----------------------------- MODULE MCPlayArea -----------------------------
(* Instances of PlayArea: three seats, two faces.                          *)
EXTENDS PlayArea

CONSTANTS low, high

MCFaces == {low, high}
MCKitty == low :> 1 @@ high :> 0

Round(phase, host, leader, cur, deck, hand) ==
  [phase |-> phase, host |-> host, leader |-> leader, cur |-> cur,
   deck |-> deck, hand |-> hand, consensus |-> {}, winning |-> leader,
   prior |-> leader, lead |-> Nothing, play |-> Nothing]

\* The last cards are being drawn, and Me is going to be the host.
Drawing == Round("DRAW", Me, Me, 1, 3, low :> 1 @@ high :> 0)

\* Me is to lead, or the seat before Me.
Leading(hand) == Round("LEAD", Me, Me, Me, 0, hand)
Following(hand) == Round("LEAD", 1, 2, 2, 0, hand)

Start(round, habits_, losses_) ==
  [round |-> round, habits |-> habits_, losses |-> losses_]

MCStarts ==
  {Start(Drawing, {"auto_draw"}, 1),
   Start(Leading(low :> 1 @@ high :> 1), {"undo"}, 1),
   Start(Following(low :> 1 @@ high :> 1), {"undo"}, 1),
   Start(Following(low :> 2 @@ high :> 0), {"select", "drag"}, 0),
   Start(Leading(low :> 2 @@ high :> 1), {"chunk", "drag"}, 0)}
=============================================================================
