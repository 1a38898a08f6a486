----------------------------- MODULE Following -----------------------------
(***************************************************************************)
(* One player's hand through a series of tricks led by somebody else: the  *)
(* life of a Hand between seal_hand and the end of the round, seen by its  *)
(* two operations, follow_with and undo.  The module runs the follow rule  *)
(* of Trick against every hand, lead and play of a small world.            *)
(***************************************************************************)
EXTENDS Trick

CONSTANT
  Rounds   \* the rounds to look at: [tr, hands, leads], where `tr` is the trump
           \* selection, `hands` are the hands the player may have been dealt,
           \* and `leads` the flights that may be led

ASSUME FollowingAssumption ==
  \A r \in Rounds : /\ r.tr \in TrumpMeta
                    /\ \A h \in r.hands : h \in Piles
                    /\ \A f \in r.leads : IsFlight(f) /\ f.cards \in Piles

VARIABLES
  round,  \* the round being played
  hand,   \* Hand.pile
  lead,   \* the flight to follow; NULL between tricks
  last    \* the follow of this trick, which may still be undone; NULL if none

vars == <<round, hand, lead, last>>

Trump == round.tr

-----------------------------------------------------------------------------

Init == round \in Rounds /\ hand \in round.hands /\ lead = NULL /\ last = NULL

\* A new trick is led, with no more cards than the player has left.
Led(f) ==
  /\ lead = NULL \/ last # NULL
  /\ Count(f) <= Size(hand)
  /\ lead' = f
  /\ last' = NULL
  /\ UNCHANGED <<round, hand>>

\* follow_with on a play that does not renege; the hand loses its cards and
\* the table sees the best parse.
FollowWith(pile) ==
  /\ lead # NULL /\ last = NULL
  /\ Follows(Trump, hand, lead, pile)
  /\ \E play \in PlaysOf(Trump, pile) :
       last' = [submitted |-> play, best |-> BestPlay(Trump, hand, lead, play)]
  /\ hand' = TakePile(hand, pile)
  /\ UNCHANGED <<round, lead>>

\* undo: the most recent follow is taken back into the hand.
Undo ==
  /\ last # NULL
  /\ hand' = AddPile(hand, last.best.cards)
  /\ last' = NULL
  /\ UNCHANGED <<round, lead>>

Next == \/ \E f \in round.leads : Led(f)
        \/ lead # NULL /\ \E pile \in SubPiles(hand, Count(lead)) : FollowWith(pile)
        \/ Undo

Spec == Init /\ [][Next]_vars

-----------------------------------------------------------------------------
(* Properties *)

\* Nobody is ever stuck: whatever is led and whatever the hand, some set of
\* cards follows it (under RenegeRule.FORBID follow_lead refuses the others).
CanFollow ==
  lead # NULL /\ last = NULL =>
    \E pile \in SubPiles(hand, Count(lead)) : Follows(Trump, hand, lead, pile)

\* Disjoint pairs that a pile has in a suit.
Pairs(pile, suit) ==
  SumFunction([c \in {d \in StdDeck : VSuit(Trump, d) = suit} |-> pile[c] \div 2])

LeadPairs(f) == SumFunction([i \in DOMAIN f.tractors |->
                  f.tractors[i].len * (f.tractors[i].arity \div 2)])

\* A follow in suit gives up as many pairs as the lead asks for and the hand
\* has: tractors may be broken up, pairs may not be held back.
PairsHonoured ==
  [][last = NULL /\ last' # NULL /\ FullFollow(Trump, lead, last'.best.cards) =>
       LET suit == FlightSuit(lead)
           want == LeadPairs(lead)
           have == Pairs(hand, suit)
       IN  Pairs(last'.best.cards, suit) >= (IF want < have THEN want ELSE have)]_vars

\* Against a lone tractor, whoever holds a tractor of that shape in suit and
\* follows in suit plays one.
TractorHonoured ==
  [][last = NULL /\ last' # NULL /\ Len(lead.tractors) = 1
       /\ FullFollow(Trump, lead, last'.best.cards) =>
       LET same(pile) == {t \in TractorsIn(Trump, pile, FlightSuit(lead)) :
                            ShapeOf(t) = ShapeOf(lead.tractors[1])}
       IN  same(hand) # {} => same(last'.best.cards) # {}]_vars

\* The search misses no parse and invents none: what it finds in a play, however
\* the player arranged it, is every arrangement of its cards into tractors of the
\* lead's shapes, in the lead's suit or in trump (the parses of follow_with).  The
\* play is recorded as one of them if one beats the lead, else as submitted.
Shapes(f) == [i \in DOMAIN f.tractors |-> ShapeOf(f.tractors[i])]
ParseFound ==
  last # NULL =>
    LET cards    == last.best.cards
        likeLead == {f \in PlaysOf(Trump, cards) :
                       /\ IsFlight(f) /\ FlightSuit(f) \in {FlightSuit(lead), "T"}
                       /\ Shapes(f) = Shapes(lead)}
    IN  /\ cards = last.submitted.cards
        /\ likeLead = {Parse(Trump, cards, p) :
                         p \in ParsePaths(Trump, AddPile(hand, cards), lead, cards)}
        /\ IF \E f \in likeLead : Beats(f, lead)
           THEN last.best \in likeLead /\ Beats(last.best, lead)
           ELSE last.best = last.submitted

\* follow_with: its parses "can be used to authoritatively determine
\* whether the play can beat the lead"; so if some arrangement of the cards
\* beats the lead, the one recorded does.
BestPlayWins ==
  last # NULL =>
    ((\E f \in PlaysOf(Trump, last.best.cards) : ~Beats(lead, f))
      => ~Beats(lead, last.best))
=============================================================================
