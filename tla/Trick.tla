------------------------------- MODULE Trick -------------------------------
(***************************************************************************)
(* Tractors, flights and the follow rule of src/lib/zpy/trick.ts.          *)
(*                                                                         *)
(* A tractor is named by its virtual suit and starting virtual rank, its   *)
(* shape, and the suit of the off-suit natural trump it runs through, if   *)
(* any.  A play is a record [tractors, cards]: a Flight has a nonempty     *)
(* sequence of tractors in precedence order, a Toss has none; `cards` is   *)
(* the pile that gen_counts() yields for it.                               *)
(*                                                                         *)
(* Hand keeps indexes K and I so that follow_with() finds tractors fast;   *)
(* here a tractor is available when the pile contains its cards, which is  *)
(* what a valid Node stands for.                                           *)
(*                                                                         *)
(* Definitions marked "Slip" are plausible bugs, used by no specification. *)
(***************************************************************************)
EXTENDS Cards, FiniteSetsExt, TLC

\* A shape is <<arity, len>>, so that Tractor.Shape.compare is lexicographic.
ShapeLess(a, b) == \/ a[1] < b[1]
                   \/ a[1] = b[1] /\ a[2] < b[2]

ShapeOf(t) == <<t.arity, t.len>>

\* Tractor.gen_counts: the distinct cards, each of which occurs arity times.
TractorCards(tr, t) ==
  {Devirt(tr, t.suit, IncBy(tr, t.rank, i), t.osnt) : i \in 0..(t.len - 1)}
TractorPile(tr, t) ==
  LET cards == TractorCards(tr, t)
  IN  [c \in StdDeck |-> IF c \in cards THEN t.arity ELSE 0]

Holds(tr, pile, t) ==
  \A c \in TractorCards(tr, t) : c \in StdDeck /\ pile[c] >= t.arity

\* Whether t runs through the off-suit natural trump rank.
ThroughOsnt(tr, t) == \E i \in 0..(t.len - 1) : IncBy(tr, t.rank, i) = NOff

\* Every tractor of virtual suit `suit` that can be made from the pile; only
\* tuples of two or more chain into longer tractors.
TractorsIn(tr, pile, suit) ==
  LET held  == {c \in StdDeck : pile[c] > 0 /\ VSuit(tr, c) = suit}
      ranks == {VRank(tr, c) : c \in held}
      osnts == {c.suit : c \in {d \in held : VRank(tr, d) = NOff}}
      most  == {0} \cup {pile[c] : c \in held}
  IN  {t \in [len : 1..Cardinality(ranks), arity : 1..Max(most),
              suit : {suit}, rank : ranks, osnt : osnts \cup {NULL}] :
         /\ t.len > 1 => t.arity > 1
         /\ ThroughOsnt(tr, t) <=> t.osnt # NULL
         /\ Holds(tr, pile, t)}

TractorCompare(l, r) ==
  IF ShapeOf(l) # ShapeOf(r) THEN NULL
  ELSE Compare([suit |-> l.suit, rank |-> l.rank], [suit |-> r.suit, rank |-> r.rank])

-----------------------------------------------------------------------------
(* Flights and plays *)

OsntIdx(t) == IF t.osnt = NULL THEN 0 ELSE SuitIdx[t.osnt]

\* The Flight constructor's order: shape, then rank, both descending.  The
\* source leaves equal tractors (off-suit natural trumps) in the order given.
Precedes(a, b) ==
  \/ ShapeLess(ShapeOf(b), ShapeOf(a))
  \/ ShapeOf(a) = ShapeOf(b) /\ a.rank > b.rank
  \/ ShapeOf(a) = ShapeOf(b) /\ a.rank = b.rank /\ OsntIdx(a) <= OsntIdx(b)

TractorsPile(tr, ts) ==
  [c \in StdDeck |-> SumFunction([i \in DOMAIN ts |-> TractorPile(tr, ts[i])[c]])]

Flight(tr, ts) == [tractors |-> SortSeq(ts, Precedes), cards |-> TractorsPile(tr, ts)]
Toss(pile) == [tractors |-> <<>>, cards |-> pile]

IsFlight(play) == play.tractors # <<>>
FlightSuit(play) == play.tractors[1].suit

\* Slip: copies are not counted.
Count_distinct(play) == Cardinality({c \in StdDeck : play.cards[c] > 0})

Count(play) == Size(play.cards)

\* Flight#beats: whether `play` holds against `other`, played after it.
Beats(play, other) ==
  \/ ~IsFlight(other)
  \/ Len(play.tractors) # Len(other.tractors)
  \/ \E i \in 1..Len(play.tractors) :
       LET cmp == TractorCompare(play.tractors[i], other.tractors[i])
       IN  cmp = NULL \/ cmp >= 0

\* Every flight of at most `most` tractors of one virtual suit in the pile.
FlightsIn(tr, pile, suit, most) ==
  LET ts == TractorsIn(tr, pile, suit)
      grow[k \in 0..most] ==
        IF k = 0 THEN {<<>>}
        ELSE LET longer == UNION {{Append(f, t) : t \in ts} :
                                  f \in {g \in grow[k - 1] : Len(g) = k - 1}}
             IN  grow[k - 1] \cup
                 {f \in longer : /\ k > 1 => Precedes(f[k - 1], f[k])
                                 /\ Contains(pile, TractorsPile(tr, f))}
  IN  {[tractors |-> f, cards |-> TractorsPile(tr, f)] : f \in grow[most] \ {<<>>}}

\* The ways to submit the cards of `pile` as a play: one Toss if they are of
\* several suits, else any arrangement into a flight.
PlaysOf(tr, pile) ==
  LET suits == {VSuit(tr, c) : c \in {d \in StdDeck : pile[d] > 0}}
  IN  IF Cardinality(suits) # 1 THEN {Toss(pile)}
      ELSE {f \in FlightsIn(tr, pile, CHOOSE s \in suits : TRUE, Size(pile)) :
              f.cards = pile}

-----------------------------------------------------------------------------
(* Hand#follow_with *)

\* Flight#blueprint.
Design(lead) ==
  LET shapes == [i \in DOMAIN lead.tractors |-> ShapeOf(lead.tractors[i])]
  IN  SelectSeq(shapes, LAMBDA s : s[1] > 1)

\* diff_shapes: what is left of the shape `big` once `smol` is matched for it.
\* As in the source, the part below a narrower match keeps big's full length.
DiffShapes(big, smol) ==
  SelectSeq(<<<<big[1], big[2] - smol[2]>>>>, LAMBDA s : s[2] > 0) \o
  SelectSeq(<<<<big[1] - smol[1], big[2]>>>>, LAMBDA s : s[1] > 1)

\* Slip: a longer tractor than asked for is demanded as well.
BestMatch_longer(ts, shape) ==
  LET fit == {ShapeOf(t) : t \in {u \in ts : u.arity \in 2..shape[1]}}
  IN  IF fit = {} THEN NULL ELSE CHOOSE s \in fit : \A o \in fit : ~ShapeLess(s, o)

\* The shape that matches `shape` in the pile: the tallest, then the longest,
\* of those no larger; NULL when the pile has not even a pair.
BestMatch(ts, shape) ==
  LET fit == {ShapeOf(t) : t \in {u \in ts : u.arity \in 2..shape[1] /\ u.len <= shape[2]}}
  IN  IF fit = {} THEN NULL ELSE CHOOSE s \in fit : \A o \in fit : ~ShapeLess(s, o)

\* One step of the search: pop the strongest shape of st.shapes and branch on
\* every tractor of the best shape that matches it.  A path ends when no
\* shape is left or none matches.  (A shape that matches nothing stays popped in
\* explore, trick.ts:775, 792, 971, also for the branches tried after it; here each
\* branch has its own.  With fewer than four copies of a card that is the same.)
Step(tr, suit, st) ==
  IF st.shapes = <<>> THEN {st}
  ELSE LET shape == Head(st.shapes)
           ts    == TractorsIn(tr, st.pile, suit)
           match == BestMatch(ts, shape)
           More(left) == SortSeq(Tail(st.shapes) \o left,
                                 LAMBDA a, b : ~ShapeLess(a, b))
       IN  IF match = NULL THEN {[st EXCEPT !.shapes = <<>>]}
           ELSE {[path   |-> Append(st.path, t),
                  shapes |-> More(DiffShapes(shape, match)),
                  pile   |-> TakePile(st.pile, TractorPile(tr, t))] :
                 t \in {u \in ts : ShapeOf(u) = match}}

\* All the paths of the search through the hand.
Paths(tr, hand, lead, suit) ==
  LET most == Size(hand) \div 2 + 1
      reach[k \in 0..most] ==
        IF k = 0 THEN {[path |-> <<>>, shapes |-> Design(lead), pile |-> hand]}
        ELSE UNION {Step(tr, suit, st) : st \in reach[k - 1]}
  IN  {st.path : st \in reach[most]}

PathShapes(path) == [i \in DOMAIN path |-> ShapeOf(path[i])]

\* Blueprint.compare_with(p, q) < 0: lexicographic, a proper prefix is less.
Weaker(p, q) ==
  LET common == {i \in DOMAIN p \cap DOMAIN q : p[i] # q[i]}
  IN  IF common = {} THEN Len(p) < Len(q)
      ELSE ShapeLess(p[Min(common)], q[Min(common)])

\* The paths that match the lead's constraints best.
BestPaths(tr, hand, lead, suit) ==
  LET paths == Paths(tr, hand, lead, suit)
  IN  {p \in paths : \A q \in paths : ~Weaker(PathShapes(p), PathShapes(q))}

FullFollow(tr, lead, pile) == SuitCount(tr, pile, FlightSuit(lead)) = Size(pile)
FullTrump(tr, pile) == SuitCount(tr, pile, "T") = Size(pile)

FollowsSuit(tr, hand, lead, pile) ==
  \/ FullFollow(tr, lead, pile)
  \/ SuitCount(tr, pile, FlightSuit(lead)) = SuitCount(tr, hand, FlightSuit(lead))

TargetSuit(tr, lead, pile) == IF FullTrump(tr, pile) THEN "T" ELSE FlightSuit(lead)

\* The best paths that the played pile contains.
Matches(tr, hand, lead, pile) ==
  {p \in BestPaths(tr, hand, lead, TargetSuit(tr, lead, pile)) :
     Contains(pile, TractorsPile(tr, p))}

\* Slip: following suit is enough.
Follows_suit(tr, hand, lead, pile) == FollowsSuit(tr, hand, lead, pile)

\* follow_with().follows: false is a renege.
Follows(tr, hand, lead, pile) ==
  /\ FollowsSuit(tr, hand, lead, pile)
  /\ \/ TargetSuit(tr, lead, pile) # FlightSuit(lead)
     \/ Matches(tr, hand, lead, pile) # {}

\* The rest of a parse: every unmatched card is a singleton.
Singles(tr, pile) ==
  LET osnt(c) == IF VRank(tr, c) = NOff THEN c.suit ELSE NULL
      single(c) == [len |-> 1, arity |-> 1, suit |-> VSuit(tr, c),
                    rank |-> VRank(tr, c), osnt |-> osnt(c)]
  IN  FoldSet(LAMBDA t, s : Append(s, single(t[1])), <<>>, Tokens(pile))

\* follow_with().parses: the matches that have the lead's whole structure.
ParsePaths(tr, hand, lead, pile) ==
  IF /\ FollowsSuit(tr, hand, lead, pile)
     /\ FullFollow(tr, lead, pile) \/ FullTrump(tr, pile)
  THEN {p \in Matches(tr, hand, lead, pile) : PathShapes(p) = Design(lead)}
  ELSE {}

\* One parse; its tractors make up the pile again.
Parse(tr, pile, path) ==
  [tractors |-> SortSeq(path \o Singles(tr, TakePile(pile, TractorsPile(tr, path))), Precedes),
   cards    |-> pile]

\* The order in which the search meets the paths: lowest start rank first.
Before(p, q) ==
  LET diff == {i \in DOMAIN p \cap DOMAIN q : p[i] # q[i]}
  IN  diff # {} /\ LET i == Min(diff)
                   IN  \/ p[i].rank < q[i].rank
                       \/ p[i].rank = q[i].rank /\ OsntIdx(p[i]) < OsntIdx(q[i])

\* Slip: the play stays as the player arranged it.
BestPlay_asGiven(tr, hand, lead, play) == play

\* follow_lead: parses.find(fl => fl.beats(lead)) ?? play.
BestPlay(tr, hand, lead, play) ==
  LET good == {p \in ParsePaths(tr, hand, lead, play.cards) :
                 Beats(Parse(tr, play.cards, p), lead)}
  IN  IF good = {} THEN play
      ELSE Parse(tr, play.cards, CHOOSE p \in good : \A q \in good : ~Before(q, p))
=============================================================================
