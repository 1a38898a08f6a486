CONSTANTS
  u1 = u1
  u2 = u2
  u3 = u3
  u4 = u4
  u5 = u5
  u6 = u6
  NULL = NULL
  Users = {u1, u2, u3, u4}
  Arrived <- ThreeSeated
  ZeroUser = NULL
  MinPlayers = 3
  MaxPlayers = 4
  KittyLow = 0
  KittyHigh = 10
  StdDeck <- BidDeck
  Shuffles <- BidShuffles
  Debug = TRUE
  Habits = {"redeal", "spectator votes"}
  RuleSets = {}
  RankChoices = {}
  DeckChoices = {}
  MaxRound = 2
  MaxTractors = 2
SPECIFICATION Spec
INVARIANTS BidsEscalate DealEven
 
CHECK_DEADLOCK FALSE
