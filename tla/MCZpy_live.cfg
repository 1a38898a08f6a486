CONSTANTS
  u1 = u1
  u2 = u2
  u3 = u3
  u4 = u4
  u5 = u5
  u6 = u6
  NULL = NULL
  Users = {u1, u2, u3}
  Arrived <- ThreeSeated
  ZeroUser = NULL
  MinPlayers = 3
  MaxPlayers = 3
  KittyLow = 0
  KittyHigh = 10
  StdDeck <- FlyDeck
  Shuffles <- FlyShuffles
  Debug = TRUE
  Habits = {}
  RuleSets = {}
  RankChoices = {}
  DeckChoices = {1}
  MaxRound = 1
  MaxTractors = 2
SPECIFICATION FairSpec
PROPERTY RoundEnds
CHECK_DEADLOCK FALSE
