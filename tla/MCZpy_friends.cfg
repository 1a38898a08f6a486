CONSTANTS
  u1 = u1
  u2 = u2
  u3 = u3
  u4 = u4
  u5 = u5
  u6 = u6
  NULL = NULL
  Users = {u1, u2, u3, u4, u5, u6}
  Arrived <- SixSeated
  ZeroUser = NULL
  MinPlayers = 6
  MaxPlayers = 6
  KittyLow = 0
  KittyHigh = 10
  StdDeck <- FriendDeck
  Shuffles <- FriendShuffles
  Debug = TRUE
  Habits = {}
  RuleSets <- FixedTeams
  RankChoices = {}
  DeckChoices = {}
  MaxRound = 1
  MaxTractors = 2
SPECIFICATION Spec
INVARIANTS TallyExact TeamsOK
CONSTRAINT OneRound
CHECK_DEADLOCK FALSE
