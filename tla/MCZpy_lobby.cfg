CONSTANTS
  u1 = u1
  u2 = u2
  u3 = u3
  u4 = u4
  u5 = u5
  u6 = u6
  NULL = NULL
  Users = {u1, u2, u3, u4}
  Arrived <- Nobody
  ZeroUser = NULL
  MinPlayers = 3
  MaxPlayers = 4
  KittyLow = 0
  KittyHigh = 10
  StdDeck <- LobbyDeck
  Shuffles <- LobbyShuffles
  Debug = FALSE
  Habits = {"guest leaves"}
  RuleSets = {}
  RankChoices = {}
  DeckChoices = {1}
  MaxRound = 2
  MaxTractors = 2
SPECIFICATION Spec
INVARIANTS SeatsOK OwnerSeated
PROPERTY NextHostWon
SYMMETRY Anyone
CHECK_DEADLOCK FALSE
