CONSTANTS
  NULL = NULL
  StdDeck <- BothDeck
  Rounds <- BothRounds
SPECIFICATION Spec
INVARIANTS CanFollow ParseFound BestPlayWins
PROPERTIES PairsHonoured TractorHonoured
CHECK_DEADLOCK FALSE
