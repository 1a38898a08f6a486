CONSTANTS
  NULL = NULL
  StdDeck <- QuadDeck
  Rounds <- QuadRounds
SPECIFICATION Spec
INVARIANT CanFollow
CHECK_DEADLOCK FALSE
