CONSTANTS
  alice = alice
  bob = bob
  game = game
  NULL = NULL
  Principals = {alice, bob}
  Games = {game}
  MaxGames = 1
  MaxConns = 2
  MaxByes = 1
  MaxTroubles = 2
SPECIFICATION FairSpec
INVARIANTS TypeOK OneObject  PlayersKnown SameUser
PROPERTIES OthersStay GamesEnd
CHECK_DEADLOCK FALSE
