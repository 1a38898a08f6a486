CONSTANTS
  ann = ann
  bob = bob
  cat = cat
  page1 = page1
  page2 = page2
  NULL = NULL
  Users = {ann, bob, cat}
  MinPlayers = 2
  MaxPlayers = 3
  DeckSize = 1
  Pages = {page1, page2}
  UserOf <- TwoPages
  Openings <- LobbyAndTrick
  Habits = {"undo"}
  MaxAttempts = 2
  MaxEvents = 1
SPECIFICATION FairSpec
INVARIANTS TypeOK NothingBeforeReset SyncUnlessOvertaken UsersAgree RequestsAnswered
PROPERTIES TurnsKeepPredictions OneHistorySpec
CHECK_DEADLOCK FALSE
