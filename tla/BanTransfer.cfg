CONSTANTS
  Lists <- MCLists
  MaxEntry = 4
  Window <- MCWindow
  Piece = 2
  Protected = {1}
  ServerLists <- MCServerLists
  ClientLists <- MCClientLists
  MaxBans = 1
  MaxFaults = 2
SPECIFICATION FairSpec
INVARIANTS TypeOK Delivered OwnBansSurvive
PROPERTY ClientGetsList
CHECK_DEADLOCK FALSE
