CONSTANTS
  Player = {p1, p2}
  Nobody = Nobody
  TempBanned = {p2}
  BannedAddress = {p1}
  BannedRange = {p1}
  BannedCity = {p2}
  BannedCountry = {p1}
  BannedName = {p2}
  Protected = {p2}
  Switched = {"messages", "city"}
  Slots = 2
  Limit = 2
  MaxFaults = 1
SPECIFICATION FairSpec
INVARIANTS TypeOK WarningsStick NestingBounded KickIsEarned
PROPERTIES BannedLeave KicksCease TableCatchesUp NoOneElseIsHit
CHECK_DEADLOCK FALSE
