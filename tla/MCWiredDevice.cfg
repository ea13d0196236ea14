SPECIFICATION FairSpec
CONSTANTS
  Error = Error
  MaxEvents = 2
  MaxRefresh = 2
  MaxDowns = 2
INVARIANTS TypeOK SettledAgrees
PROPERTIES DisconnectEnds
