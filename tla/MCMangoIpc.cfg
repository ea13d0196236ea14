SPECIFICATION FairSpec
CONSTANTS
  Output <- MCOutput
  Tag <- MCTag
  UrgentTag <- MCUrgentTag
  MaxWire = 2
  MaxScreens = 2
  MaxFlight = 3
INVARIANTS TagsAgree ViewAllReaches
PROPERTIES ImplementsLink Reconnects

