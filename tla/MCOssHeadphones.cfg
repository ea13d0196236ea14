SPECIFICATION Spec
CONSTANTS
  Unit <- MCUnit
  Nid <- MCNid
  Headphone <- MCHeadphone
  MaxUnread = 2
INVARIANTS HeadphonesConnectedFollows
