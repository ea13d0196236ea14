SPECIFICATION FairSpec
CONSTANTS
  Unit <- MCUnit
  Nid <- MCNid
  Headphone <- MCHeadphone
  MaxUnread = 2
INVARIANTS TypeOK SettledAgrees JacksFollowLog
PROPERTIES NoticeRescans
