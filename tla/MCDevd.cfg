SPECIFICATION FairSpec
CONSTANTS
  Event <- MCEvent
  Fd <- MCFd
  NoFd <- MCNoFd
  MaxInbox = 2
INVARIANTS TypeOK ResourcesAgree
PROPERTIES ImplementsLink Reconnects
