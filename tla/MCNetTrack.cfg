SPECIFICATION FairSpec
CONSTANTS
  em0 = em0
  wlan0 = wlan0
  lo0 = lo0
  d1 = d1
  d2 = d2
  Iface <- One
  Wireless <- MCWireless
  Wired <- MCWired
  Ignored <- MCIgnored
  NoIface = NoIface
  Dev <- TwoDevices
  NoDev = NoDev
  Fd <- MCFd
  NoFd <- MCNoFd
  MaxInbox = 2
  MaxRoute = 2
  MaxCmds = 0
INVARIANTS TypeOK ModelMirrorsDevices Converged NoLostLinkChange
PROPERTIES Follows
