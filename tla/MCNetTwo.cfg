SPECIFICATION Spec
CONSTANTS
  em0 = em0
  wlan0 = wlan0
  lo0 = lo0
  d1 = d1
  d2 = d2
  Iface <- Two
  Wireless <- MCWireless
  Wired <- MCWired
  Ignored <- MCIgnored
  NoIface = NoIface
  Dev <- TwoDevices
  NoDev = NoDev
  Fd <- MCFd
  NoFd <- MCNoFd
  MaxInbox = 0
  MaxRoute = 1
  MaxCmds = 1
INVARIANTS WifiSwitchSettles Converged
SYMMETRY Symmetry
