SPECIFICATION Spec
CONSTANTS
  ap1 = ap1
  ap2 = ap2
  s1 = s1
  s2 = s2
  Bssid <- TwoAps
  NoBssid = NoBssid
  Saved <- MCSaved
  Error = Error
  Scan <- TwoScans
  ChunkSize = 1
  MaxLines = 2
  MaxEvents = 1
  MaxRefresh = 1
  MaxCommands = 0
  MaxLoads = 2
INVARIANTS TypeOK ScanLock ListMirrorsMap KnownPending SettledAgrees
SYMMETRY Symmetry
