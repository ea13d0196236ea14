SPECIFICATION FairSpec
CONSTANTS
  ap1 = ap1
  ap2 = ap2
  s1 = s1
  s2 = s2
  Bssid <- OneAp
  NoBssid = NoBssid
  Saved <- NoneSaved
  Error = Error
  Scan <- OneScan
  ChunkSize = 1
  MaxLines = 2
  MaxEvents = 1
  MaxRefresh = 1
  MaxCommands = 1
  MaxLoads = 1
INVARIANTS TransientBacked SettledAgrees
PROPERTIES ScanEnds DisconnectEnds
