SPECIFICATION WorkloadSpec
CONSTANTS
  Setups <- MCSetups
  ShuffleBy = {1}
  ZoneWords <- MCZoneWords
  SeqZoneCount = 3
  ChunkSize = 2
  Records <- MCRecords
  SectorSize = 512
  PageSize = 4096
  Leftovers <- MCLeftovers
  LogicalPages = 7
  PagesPerZone = 2
  ActiveZones = 2
  HistPages = 4
  HistPagesPerZone = 1
  HistActiveZones = 1
  Types = {"read", "write"}
  none = none
CHECK_DEADLOCK FALSE
INVARIANTS DrawsInRange ZonesCoverPages EveryEntryReplayed SoleThreadLosesNothing
PROPERTY ImplementsZonedDevice
