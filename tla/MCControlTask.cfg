SPECIFICATION FairSpec
CONSTANTS
  NoValue = NoValue
  Channels = 2
  PerChip = 2
  Interval = 2
  Timeout = 2
  MaxLag = 1
  MaxMisses = 0
INVARIANTS
  TypeOK
  NoUnattendedRelay
  RunsFullyInitialised
PROPERTY ScanHeals
