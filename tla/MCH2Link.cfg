SPECIFICATION FairSpec
CONSTANTS
  Wrap = 16
  Timeout = 3
  SyncWait = 1
  MaxCall = 2
  MaxSilence = 6
INVARIANTS
  TypeOK
  LossLoggedInTime
PROPERTIES
  KeepsPromise
  LoggedLossIsReal
  DeadH2GoesOffline
