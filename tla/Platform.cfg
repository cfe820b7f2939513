SPECIFICATION MCSpec
CONSTANTS
  QueueSize = 1
  MaxLen = 2
  EventsCap = 1
  Count = 2
  MaxLines = 3
  MaxFaults = 1
  MaxMessages = 3
  ReadCount = 2
  BackoffCap = 3
  MaxReadFaults = 1
  MaxCrashes = 1
  MaxDrops = 1
  MaxFlushes = 1
  Fields = {"f1", "f2"}
  Numeric = {}
  Values = {"v1", "v2"}
  Wanted <- MCWanted
  Seed <- MCSeed
  Foreign = {"d9"}
  Secrets = {"s1"}
  MaxSyncFaults = 2
  MaxEdits = 1
  MaxRestarts = 1
INVARIANTS
  EveryLineCounted
  ShownInOrder
  ConsumeSound
  SyncSound
PROPERTIES
  
  LifecycleSpec
  Recovers
CHECK_DEADLOCK FALSE
