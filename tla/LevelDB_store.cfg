SPECIFICATION FairSpec
CONSTANTS
  Batches = {a, b}
  Synced = {b}
  Flushes = {f}
  MaxGroup = 2
  WriteBuffer = 1
  Trigger = 1
  Slowdown = 1
  Stop = 2
  MaxFaults = 2
INVARIANTS
  TypeOK
  FilesAreThere
PROPERTIES
  ImplementsKVStore
  WritersReturn
CHECK_DEADLOCK FALSE
