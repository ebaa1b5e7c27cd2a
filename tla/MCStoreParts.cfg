SPECIFICATION PartsSpec
CONSTANTS
  ListKeys = {1, 2, 3}
  Nil = 4
  MaxHeight = 2
  Readers = {r}
  Keys = {1, 2}
  NumLevels = 3
  MaxMemCompactLevel = 1
  MaxWrites = 4
  MaxDeletions = 1
  MaxSnapshots = 1
  None = None
  UserKeys = {1, 2}
  NumChildren = 3
  MaxEntries = 3
  MaxInserts = 1
  NoEntry = NoEntry
  Tables = {t1, t2, t3, t4}
  Threads = {p, q}
  Capacity = 1
  Handles = {1, 2, 3, 4, 5}
  NoTable = NoTable
  BlockSize = 4
  HeaderSize = 2
  Sizes = {0, 3}
  MaxRecords = 3
  MaxFailures = 2
  Strings <- MCStrings
  LastByte = 3
  Tags = {1, 2}
  MaxTag = 3
  Interval = 2
  MaxAdds = 3
  NoBlock = NoBlock
INVARIANTS
  TypesOK
  SearchesAreRight
  ReadsAreRight
  LevelsAreDisjoint
  IteratorIsRight
  EntriesAreAccounted
  OpenTablesAreBounded
  RecordsAreWhole
  LogIsRead
  TablesAreRead
CHECK_DEADLOCK FALSE
