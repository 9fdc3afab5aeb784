SPECIFICATION StorageSpec
CONSTANTS
  UNIQUE_KEYS = TRUE
  LEAF_CAPACITY = 2
  BRANCH_CAPACITY = 2
  Keys = {1, 2, 3, 4, 5, 6, 7, 8}
  MaxItems = 8
  BufferCapacity = 2
  MAX_INTERRUPTS_IGNORES = 1
  MaxUnits = 5
  MaxInterrupts = 1
  MaxErrors = 2
  Capacities = {0, 1, 3}
  ReadSizes = {0, 1, 2, 4}
  FileLengths = {0, 2, 5}
  FILE_SIZE_MODULUS = 64
  MaxResizes = 1
  MaxReadFaults = 1
  Procs = {p1, p2, p3}
  MaxTempLinks = 3
  MaxDepth = 2
  MaxStarts = 4
  MaxCallFaults = 1
  MAX_ATTEMPTS = 2
  TableRows = 1
  MaxCalls = 4
  MaxLosses = 2
  Objects = {o1, o2}
  ScriptLengths = {1, 2, 3}
  MaxConnections = 2
  MaxPrepared = 3
  MaxBusy = 2
  MaxScripts = 1
  Requests = {r1, r2}
  LevelKeys = {k1}
  Values = {v1, v2}
  MaxDatabaseFaults = 1
INVARIANTS
  TreeIsSound
  WritingIsAccounted
  CommittedIsWhole
  CommittedMissesNothing
  ReaderIsInStep
  RepeatsAreSafe
  TransactionsAreWhole
  StatementsAreKept
PROPERTIES
  FinalFileIsFrozen
  PathsAreShared
  RequestsAreAnswered
CHECK_DEADLOCK FALSE
