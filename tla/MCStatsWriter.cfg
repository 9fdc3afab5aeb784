SPECIFICATION Spec
CONSTANTS
    Clients = {c1, c2}
    MAGIC = 42
    LIMIT = 4
    Sizes = {0, 1}
    MaxMessages = 2
    MaxTime = 3
    MaxFaults = 1
    MaxSignals = 1
INVARIANTS
  StatsAreKept
PROPERTIES
  FilesAreNotOverwritten
