SPECIFICATION DaemonsSpec
CONSTANTS
    Clients = {c1, c2}
    MAGIC = 42
    LIMIT = 4
    Sizes = {1}
    MaxMessages = 1
    MaxTime = 2
    MaxFaults = 0
    MaxSignals = 1
    MaxInterrupts = 2
    MaxForkFaults = 2
PROPERTIES
  EverythingIsWritten
  ProcessesAreOrderly
CHECK_DEADLOCK FALSE
