SPECIFICATION FairSpec
CONSTANTS
    Clients = {c1}
    MAGIC = 42
    LIMIT = 4
    Sizes = {1}
    MaxMessages = 2
    MaxTime = 2
    MaxFaults = 0
    MaxSignals = 1
PROPERTY SignalEndsServer
