SPECIFICATION Spec
CONSTANTS
  c1 = c1
  c2 = c2
  c3 = c3
  Conn <- TwoConns
  FD_SETSIZE = 8
  Sockets <- Descs
  RLIMIT_NOFILE = 4
  Inherited <- NoDescs
  MaxListeners = 2
  ListenBacklog = 2
  MaxSent = 2
  RECEIVE_BUFFER_SIZE = 2
  Faults <- AllFaults
SYMMETRY ConnSymmetry
INVARIANTS
  TablesAgree
  ClientsAreAccounted
  ReceiveNeverBlocks
  DataReachesItsHandler
PROPERTIES
  ImplementsService
