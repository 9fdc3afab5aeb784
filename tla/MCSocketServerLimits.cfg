SPECIFICATION Spec
CONSTANTS
  c1 = c1
  c2 = c2
  c3 = c3
  Conn <- ThreeConns
  FD_SETSIZE = 3
  Sockets <- Descs
  RLIMIT_NOFILE = 4
  Inherited <- NoDescs
  MaxListeners = 1
  ListenBacklog = 3
  MaxSent = 1
  RECEIVE_BUFFER_SIZE = 2
  Faults <- NoDescs
SYMMETRY ConnSymmetry
INVARIANTS
  FailsOnlyAtLimits
