SPECIFICATION FairSpec
CONSTANTS
  c1 = c1
  c2 = c2
  c3 = c3
  Conn <- TwoConns
  FD_SETSIZE = 8
  Sockets <- Descs
  RLIMIT_NOFILE = 4
  Inherited <- FirstDesc
  MaxListeners = 1
  ListenBacklog = 2
  MaxSent = 1
  RECEIVE_BUFFER_SIZE = 2
  Faults <- HandlerFaults
PROPERTIES
  DataIsServed
  EndIsReported
  TerminateStops
