SPECIFICATION NginxSpec
CONSTANTS
  Requests = {r1, r2}
  LevelKeys = {k1}
  Values = {v1}
  MaxDatabaseFaults = 0
INVARIANT
  FoundIsNotAnError
CHECK_DEADLOCK FALSE
