\* Two servers, one of which fails to close its listener.
SPECIFICATION Spec
CONSTANTS
  Schemes = {"unix", "http"}
  MaxConnections = 1
INVARIANTS GraceRespected
CHECK_DEADLOCK FALSE
