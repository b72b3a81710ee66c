\* Every scheme, connections to each server whose requests need not end, any number
\* of signals, and the graceful timeout.
SPECIFICATION FairSpec
CONSTANTS
  Schemes = {"unix", "http", "https"}
  MaxConnections = 2
INVARIANTS TypeOK ReadyWithdrawnFirst UnhealthyMeansDown
PROPERTIES NoConnectionDuringClose SignalStops
CHECK_DEADLOCK FALSE
