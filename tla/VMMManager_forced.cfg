\* Close waits one second for a machine whose shutdown timeout may be longer.
SPECIFICATION Spec
CONSTANTS
  Machine = {m1}
  Address = {a1}
  NoAddress = NoAddress
  NoMachine = NoMachine
  SuccessThreshold = 1
  FailureThreshold = 1
  MaxInFlight = 0
INVARIANTS ForcedBeforeExit
CHECK_DEADLOCK FALSE
