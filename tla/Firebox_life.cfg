\* Two schemes, one machine and one invocation from the start of the process to
\* its end.
SPECIFICATION FireboxSpec
CONSTANTS
  Schemes = {"http", "https"}
  NoScheme = "none"
  MaxConnections = 1
  Machine = {m1}
  Address = {a1}
  NoAddress = NoAddress
  NoMachine = NoMachine
  Call = {c1}
INVARIANTS HandlersOutlived NoMachineLeftListed ListenBeforeMachines
PROPERTIES HealthTold
CHECK_DEADLOCK FALSE
