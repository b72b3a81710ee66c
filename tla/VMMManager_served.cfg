\* The report of a machine that is ready against its entry in the table.
SPECIFICATION Spec
CONSTANTS
  Machine = {m1}
  Address = {a1}
  NoAddress = NoAddress
  NoMachine = NoMachine
  SuccessThreshold = 1
  FailureThreshold = 3
  MaxInFlight = 1
INVARIANTS ReadyMachineIsServed
CHECK_DEADLOCK FALSE
