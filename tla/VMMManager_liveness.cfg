\* Liveness under the fairness of goroutines and actors; no symmetry.
SPECIFICATION FairSpec
CONSTANTS
  Machine = {m1, m2}
  Address = {a1, a2}
  NoAddress = NoAddress
  NoMachine = NoMachine
  SuccessThreshold = 1
  FailureThreshold = 1
  MaxInFlight = 0
PROPERTIES DeadMachineLeaves NetworkCleaned CloseTerminates
CHECK_DEADLOCK FALSE
