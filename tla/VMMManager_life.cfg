\* The whole life of the server: requests, probes with a failure threshold of two,
\* machines that end, a graceful shutdown that may time out, and Close; and all of it
\* against what the manager promises.
SPECIFICATION Spec
CONSTANTS
  Machine = {m1, m2}
  Address = {a1, a2}
  NoAddress = NoAddress
  NoMachine = NoMachine
  SuccessThreshold = 1
  FailureThreshold = 2
  MaxInFlight = 2
SYMMETRY Symmetry
CONSTRAINT FewResults
INVARIANTS TypeOK  OrphanOnlyAfterTimeout AddressKept StoppedOnce DrainedExit
PROPERTIES LiveEntryKept ImplementsFleet
CHECK_DEADLOCK FALSE
