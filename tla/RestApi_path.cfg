\* One machine and one invocation whose path is encoded or not.
SPECIFICATION RestSpec
CONSTANTS
  Machine = {m1}
  Address = {a1}
  NoAddress = NoAddress
  NoMachine = NoMachine
  Call = {c1}
  Data <- LineData
  Response <- MCResponse
INVARIANTS EncodedPathKept
CHECK_DEADLOCK FALSE
