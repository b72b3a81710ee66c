\* The server with two machines, with and without the jailer and stopped in every
\* way; firectl with one; echo with two requests.
SPECIFICATION CommandsSpec
CONSTANTS
  Machine = {m1, m2}
  SocketName = {s1, s2}
  Jailed = {TRUE, FALSE}
  Single = m1
  MaxRequests = 2
INVARIANTS CommandsTypeOK AskedOrForced LeaksOnlyWhatFailed ChrootIntact NothingLeft EchoDrains
PROPERTIES StopReturns FirectlEnds EchoEnds
CHECK_DEADLOCK FALSE
