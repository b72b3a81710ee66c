\* One machine that ignores Ctrl-Alt-Del, in a server or in firectl.
SPECIFICATION CommandsSpec
CONSTANTS
  Machine = {m1}
  SocketName = {s1}
  Jailed = {TRUE, FALSE}
  Single = m1
  MaxRequests = 0
INVARIANTS GracefulOrForced
CHECK_DEADLOCK FALSE
