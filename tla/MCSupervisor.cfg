\* All of the code's behaviours: four command lines, a SIGINT possible at
\* any time.
CONSTANTS
  ovip = ovip
  remote = remote
  logs = logs
  Absent = Absent
  None = None
  BadInt = BadInt
  TCPDUMP = TCPDUMP
  OV_IP = ovip
  ArgvChoices <- MCArgvChoices
  Signals = TRUE
SPECIFICATION Spec
INVARIANTS TypeOK ServicesStoppedOnExit MinionsFindResmgr
PROPERTIES ExitWhenAllStopped
\* The script ends: once it has exited and its children are gone, nothing
\* is left to happen.
CHECK_DEADLOCK FALSE
