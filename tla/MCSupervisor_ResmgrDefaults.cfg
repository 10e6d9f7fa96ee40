\* The resource manager's defaults given on the command line.
CONSTANTS
  ovip = ovip
  remote = remote
  logs = logs
  Absent = Absent
  None = None
  BadInt = BadInt
  TCPDUMP = TCPDUMP
  OV_IP = ovip
  ArgvChoices <- MCArgvOptions
  Signals = FALSE
SPECIFICATION Spec
INVARIANTS ResmgrDefaultsAsRequested
CHECK_DEADLOCK FALSE
