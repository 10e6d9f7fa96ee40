\* netdump on, a SIGINT sent to the supervisor at any time.
CONSTANTS
  ovip = ovip
  remote = remote
  logs = logs
  Absent = Absent
  None = None
  BadInt = BadInt
  TCPDUMP = TCPDUMP
  OV_IP = ovip
  ArgvChoices <- MCArgvNetdump
  Signals = TRUE
SPECIFICATION Spec
INVARIANTS NoOrphans
CHECK_DEADLOCK FALSE
