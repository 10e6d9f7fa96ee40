CONSTANTS
  bash = bash
  tmux = tmux
  server = server
  Pids = {11, 12}
  Comm <- MCComm
  CpuValues <- MCCpuValues
  Threshold <- MCThreshold
  MaxRounds = 3
SPECIFICATION Spec
INVARIANT MonitorKeepsRunning
\* The loop ends after MaxRounds rounds of the bound.
CHECK_DEADLOCK FALSE
