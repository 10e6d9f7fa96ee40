CONSTANTS
  in_a = in_a
  in_b = in_b
  in_c = in_c
  Inputs <- MCInputs
  MaxDup = 1
SPECIFICATION Spec
INVARIANTS TypeOK EachInputReplayedOnce
PROPERTIES PipelineStarts
\* serve_forever waits for messages for ever: a state with nothing left to
\* deliver is the script idling, not stuck; the script also ends on panic.
CHECK_DEADLOCK FALSE
