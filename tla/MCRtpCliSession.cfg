\* One file to replay; --infile absent, empty or the file; --kill or not.
CONSTANTS
  InFiles = {sample}
  None = None
  Empty = Empty
SPECIFICATION Spec
INVARIANT OneSenderAsRequested
\* The script ends: after --kill, or attached to the session.
CHECK_DEADLOCK FALSE
