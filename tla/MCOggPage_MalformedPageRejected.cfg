CONSTANTS
  Files <- MCFiles

SPECIFICATION PageSpec

INVARIANT MalformedPageRejected

\* The script ends after printing the checksums, or with a traceback.
CHECK_DEADLOCK FALSE
