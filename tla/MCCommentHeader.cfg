CONSTANTS
  Lines <- MCLines
  MaxLines = 8
SPECIFICATION Spec
INVARIANTS HeaderStyleRecognised
\* The script ends when stdin does; MaxLines bounds the input.
CHECK_DEADLOCK FALSE
