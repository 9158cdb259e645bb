\* A completion of the shell times out.
SPECIFICATION Spec
CONSTANTS
  MaxPayload = 4
  Slack = 1
  FileSizes = {1, 4, 6}
  AnswerUnits = 2
  MaxLines = 3
INVARIANTS AnswerIsOwn
\* The lines run out and the shell may be gone.
CHECK_DEADLOCK FALSE
