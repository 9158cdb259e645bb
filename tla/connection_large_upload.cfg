\* A file of the largest size that is allowed.
SPECIFICATION Spec
CONSTANTS
  MaxPayload = 4
  Slack = 1
  FileSizes = {1, 4, 6}
  AnswerUnits = 2
  MaxLines = 3
INVARIANTS LegalUploadAnswered
\* The lines run out and the shell may be gone.
CHECK_DEADLOCK FALSE
