\* A database of an older release, and a start that is cut short.
SPECIFICATION Spec
CONSTANTS
  RoleNames = {r1}
  MaxStarts = 2
  MaxFiles = 2
INVARIANT SizesBackfilled
\* The starts run out.
CHECK_DEADLOCK FALSE
