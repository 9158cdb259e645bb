\* One writer and one rotation at the same time.
SPECIFICATION Spec
CONSTANTS
  RequestThreads = {t1, t2}
  WebThreads = {}
  Rotators = {t1}
  NoThread = none
  MaxEntries = 0
  AgeRotates = FALSE
  RetentionMax = 0
  FullEvery = 1
  MaxRequests = 4
  MaxAlters = 0
  MaxFails = 0
  MaxCrashes = 0
INVARIANTS NoEntryLost
