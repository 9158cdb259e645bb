\* One request thread; manual and automatic rotation, retention, errors and crashes.
SPECIFICATION Spec
CONSTANTS
  RequestThreads = {t1}
  WebThreads = {}
  Rotators = {t1}
  NoThread = none
  MaxEntries = 2
  AgeRotates = TRUE
  RetentionMax = 2
  FullEvery = 1
  MaxRequests = 4
  MaxAlters = 0
  MaxFails = 1
  MaxCrashes = 1
INVARIANTS ChainValid AcrossVerifies
PROPERTIES ImplementsAuditTrail
