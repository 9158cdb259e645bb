\* Two request threads that log and rotate and a web thread, altered rows, an error.
SPECIFICATION FairSpec
CONSTANTS
  RequestThreads = {t1, t2}
  WebThreads = {w1}
  Rotators = {t1, t2}
  NoThread = none
  MaxEntries = 0
  AgeRotates = FALSE
  RetentionMax = 0
  FullEvery = 2
  MaxRequests = 4
  MaxAlters = 1
  MaxFails = 1
  MaxCrashes = 0
CONSTRAINT RotationsApart
INVARIANTS TypeOK WritersKeepChain FlagNotStuck
PROPERTIES AlterationReported RequestsFinish
