\* The small components, one at a time.
SPECIFICATION MCSpec
CONSTANTS
  Threads = {t1, t2}
  IpWindow = 3
  IpMax = 2
  AcctMax = 2
  AcctLockout = 2
  LoginWindow = 2
  LoginMaxFails = 2
  MaxLogins = 4
  Capacity = 3
  RefillRate = 1
  MaxDelay = 1
  MaxCommands = 7
  LimitTime = 3
  MaxPayload = 4
  Slack = 1
  FileSizes = {1, 4, 6}
  AnswerUnits = 2
  MaxLines = 3
  Clients = {c1, c2}
  Browsers = {b1, b2}
  PollTime = 1
  PendingTTL = 2
  SessionTTL = 2
  MaxPolls = 2
  MaxTokens = 3
  WebTime = 3
  MaxFaults = 1
  Walk <- TwoFiles
  Contents = {"a", "b"}
  MaxChanges = 2
  RoleNames = {"Admin", "Viewer"}
  MaxStarts = 3
  MaxFiles = 2
SYMMETRY Symmetry
INVARIANTS TablesTypeOK LimitsHold BucketHolds ConnectionInStep PendingOutlivesPolling TakenOnce SessionsReachable UploadsHold StartsSound
\* The bounded clocks and the bounded numbers of requests run out.
CHECK_DEADLOCK FALSE
