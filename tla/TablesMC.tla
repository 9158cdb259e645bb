------------------------------ MODULE TablesMC ------------------------------
(***************************************************************************)
(* Model checking of the small components, one at a time: RateLimit,       *)
(* VfsBucket, Connection, WebLogin, Upload and Startup.  The others stay   *)
(* where they begin.                                                       *)
(***************************************************************************)
EXTENDS Startup, TLC

CONSTANTS
  Threads,
  IpWindow, IpMax, AcctMax, AcctLockout, LoginWindow, LoginMaxFails, MaxLogins,
  Capacity, RefillRate, MaxDelay, MaxCommands, LimitTime,
  MaxPayload, Slack, FileSizes, AnswerUnits, MaxLines,
  Clients, Browsers, PollTime, PendingTTL, SessionTTL, MaxPolls, MaxTokens, WebTime, MaxFaults,
  Walk, Contents, MaxChanges

VARIABLES
  part,  \* the component that moves
  hits, acctFails, lockUntil, loginFails, login, admitted, loginNow, logins,
  bucket, command, granted, bucketNow, commands,
  peer, sent, up, reader, answered, down, shell,
  serving, sessions, tokens, pending, browser, keys, file, client, lost, stray, taken,
  alone, webNow, faults,
  stored, local, dialog, agreed, replaced, mine, changes

loginVars == <<hits, acctFails, lockUntil, loginFails, login, admitted, loginNow, logins>>
bucketVars == <<bucket, command, granted, bucketNow, commands>>
connVars == <<peer, sent, up, reader, answered, down, shell>>
webVars == <<serving, sessions, tokens, pending, browser, keys, file, client, lost, stray, taken,
           alone, webNow, faults>>
uploadVars == <<stored, local, dialog, agreed, replaced, mine, changes>>

Limits == INSTANCE RateLimit
  WITH thread <- login, now <- loginNow, requests <- logins,
       MaxRequests <- MaxLogins, MaxTime <- LimitTime
Bucket == INSTANCE VfsBucket
  WITH thread <- command, now <- bucketNow, requests <- commands,
       MaxRequests <- MaxCommands, MaxTime <- LimitTime
Conn == INSTANCE Connection WITH server <- reader
Web == INSTANCE WebLogin
  WITH up <- serving, now <- webNow, MaxKeys <- MaxPolls, MaxTime <- WebTime
Up == INSTANCE Upload

ASSUME LimitsAssumptions ==
  Limits!LimitAssumption /\ Bucket!BucketAssumption /\ Conn!SizeAssumption
ASSUME ProcessAssumptions ==
  Web!WebLoginAssumption /\ Up!UploadAssumption /\ StartupAssumption

TwoFiles == <<"f", "g">>
Parts == {"logins", "bucket", "connection", "web", "upload", "startup"}

\* Those that can begin in several ways begin in one of them while another moves.
MCInit ==
  /\ part \in Parts
  /\ Limits!Init /\ Bucket!Init /\ Conn!Init /\ Web!Init /\ Up!Init /\ Init
  /\ part # "connection" => peer = "shell"
  /\ part # "web" => file = 0
  /\ part # "upload" => \A p \in Up!Paths : stored[p] = Up!Absent /\ local[p] = CHOOSE c \in Contents : TRUE
  /\ part # "startup" => env = 0 /\ tables = 0

Others(moving) ==
  /\ moving # "logins" => UNCHANGED loginVars
  /\ moving # "bucket" => UNCHANGED bucketVars
  /\ moving # "connection" => UNCHANGED connVars
  /\ moving # "web" => UNCHANGED webVars
  /\ moving # "upload" => UNCHANGED uploadVars
  /\ moving # "startup" => UNCHANGED vars

MCNext ==
  /\ UNCHANGED part
  /\ \/ part = "logins" /\ Limits!Next /\ Others("logins")
     \/ part = "bucket" /\ Bucket!Next /\ Others("bucket")
     \/ part = "connection" /\ Conn!Next /\ Others("connection")
     \/ part = "web" /\ Web!Next /\ Others("web")
     \/ part = "upload" /\ Up!Next /\ Others("upload")
     \/ part = "startup" /\ Next /\ Others("startup")

MCVars == <<part, loginVars, bucketVars, connVars, webVars, uploadVars, vars>>
MCSpec == MCInit /\ [][MCNext]_MCVars

\* Clients are interchangeable, and so are the requests of browsers.
Symmetry == Permutations(Clients) \cup Permutations(Browsers)

-----------------------------------------------------------------------------

\* What the dictionaries, the lists, the bucket, the connection, the processes and the
\* files can hold.
TablesTypeOK ==
  /\ Limits!TypeOK /\ Bucket!TypeOK /\ Conn!TypeOK
  /\ Web!TypeOK /\ Up!TypeOK /\ TypeOK

\* What web/app.py and server.py let in stays within the limits, but for what runs in
\* parallel and for the time between a clock and its lock (_ip_rate_limited,
\* _account_locked, _check_rate_limit).
LimitsHold == Limits!IpAttemptsBounded /\ Limits!LoginFailuresBounded /\ Limits!LockHolds

\* A session gets no more than its bucket gives, and is not kept waiting for what a
\* late clock took (_vfs_rate_check).
BucketHolds == Bucket!BurstBounded /\ Bucket!NoLastingDebt

\* Lines are answered in order, and the shell takes the answers to its own requests as
\* long as no completion has failed (_handle_conn, ServerConn.send).
ConnectionInStep == Conn!InOrder /\ Conn!InStep

\* A login made while the client polls is not thrown away (_put_pending).
PendingOutlivesPolling == Web!PendingOutlivesPolling

\* A poll hands out a token once (poll_token).
TakenOnce == Web!TakenOnce

\* A client leaves no session behind that its user cannot reach, but for a failure or
\* for a login that it did not wait for (web_login).
SessionsReachable == Web!SessionsReachable

\* An upload replaces what its user agreed to, stores what was compared and counts
\* right (cmd_vfs_send).
UploadsHold == Up!ReplacedAsAgreed /\ Up!StoredAsCompared /\ Up!CountsTrue

=============================================================================
