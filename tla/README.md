# TLA+ development for EFS-TDM

Specifications, model checking and machine-checked proofs for the server of EFS-TDM
(encrypted file system with transparent data masking) and for what its command-line client
does with it. Paths below are relative to the repository; `PROJECT.json` maps every
definition to the lines it models.

## 1. The system

One server process (`server_pkg/server/server.py`) owns a SQLite database, a directory of
encrypted blobs and some dictionaries in memory. Each client connection has a thread that
reads one JSON request per line, calls a handler and answers. In the same process run the
web UI (Flask, `server_pkg/web/app.py`), the audit integrity monitor and the key manager's
sweep. Handlers share state through the database (every helper of `core/db.py` opens a
connection of its own and commits when it is done) and through dictionaries behind locks.
Nothing spans two helpers: that is where most of the hazards are.

| Component | State | Operations | What is hard | Correct when |
|---|---|---|---|---|
| Audit log (`db.py` 291-475 and 781-924, `audit_logger.py`, `server.py` 210-424 and 802-828) | `audit_log`, archive files, `_audit_chain_lock`, `_audit_lock`, `_audit_rotating`, monitor fields, tamper alert | append, rotate (by command or threshold), purge, verify, poll, reset | rotation is four commits; writers that bypass the guard; stale monitor tip; crashes | the chain never forks, no row is lost, alerts are true and come, nobody waits for ever |
| Accounts and sessions (`server.py` 381-530 and 651-944, `access_control.py`) | `users`, `_sessions` | login, logout, add, remove, assign role, change and reset password, delete own account | check and write are different statements; login reads the account before it opens the session | one active session per user, the root admin stays, a session never means somebody else, revocation is complete |
| Filesystem (`core/vfs.py`, `db.py` 478-664, `server.py` 986-1282) | `inodes`, `file_meta`, blob files | mkdir, send, rm, mv | database and blob directory are not one transaction; sizes read before they are written; moves that race | tree, unambiguous paths, files readable, hash and size match the blob, directory sizes exact |
| Permissions and ACLs (`vfs.py` 227-327, heads of the `_vfs_*` handlers) | `acl`, `roles` | chmod, and the decision of every VFS command | two ways to combine entries, three defaults, cascades | hidden subtrees stay hidden from listings, the views differ only where their rules do, deletion needs the documented right |
| Deliveries (`server.py` 1389-1523, `db.py` 693-731, `client.py` 465-500) | `deliveries`, the download folder of the client's installation, which all its users share | send_to_user, collect with each response, save | marked delivered before it is sent; shells of one user; accounts and files that change before the delivery | each file is saved once by a shell, lost to a failure only, and settled in the end |
| Web login (`app.py`, `client.py` 370-407, 1455-1535 and 2718-2776) | `_pending`, session file | register a key, poll, do_login, purge, shell, logout | expiry racing the poll; one file for all clients of a user | a token is handed out once, to who polls with the key; what a client collects it does not leave behind |
| Key manager (`key_manager.py`) | issued keys | issue, validate, revoke, sweep, stop | times read outside the lock | an expired or revoked key is never validated, and does not stay |
| Rate limits (`server.py` 140-197, `app.py` 106-145) | failure lists, lockouts, token buckets | check, record, clear, take | check and record are apart; clocks read before the lock | no more attempts than allowed, but for what runs in parallel and for clocks that are late |
| Connections (`server.py` 1531-1655, `client.py` 310-367) | receive buffers | framing, dispatch, timeouts | partial lines, buffer limit, an answer that comes after the timeout | each line is answered once, in order, and the answer goes to its request |
| Start of the server (`server.py` 1711-1785, `db.py` 43-203 and 496-532) | `master.key`, the schema, `roles` | load or create the key, create tables, migrate, backfill, read roles | crashes in between; what commits by itself and what does not | a server that runs has the key of its blobs and the whole schema |
| Client (`client.py`) | session file, upload dialogue | shell commands | files that change while the user is asked | an upload replaces what its user agreed to, and counts right |
| Masking, encryption, configuration, scripts | none | pure transformations | - | - |

Interactions: every handler writes audit entries through `self.log`, whose guard may make it
wait for a rotation (AuditLog). Handlers check permissions with the role in the session or
with the role in `users`; the window between the two is the subject of Sessions, and Acl
takes roles as fixed. Acl decides whether a VFS request is served, Vfs what it then does, and
Upload how the client strings requests together. A delivery rides on the response to any
request and uses the role in the session, the inodes and the blobs, so Deliveries has short
forms of the steps of Sessions and Vfs as its surroundings. A web login ends in the login of
Sessions, after the limits of RateLimit.

## 2. Modules

- `AuditTrail` is the abstract specification of the audit log: entries are added one after
  the other and never go away; only an interruption may leave the chain cut.
- `AuditLog` is the implementation: threads that append, rotate and reset, the monitor, and
  an environment that alters rows, makes statements fail and kills the process.
  `AuditLogMC` adds what needs an ordered view of the archives and the refinement
  `AuditTrail WITH trail <- Trail, tip <- stamp, interrupted <- Interrupted`.
- `Sessions` (with `SessionsMC`): the commands on accounts, each a sequence of database
  statements and critical sections of `_sessions_lock`.
- `Vfs` (with `VfsMC`): the commands that change the filesystem, each a sequence of
  statements, transactions and file operations.
- `Acl` (with `AclMC`): the permissions and ACL decisions of every VFS command.
- `Deliveries` (with `DeliveriesMC`): the sender, the collection with every response and the
  client that saves, beside logins, changed accounts, overwritten and removed files, errors,
  broken connections and restarts.
- `ExpiringStore` is the abstract specification of a table of credentials with a time limit:
  what a check that overlaps with revocations and the clock may answer. `KeyManager` is the
  implementation, with the dictionary and lock, and instantiates it with history variables.
- `WebLogin`: clients, browsers, the pending table, the session file, kills and restarts.
- `RateLimit`: the failure windows and the lockout. `VfsBucket`: the token bucket.
- `Connection`: the two byte streams of a connection and both loops that cut them into lines.
- `Upload`: the dialogue of the client's upload command.
- `Startup`: the master key and the migrations, from a new installation or any older release.
- `TablesMC` extends Startup, instantiates the other five and lets one of them move in each behaviour;
  `AclMC` does the same with Acl and KeyManager. These parts share no state,
  so their product would show nothing that they do not show alone.
- `AuditLogProofs`, `SessionsProofs`, `AclProofs` (Acl and KeyManager), `StartupProofs`,
  `DeliveriesProofs`, `VfsProofs`, `TablesProofs` (WebLogin, RateLimit, VfsBucket) and
  `ClientProofs` (Connection, Upload, and the types of TablesMC, for which it extends `TablesProofs` and
  `StartupProofs`): the theorems. Where a property speaks of one part of an
  MC module, or of requests that do not overlap, the theorem is about that module's `MCSpec`;
  the others are about the component's `Spec`.

What is computed over data is written so that it can be reasoned about. Ways up the tree are
least closed sets (`Acl!Above`, and `Vfs!UpFrom` with `Walks`), where the code has recursive
queries and loops; the entry of the ACL that decides is chosen as the one that has all others
above it (`Acl!ClosestOf`), where the code sorts by depth; the lists of attempts and failures are
sets of times, each with a number that tells equal ones apart (`RateLimit!Entry`): clocks are read
before the locks, so a list need not be in order, and it is only filtered, added to and counted;
and the files that a user has agreed to replace are a set (`dialog.over` of `Upload`) that is
taken in the order of the walk.

How code and modules correspond:

- A thread has a program counter `thread[t].pc`; its other fields are the local variables of
  the handler that are used later. One step is what happens between two points where
  another thread can get in: an autocommit SELECT, a write transaction, a critical section, a
  file operation. `Vfs!UpdateSize` for instance is the transaction that begins with the
  UPDATE of `update_file_meta_size`; the SELECT before it is `ReadOldSize`. In `KeyManager`,
  `VfsBucket` and `RateLimit` reading the clock before the lock is taken is a step of its own.
- An HMAC is a *stamp*: the n-th hash computed is n. A row keeps the stamp it was hashed
  against and whether it is intact, so "the chain verifies" is a comparison of stamps.
- Passwords are members of a small set; tokens, polling keys and session ids of the key
  manager are counted; contents are their sizes, blob names are counted, time is a counter,
  file names are model values. In `Connection` bytes are taken together into units, a line of
  base64 has four for every three of its file.
- `AuditLog!Alter` and the `Tick`s have no code: another process that writes to the
  database file, and the clock. Nor have `Upload!Change` (other clients, the user's editor),
  `Startup!EditRoles`, `Startup!DamageKey`, `WebLogin!Kill` and the other failures.
- Definitions named `X_Y` (`ReadTip_Unlocked`) are mutants of the definition `X` that follows
  them: plausible bugs, each of which breaks the property that `PROJECT.json` names.

## 3. What the runs check

Passing runs:

| Run | Bounds | Properties |
|---|---|---|
| `audit_threads` | 2 request threads and a web thread, 4 requests, 1 alteration, 1 error, full scan every 2nd poll; 3 requests and neither web thread nor alteration once somebody rotates (`RotationsApart`) | `WritersKeepChain`: as long as nobody rotates, who is about to insert holds the lock and the current tip, the chain verifies unless a row was altered, and the monitor raises no false alarm. `FlagNotStuck`: the rotation flag has a rotation that will clear it. `AlterationReported`: an alteration is reported. `RequestsFinish`: nobody waits for ever |
| `audit_rotate` | 1 thread that logs and rotates by command, by number of entries (2) and by age; 2 archives kept, 4 requests, 1 error, 1 crash | `AcrossVerifies`: archives and live log verify as one chain unless cut short. `ImplementsAuditTrail`: each committed row is in the live log, in an archive or was purged. `ChainValid`: the live log verifies |
| `sessions` | either one connection at a time, 3 accounts, 4 requests, 1 tick; or 2 connections, 2 accounts, 3 requests, 2 ticks (a session lives 1), 1 restart; 2 roles, 2 passwords | `OneActiveSession`, `RootProtected`, `SessionIdentity`. One connection at a time: `SessionsCurrent` (a session has the role and password that the account with its id has), `AdminsDeletedOrResetByRoot` |
| `vfs` | 4 requests; 2 names, paths of 2 segments, either one request at a time of careful clients, 2 contents (one empty), 1 error, 1 crash; or two requests of any kind, cycles included | `FilesReadable`: unless a request was cut short every file has its metadata and its blob. `TablesTypeOK`: paths are unambiguous. Without overlap: `SizesExact`, `OneTree`, `BlobsDescribed` |
| `acl_keys` | an Admin and a Contributor with the permissions of `roles.json`, 3 inodes, 2 chmods, `acl.default_mode` "open"; or 2 threads and the sweep, 2 keys that live 1, 2 ticks | `DenyHidesSubtree`; `ViewsRelated`: tree shows what ls shows, fetch serves what ls shows, and a file that fetch serves beside that has no entry of its own, a closer grant, or no entry that counts for the role; `RemovalNeedsRight`; `KeepsPromise` (KeyManager implements ExpiringStore), `ExpiredGoes` |
| `deliveries` | either one shell, 2 deliveries, 1 change of accounts and 1 fault; or two shells of one user, 1 delivery, 2 blobs and no fault | `DeliveredOnce`: a shell saves a file at most once, and a row that says delivered is saved, on its way, or was lost to a failure that happened. `KeptApart`: while one shell is open on the installation no file is written over another. `SettledStays`: a settled row is only ever turned to failed. `EventuallySettled`: nothing stays pending for who works with the system |
| `tables`, part "logins" | 2 requests in parallel, 4 in all, limits of 2 in windows of 3 and 2, clocks that are 1 late, 3 ticks | `LimitsHold`: within a window less the delay between a clock and its lock the web server lets in no more attempts than it may; failures and lockouts hold, but for what had passed the check in parallel |
| part "bucket" | 2 threads, 7 requests, 3 tokens, 1 a tick, clocks that are 1 late | `BucketHolds`: a burst takes no more than the bucket and what time refills, however late the clocks are, and late clocks cost a session nothing that lasts |
| part "connection" | 3 lines; a buffer of 5 units, files of 1, 4 and 6; a recv takes any part of what has come; shell or another program | `ConnectionInStep`: lines are answered in order, none twice or torn; the shell gets the answer to its own request unless a completion has failed |
| part "web" | 2 clients, 2 browsers, 2 keys, 3 logins, 3 ticks, 1 fault | `PendingOutlivesPolling`: a login made while the client polls is not thrown away. `TakenOnce`. `SessionsReachable`: with one client and one login at a time a live session is in reach of its user, unless a failure cost him it or the login was made for a key that nobody polled any more |
| part "upload" | 2 files with 2 contents, 2 changes by others; one file or a directory | `UploadsHold`: what is replaced was agreed to, what is stored was compared, the counts are right |
| part "startup" | 2 roles, 3 starts, 2 files, every older release | `StartsSound`: a server that runs has the key of its blobs, all tables and columns, the roles it read and, unless the upgrade was cut short, right sizes |

Runs where the code disagrees with the documents, a docstring or a test (each checks one
property, which TLC refutes):

- `audit_lost_entry` (`NoEntryLost`). INTERNALS.md: "All concurrent audit writes queue behind
  `_audit_lock` during rotation." A thread that passed `_audit_guard` before the flag went up
  inserts between the backup and the DELETE; its row is in neither file. The same happens to
  the web thread, which has no guard, and during automatic rotation, which raises no flag.
- `deliveries_plaintext` (`MaskedUnlessAsked`). COMMANDS.md: "The file is decrypted and masked
  using the recipient's role before delivery." Where masking raises, the except of the step
  delivers the plaintext.
- `connection_stale_answer` (`AnswerIsOwn`). Docstring of `ServerConn.send`: "Send a request
  dict and return the response dict." A completion of the shell that times out leaves its
  answer in the stream; each later command gets the answer to the one before.
- `connection_large_upload` (`LegalUploadAnswered`). The limit of the receive buffer is in bytes
  of JSON, that of an upload in bytes of the file: base64 makes four of three, and a file of
  more than about three quarters of `upload.max_bytes` costs the connection.
- `startup_sizes` (`SizesBackfilled`). INTERNALS.md: "Backfilled via a one-time recursive CTE on
  first run after the migration." The ALTER is committed at once and the sizes are not: a
  first start that ends in between leaves zeros for good.

Why the bounds are enough: every action fires in some run. The one branch that does not is a
poll that finds an entry expired: `PendingOutlivesPolling` says that there is none, since the
client polls for less time than an entry lives. Two threads show each window
between a check and a write, as each handler has one of interest. Four requests allow two rotations with entries around them, a new
account with login, change and use, or a directory with a file that is then moved and removed.
Two deliveries show one that is prepared while another is in the response. A limit of 2 needs
more than 2 attempts, two of them beside one another, hence 4; the bucket is emptied, refilled and emptied again with 7.
An error or a crash may hit at any step, and once is enough for a repair to be tried. Three
inodes make the chain root, directory, file; three starts are one that is cut short, one that
repairs and one that follows. Threads, clients and names are interchangeable, hence
`SYMMETRY` in runs that have no liveness property.

`CHECK_DEADLOCK FALSE` is used where the bounds run out. The audit runs check deadlock: there
the monitor never stops.

Fairness is stated where a liveness property needs it, and nowhere else.

- Audit log: weak fairness for the steps of a request that is being served and for the
  steps of the monitor: operating system threads are scheduled, and the monitor loops on
  a timeout. Nothing is assumed of requests, errors or crashes. That weak fairness is
  enough for a thread that waits for `_audit_lock` depends on the bound on requests: with
  rotations arriving for ever, `threading.Lock` is not fair and a writer might starve.
- Deliveries: weak fairness for the requests a server works on and for the client that saves;
  strong fairness for a recipient who gives commands whenever he is logged in, and weak for
  his login. The last two are about the user: `EventuallySettled` says "for who works with
  the system", which is what a pull on each response can give.
- KeyManager: weak fairness for the sweep thread, which loops on a timeout.

## 4. Where else the properties stop to hold

The passing runs state under which conditions their properties hold. Outside of them TLC finds
the following; each can be reproduced by the change named.

- `NoFalseAlarm` with rotation and incremental scans (`audit_rotate` with `FullEvery = 10`, as it is
  shipped, and `NoFalseAlarm` as an invariant): `append_audit_with_config` does not reset the
  monitor, which goes on from the hash of an archived row (db.py 922). Rotation by command does
  reset it, but a scan that is under way stores its result over the reset, with the same effect
  (`MaxEntries = 0`, `AgeRotates = FALSE`). No passing run has this property with rotation; the
  monitor is right as long as nobody rotates (`WritersKeepChain`).
- `WritersKeepChain` with rotators: the tip that a writer holds is gone after the DELETE.
- `AcrossVerifies` without `~Interrupted`: a crash between backup, DELETE and bootstrap row leaves
  files that repeat rows or lack the link (db.py 837-862).
- A second rotation runs with the flag down after the first one has cleared it (server.py 824).
- `SessionsCurrent` and `AdminsDeletedOrResetByRoot` with two connections: a login in flight during
  assign_role ("`assign-role` immediately revokes all active sessions", INTERNALS.md 150) or during
  change_password opens its session afterwards, and a target becomes Admin between check and
  write (server.py 691-703, 907-916).
- `AdminsDeletedOrResetByRoot` is about one request, not about a series of them: whoever may manage
  users can take the role of another Admin with assign_role (server.py 710-739) and then remove
  him. And `SessionsCurrent` compares a session with the account that has its id: remove_user
  revokes nothing, so the session of an account that was removed keeps its id; when the name is added
  again it works for the new account, as commands look the user up by name.
- `FilesReadable` with a crash: an upload has two commits, and an overwrite unlinks the old blob
  first. A file left without metadata stays so: the overwrite that would repair it updates no
  row, answers ok and counts its size in the directories.
- `BlobsDescribed` with two requests: two overwrites leave the hash of one and the blob of the
  other (server.py 1258-1268). `OneTree`: two moves make a cycle, and a walk up that cycle never
  ends and holds SQLite's write lock (`Vfs!Commit`, state "stuck"). `SizesExact`: the size to carry
  up is read before the transaction that carries it ("`stat` on a directory is O(1) and always
  current", INTERNALS.md 29).
- `OneTree` with `Careful = FALSE`: send and mv take a file for a directory.
- Two moves of one file to different places both succeed (db.py 611 updates by id alone).
- rm of a directory removes what others own below it (`_vfs_rm` looks at the named inode), and
  mkdir of a path whose parent is missing makes it in a directory that denies write (server.py 997).
- ls, tree and fetch do not agree on all files. COMMANDS.md 386 says of fetch "the nearest ancestor
  with an entry wins"; `_vfs_fetch` asks `check_acl` only if the file has an entry of its own
  (server.py 1310, 1317). A file without one is served although its directory denies read and ls and
  tree hide it. TLC refutes `Fetchable => Listed`; `ViewsRelated` says for which files
  the two part.
- `DeliveredOnce` leaves out two shells: both may collect the same row, and each saves it.
- `KeptApart` with two shells on one installation, of one user or of two: the folder is one, and the name
  in it has the sender's file but not the recipient (client.py 458-485), so both may take the same
  free name. (`KeptApart` without `open = {s}` and with two deliveries for the two shells.)
- `IpAttemptsBounded` for the whole window: with a limit of 3 in a window of 2 and three attempts at 0,
  A reads the clock at 1 and B at 2; B has the lock first, prunes the three and comes in; A finds one
  hit and comes in as well. Of 0, 0, 0, 1 and 2 four are in one window (app.py 107). (`tables` with
  `MaxDelay` dropped from the formula.)
- `SessionsReachable` without `stray`: a login under a key that nobody polls leaves a session that
  lives until it expires and that its user has no token of. That is so where the client has given up
  after 120 s and the page is still open (client.py 1514-1532, app.py 356), and where the page
  was opened by itself (app.py 277).
- `SessionsReachable` without `alone`: of two logins that run in parallel the later entry of
  `_pending` may hold the token that the other login revoked (app.py 350). A session file whose token
  is no longer valid keeps its user out of `web_login` until it is removed (client.py 1465).
- `TakenOnce` and the polls: the shell runs inside the `try` of the polling loop (client.py 1526), so an
  error of the shell is taken for a failed poll and the polling goes on.
- `UploadsHold` says what was agreed to was replaced; what is replaced need not be the version
  whose size was shown, and "Canceled" returns success even if files before it had failed.
- `RolesUsable` the other way round: roles that are removed from `roles.json` keep their row and
  permissions (INTERNALS.md 28 calls the file "the source of truth").
- A crash within the write of `master.key` leaves a file of the wrong length, which stops every
  later start (`Startup`, state Torn).

Read in the code and not modelled as a property: `_collect_pending_deliveries` is documented as
"Never raises" (server.py 1438) and does where the first SELECT fails; the comment at
server.py 149 speaks of 20 tokens and 4 a second where the shipped configuration has 60 and
10; the size check at server.py 1195 is out of reach, since the buffer overflows before it;
at `now == expires` login takes a session for expired that `_get_session` takes for valid
(server.py 455 and 516); a request in flight makes a bucket anew for a session that has logged
out, and it stays (server.py 157-177); a malformed `roles.json` is taken for the defaults; two
first starts at one time may draw two keys, and two first requests may insert two roots
(UNIQUE does not hold for a NULL parent); the recipient's name is all a delivery knows of
him, and whether he may receive is only looked at when it is sent.

## 5. What is proved

TLAPS proves the following for every value of the constants that satisfies the assumptions of the
modules, which TLC evaluates in the runs: sets of threads, names and paths of any size, any
bounds, any limits and lifetimes but for those an assumption relates (`WebLoginAssumption`: a
pending login lives longer than a client polls; `UploadAssumption`: a directory is walked once,
each file in it once; `StartupAssumption`: the bound on files has room for one that an older
release has left). Numbers bounded for TLC (`MaxRequests`, `MaxFails`, `MaxCrashes` ...) are
parameters like others. Every safety invariant and action property of the passing runs has a
theorem; liveness has none (the end of this section says why).

Every proof follows one pattern: an invariant that is inductive, one lemma for each action that
shows that it is kept, and a last step that puts them together. What follows says what each
invariant adds to the property it is for, and why that is needed. Invariants were checked by TLC
on the runs' bounds before they were proved.

### Audit log (`AuditLogProofs`)

- `TypeCorrect`, `FlagComesDown`: `TypeInv` (types, and every archive has a name that was handed
  out), and for the flag that whoever raised it is still on the way to lowering it.
- `WritersKeepTheChain`, `AppendKeepsChain`, `TipIsFresh`, `MonitorIsRight`: `ChainInv` says that
  a thread at "insert", and only such a thread, holds `_audit_chain_lock` and a tip that is
  the last hash; that rows are linked and, unless one was altered, intact; and that what the
  monitor has stored, or is about to store, is a position of the log and the hash of the row
  there, which makes an incremental scan agree with a full one. It holds for any number of threads
  until a rotation begins, and what it says of rows and tips for one thread always; with rotation and
  two threads that is false as well, so the hypotheses (`NoRotation`, `OneThread`) are the boundary of
  the claim. `MonitorIsRight` has `NoRotation` only: with rotation incremental scans give false alarms
  even where one thread logs (section 4).
- `ImplementsTrail`, `OneThreadLosesNothing`: one thread implements `AuditTrail`, step by step:
  `TrailInv` says that while the rows are copied and not yet deleted the archive holds them,
  so DELETE removes nothing from the abstract trail, and purging adds to what was purged.
- `ArchivesVerify`: `CrossInv` adds that consecutive archives are linked at their ends, and where
  the link to the live log is at each step of a rotation that is not cut short.

### Accounts and sessions (`SessionsProofs`)

- `TypeCorrect`; `RootIsProtected`: `RootInv` adds what each handler has learnt: a thread about
  to delete, or to change a role, has a target that is not `Root`, although the row it looked at
  may be out of date; ids other than the root's are larger than 1.
- `OneSession`: replacing the old session and adding the new one is one critical section.
- `IdsIdentify`: `IdInv`: a name is the only one ever seen with an id, in the table, in sessions
  and in rows that threads hold, and no id is larger than `lastId`: AUTOINCREMENT never goes back.
- `SessionsFollowAccounts`, `OnlyRootDeletesOrResetsAdmins`: where requests do not overlap, the first for a
  session and an account that have the same id, the second for deletion and the reset of a password. `SerialInv`
  says that a session agrees with its account unless the one request that is running has changed
  the account and is about to revoke (`Revoking`), and what a handler that passed its checks is
  entitled to (`Entitled`). The case `cast # Names` of `SessionsMC` is where requests overlap;
  both properties are false there (section 4).

### Filesystem (`VfsProofs`)

- `TablesWellFormed`: for any overlap. The checks that mkdir, send and mv make first may be out
  of date when they write; UNIQUE and the foreign keys are not, and that is all that is needed.
- `EveryFileHasItsBlob`: for any overlap, unless a request was cut short. `Owned` says that a
  blob belongs to one row or to the one thread that is to put it into a row, so nobody unlinks
  what another will name; `Readable` says who is about to fill a row that lacks its metadata, or
  to put a blob where a row names one that is gone.
- `BlobsAreDescribed`: requests that do not overlap, errors and crashes included. `LoneInv` says
  what the running request has on disk and in the tables at each of its steps, and which of the
  blobs that no row names were swept there by the removal of a directory.
- `InodesAreOneTree`: requests that do not overlap, under the hypothesis `Careful`, a constant
  that says that clients put nothing into a file and move no directory into itself, which the
  server does not refuse. (TLC finds the tree broken without it, section 4.) mv compares paths, not
  inodes: `TreeInv` carries from the comparison to the UPDATE that the inode to be moved is not on the
  way up from its new parent (`Apart`), because an inode above the target is found on its path. The
  lemmas about `Walks` and `UpFrom` are what is left of a tree when an inode is added, renamed, moved
  or removed.
- `DirectoriesAddUp`: under the same hypotheses, and unless a request was cut short, the recorded size of a
  directory is the sum of the files below it. `SizeInv` says so of the tables after every commit (`Sized`), and
  that what a request has read of a size, or of the parent from which it will carry up, still holds when it
  writes (`Known`). That is what a second request would break (section 4). The sums are `MapThenSumSet` of the
  community modules; what they come to with an element more or less, or for two sets that are apart, is
  obtained from the existence of the recursive function behind them, built by cardinality. `MovedUp` and
  `UpIsLine` give the directories whose sums a move changes.

### Permissions, keys (`AclProofs`)

- `DenyHidesAll`, `ViewsAreRelated`, `RemovalsAreAllowed`: `TreeInv` says that the inodes are
  a tree: parents exist and are directories (`Parented`), and every set of inodes that is closed under
  taking parents has the root in it (`Rooted`), which excludes circles without counting steps. That
  of two inodes above one another each is the other (`NoCircle`), and that of any inodes on one way
  up one is closest (`OneIsClosest`), are lemmas from it. They are why `ORDER BY depth LIMIT 1` has
  one answer, why fetch, which asks the closest entry, serves what ls shows, which asks all of them, and
  why the deny that a removal has to respect is the one that was asked. For what fetch serves
  beside that, `ServedIsGranted` and `HiddenIsDenied` give the two entries that part them. `TreeMoves` is
  the step that uses the guard of mv, `TreeShrinks` the one that uses the cascade.
- `KeysAndTreeAreTyped`: in addition, a key is issued with a deadline TTL after it was drawn.
- `Implements`: `Spec => KeepsPromise`, the refinement of `ExpiringStore`. The abstract variables are
  history variables of `KeyManager`; the proof shows that each step is one of the abstract steps or
  a stutter. The case of interest is a thread that has taken an entry from the dictionary and
  looks at the clock without the lock, while others revoke or sweep the key: `EntryInv` says that
  the entry was good in the course of the call unless it had expired by now, `StoreInv` that what is
  in the dictionary was issued and not revoked and that what is good is there, `CallInv` that each
  call has seen what holds now, `IssueInv` that no two threads are about to issue the same key.

### Deliveries (`DeliveriesProofs`)

- `TypeCorrect`; `SentOnce`: `Ledger` and `Accounted` follow each delivery from the row to the list of a
  request, its response, the stream and the shell that saves it, in one place at a time; a row
  that says delivered and is in none of them was thrown away by a failure that is on record.
- `NothingOverwritten`: for a shell that is the only one of the installation (`Only`), whoever its user
  is: the name that was found free is still free when the file is written. `SettledForGood`: for a
  recipient with one shell (`Sole`): a request that marks a row as failed is the only one that has it.

### Web login and limits (`TablesProofs`)

- `TokensTakenOnce` (`OnceInv`): a token is with one request, or in one entry, or was handed out.
- `EntriesOutlivePolling` (`OutliveInv`): an entry is made after its client has drawn the key, so it
  expires after the client has given up.
- `NoSessionIsStranded` (`ReachInv`): with one client and one login at a time, what the session file
  holds at each step of the client, and that what waits for it is newer. An entry counts as waiting
  while a client polls its key (`Polled`); what is put under another key, or is still there when the
  client gives up, is `stray` and not claimed.
- `BucketIsFair` (`BucketInv`): the bucket's tokens bound what the last grants can have been, for
  every earlier grant at once: the bound on bursts is over all pairs of grants, and the one on a
  new grant follows from those on the one before.
- `LimitsAreHeld`: `HitsInv` says that hits are attempts that were let in, and that the others are out of
  the window by now, hence for any clock that is read later; a request whose clock is earlier may count
  too few, by what falls into the last `MaxDelay` of its window, which the bound leaves out; `FailBound` and
  `LockBound` count the failures of a window
  together with the requests that are past the check, which is the slack that check and record, being
  apart, leave.

### Connections and uploads (`ClientProofs`)

- `ConnectionsInStep`: `OrderInv` says that what is in the buffer, together with what is on the way, is the
  rest of a line followed by the lines that come after it, whatever pieces recv takes; `StepInv` says
  where the answer to the shell's request is: to come, in the handler's hands, in the stream, or
  lost with the connection.
- `UploadsAreHonest`: `UploadInv` says of the dialogue's lists what the files in them are: still to
  be sent, refused because they are there, agreed to, stored, failed; they are apart, and their numbers add
  up to the walk.

- `TablesAreTyped`: the type invariant of all six small components together, with the invariants above and
  those of `TablesProofs` and `StartupProofs`. `ConnMore` (what comes back is of lines that were answered,
  and a recv finds no line left over) and `DialogEnds` (a dialogue that has ended has an outcome, and counts no more than the
  walk has) are what those left out.

### Start (`StartupProofs`)

- `StartIsSound`: `KeyInv` follows the key from the file or the environment to the process and to
  the blobs; `SchemaInv` says which tables and columns a process must have made by the point it
  is at, although the statements may be committed one by one or stay in an open transaction that
  a crash undoes; `SizeInv` does so for the sizes, with the history variable `cut` for the case
  that `startup_sizes` shows. `BoundInv` says where keys and sizes come from.

### Only model-checked

- Liveness (`RequestsFinish`, `AlterationReported`, `ExpiredGoes`, `EventuallySettled`), which is
  out of the prover's reach.
- The five properties that TLC refutes in the runs of section 3 are false of the code, and so is what
  section 4 lists: the hypotheses of the theorems (`OneThread`, `NoRotation`, `Careful`, requests that do
  not overlap) are where TLC finds that a property stops to hold, not where a proof stopped.

Induction over numbers is only available as a least element of a set (`LeastNumber`, from
the library's theorem that strict inclusion of finite sets is well founded), as the library's rules of
induction take an operator, which the installed provers cannot instantiate. That was enough for
the proofs above, the sums included.

## 6. Abstractions to know about

- AuditLog: a row's fields are one bit (intact or not). Rows that are deleted behind the
  server's back are not modelled. A failed backup may leave an empty archive (`Fail`).
- Sessions: a password check is one step with the SELECT before it, and login takes the time
  in the same step as the lock. `verify_only` of change_password and requests that fail
  validation change nothing and are left out.
- Vfs: path resolution is one step although it is a SELECT per segment; so are the two SELECTs
  at the head of `delete_inode` and `move_inode`. rm and mv of `/`, and a database without a
  root, are left out. `Careful` is an assumption on clients: it excludes using a file as a
  directory and moving a directory into itself, which the server does not refuse. Refused
  requests are not steps. Owners are in Acl.
- Acl: one request is one step, roles do not change, names are left out. The Vfs cases that
  `Careful` excludes are excluded here as well. stat has no ACL check in the code.
- Deliveries: what happens to an account or a file from outside is one step each, and a blob is
  a number. The masking is a choice between success and an exception.
- WebLogin: tokens of one user. Requests for pages, CSRF tokens and cookies' attributes are
  left out, so is the lockout, which is in RateLimit.
- RateLimit: one address and one account. A request waits at most `MaxDelay` between its clock and its
  lock, and the clock does not go back.
- VfsBucket: one session; tokens are whole. KeyManager: ids drawn at random are new.
- Connection: bytes come in units, TLS is left out, a handler takes time and no more. After a
  line that is too long, or an end of the stream, the connection is closed.
- Upload: a request is one step, the comparison of hashes is one of contents, and the user's
  own permissions do not change.
- Startup: one process at a time; a file is a unit of bytes in one directory. The mode that
  master.key gets after it is written and an invalid `EFS_MASTER_KEY` are left out.

Not modelled: masking (regular expressions and document formats) and encryption (a library), which
are pure functions; configuration, whose values are constants here; scripts, packaged clients and
sample data; the commands `encrypt`, `decrypt` and `mask` of flat files (server.py 540-649), of
which `encrypt` writes a file of its own name into the blob directory that no inode names, and which
no property here is about; `web/token_store.py`, which nothing imports; commands that only read
(whoami, list_users, query_audit), pages and TLS.

## 7. Running it

`tlc -config <run>.cfg <module>.tla` with the module that `PROJECT.json` names for the run, and
`tlapm --stretch 1.3 <module>.tla` for each of the eight modules of proofs (from half a minute
to a quarter of an hour). No run takes more than five minutes on two cores. Where a run has two sets of bounds ("either ... or"), its MC module chooses between
them in the initial state; `audit_threads` has the constraint `AuditLogMC!RotationsApart`.

## 8. Plan

Done, in this order: AuditLog with AuditTrail, Sessions, Vfs, Acl; then Deliveries, WebLogin,
KeyManager with ExpiringStore, RateLimit, VfsBucket, Connection, Upload, Startup; then the proofs, in the
order of section 5, the sums of Vfs and the types of TablesMC last.

To do:

1. Path resolution of Vfs one segment at a time, beside moves.
2. Two processes that start on one installation, and two shells that upload into one directory.
3. For several writers, the conditions under which a rotation loses nothing (`NoEntryLost` is false of the
   code as it is).
