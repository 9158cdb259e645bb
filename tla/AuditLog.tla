------------------------------ MODULE AuditLog ------------------------------
(***************************************************************************)
(* The audit log of the EFS-TDM server: the hash-chained table audit_log,  *)
(* its rotation into archive files, and the background integrity monitor.  *)
(*                                                                         *)
(* Sources: server_pkg/core/db.py (append_audit, rotate_audit_log,         *)
(* append_audit_with_config, verify_audit_chain), server/audit_logger.py   *)
(* and server_pkg/server/server.py (_audit_guard, _handle_rotate_audit,    *)
(* _AuditIntegrityMonitor).                                                *)
(*                                                                         *)
(* A step of a thread is what the code does between two points where       *)
(* another connection or another thread can get in: one autocommit SELECT, *)
(* one write transaction, one acquisition of a lock.                       *)
(*                                                                         *)
(* An HMAC is abstracted to a stamp: the n-th hash computed is n, and      *)
(* NoHash stands for the empty string.  A row remembers the predecessor    *)
(* its hash was computed from, and whether its fields still are the ones   *)
(* that were hashed.  The id of a row is its position: ids are handed out  *)
(* in order and rotation deletes the table's sqlite_sequence entry.        *)
(***************************************************************************)
EXTENDS Naturals, Sequences, FiniteSets

CONSTANTS
  RequestThreads,  \* connection threads of the server; they log through self.log
  WebThreads,      \* web UI threads; they call append_audit themselves
  Rotators,        \* the request threads whose user may send rotate_audit
  NoThread,        \* owner of a free lock
  MaxEntries,      \* audit.auto_rotate_max_entries, 0 = off
  AgeRotates,      \* audit.auto_rotate_max_days > 0
  RetentionMax,    \* audit.retention_max_archives, 0 = keep all
  FullEvery,       \* audit.integrity_full_scan_every_n_polls
  MaxRequests,     \* bound: log calls and rotate_audit requests of a behaviour
  MaxAlters,       \* bound: rows modified behind the server's back
  MaxFails,        \* bound: database or file errors
  MaxCrashes       \* bound: restarts of the server process

Threads == RequestThreads \cup WebThreads

ASSUME ThreadsAssumption ==
  /\ Rotators \subseteq RequestThreads
  /\ RequestThreads \cap WebThreads = {}
  /\ NoThread \notin Threads

ASSUME ConfigAssumption ==
  /\ MaxEntries \in Nat /\ RetentionMax \in Nat
  /\ FullEvery \in Nat \ {0}
  /\ AgeRotates \in BOOLEAN

ASSUME BoundsAssumption ==
  /\ MaxRequests \in Nat /\ MaxAlters \in Nat
  /\ MaxFails \in Nat /\ MaxCrashes \in Nat

VARIABLES
  live,       \* the rows of audit_log in the live database, oldest first
  archives,   \* archive name -> the rows of that archive; names grow with time
  stamp,      \* number of hashes computed so far
  named,      \* number of archive names handed out
  thread,     \* what each thread is doing
  chainLock,  \* _audit_chain_lock
  auditLock,  \* _audit_lock
  rotating,   \* _audit_rotating
  mon,        \* the integrity monitor
  alert,      \* _audit_tamper_alert is not empty
  requests, alters, fails, crashes,   \* counters the bounds limit
  purged      \* history: links of the rows that the retention policy deleted

files == <<live, archives, stamp, named, purged>>
locks == <<chainLock, auditLock, rotating>>
counters == <<requests, alters, fails, crashes>>
vars == <<files, thread, locks, mon, alert, counters>>

-----------------------------------------------------------------------------
(* Rows and chains                                                         *)

NoHash == 0

Row == [act: {"entry", "rotated", "rotated_from"},
        ref: Nat,         \* the prev_hash: part of a bootstrap row's file_id
        hash: Nat, prev: Nat, intact: BOOLEAN]

TipHash(rows) == IF rows = <<>> THEN NoHash ELSE rows[Len(rows)].hash

\* Rows above position `from` verify, starting from the running hash `prev`.
SuffixOK(rows, from, prev) ==
  \A i \in from + 1 .. Len(rows) :
    /\ rows[i].intact
    /\ rows[i].prev = IF i = from + 1 THEN prev ELSE rows[i - 1].hash

ChainOK(rows) == SuffixOK(rows, 0, NoHash)

\* verify_audit_chain_across on the files fs, oldest first.
AcrossOK(fs) ==
  \A i \in 1 .. Len(fs) :
    /\ ChainOK(fs[i])
    /\ fs[i] # <<>>
    /\ (i = 1) => fs[i][1].act # "rotated_from"
    /\ (i > 1) => /\ fs[i][1].act = "rotated_from"
                  /\ fs[i][1].ref = TipHash(fs[i - 1])

\* A row and the row it follows in the trail: the predecessor in its own file
\* or, for a bootstrap row, the archived row that its file_id names.
Link(r) == [hash |-> r.hash,
            pred |-> IF r.act = "rotated_from" THEN r.ref ELSE r.prev]
Links(rows) == {Link(rows[i]) : i \in 1 .. Len(rows)}

-----------------------------------------------------------------------------
(* Threads                                                                 *)

Pcs == {"idle", "queued", "lock", "read", "insert", "check",
        "tip", "backup", "truncate", "purge", "reset"}

ThreadState == [pc: Pcs,
                act: {"entry", "rotated", "rotated_from"},  \* row being written
                tip: Nat,          \* prev_hash read by append_audit
                last: Nat,         \* last_hash read by rotate_audit_log
                name: Nat,         \* archive_name
                manual: BOOLEAN]   \* in _handle_rotate_audit

Idle == [pc |-> "idle", act |-> "entry", tip |-> NoHash, last |-> NoHash,
         name |-> 0, manual |-> FALSE]

MonitorState == [pc: {"sleep", "resync", "apply", "alarm"},
                 polls: Nat, lastId: Nat, lastHash: Nat,
                 newId: Nat, newHash: Nat]

FreshMonitor == [pc |-> "sleep", polls |-> 0, lastId |-> 0, lastHash |-> NoHash,
                 newId |-> 0, newHash |-> NoHash]

\* What the files, the locks and the threads' local variables can hold; no two
\* archives share a name and none is later than the last one handed out.
TypeOK ==
  /\ live \in Seq(Row)
  /\ DOMAIN archives \subseteq 1 .. named
  /\ \A n \in DOMAIN archives : archives[n] \in Seq(Row)
  /\ stamp \in Nat /\ named \in Nat
  /\ thread \in [Threads -> ThreadState]
  /\ chainLock \in Threads \cup {NoThread}
  /\ auditLock \in Threads \cup {NoThread}
  /\ rotating \in BOOLEAN /\ alert \in BOOLEAN
  /\ mon \in MonitorState
  /\ requests \in Nat /\ alters \in Nat /\ fails \in Nat /\ crashes \in Nat
  /\ purged \subseteq [hash: Nat, pred: Nat]

Init ==
  /\ live = <<>> /\ archives = <<>> /\ stamp = 0 /\ named = 0
  /\ thread = [t \in Threads |-> Idle]
  /\ chainLock = NoThread /\ auditLock = NoThread /\ rotating = FALSE
  /\ mon = FreshMonitor /\ alert = FALSE
  /\ requests = 0 /\ alters = 0 /\ fails = 0 /\ crashes = 0
  /\ purged = {}

-----------------------------------------------------------------------------
(* Threads and locks                                                       *)

Become(t, state) == thread' = [thread EXCEPT ![t] = state]

\* Thread t enters append_audit for a row of kind `act`.
Appending(st, act) == [st EXCEPT !.pc = "read", !.act = act]

\* Thread t enters rotate_audit_log: the archive name is taken from the clock,
\* then the sentinel is appended.
Rotation(manual) ==
  [Appending(Idle, "rotated") EXCEPT !.name = named + 1, !.manual = manual]

-----------------------------------------------------------------------------
(* Writing an entry                                                        *)

\* A handler evaluates self.log: _audit_guard looks at the rotation flag.
LogEntry(t) ==
  /\ t \in RequestThreads /\ thread[t].pc = "idle"
  /\ requests < MaxRequests /\ requests' = requests + 1
  /\ Become(t, IF rotating THEN [Idle EXCEPT !.pc = "queued"]
                           ELSE Appending(Idle, "entry"))
  /\ UNCHANGED <<files, locks, mon, alert, alters, fails, crashes>>

\* _audit_guard takes _audit_lock and lets it go at once.
LeaveQueue(t) ==
  /\ thread[t].pc = "queued" /\ auditLock = NoThread
  /\ Become(t, Appending(Idle, "entry"))
  /\ UNCHANGED <<files, locks, mon, alert, counters>>

\* do_login of the web UI records a failed login without the guard.
WebEntry(t) ==
  /\ t \in WebThreads /\ thread[t].pc = "idle"
  /\ requests < MaxRequests /\ requests' = requests + 1
  /\ Become(t, Appending(Idle, "entry"))
  /\ UNCHANGED <<files, locks, mon, alert, alters, fails, crashes>>

\* Mutant: the SELECT is not under the lock.
ReadTip_Unlocked(t) ==
  /\ thread[t].pc = "read"
  /\ Become(t, [thread[t] EXCEPT !.pc = "insert", !.tip = TipHash(live)])
  /\ UNCHANGED <<files, locks, mon, alert, counters>>

\* append_audit: take _audit_chain_lock, SELECT the tip.
ReadTip(t) ==
  /\ thread[t].pc = "read" /\ chainLock = NoThread
  /\ chainLock' = t
  /\ Become(t, [thread[t] EXCEPT !.pc = "insert", !.tip = TipHash(live)])
  /\ UNCHANGED <<files, auditLock, rotating, mon, alert, counters>>

\* Mutant: the bootstrap row is hashed against the archive's last hash.
NewRow_Chained(st) == [act |-> st.act,
               ref |-> IF st.act = "rotated_from" THEN st.last ELSE NoHash,
               hash |-> stamp + 1,
               prev |-> IF st.act = "rotated_from" THEN st.last ELSE st.tip,
               intact |-> TRUE]

\* Mutant: the bootstrap row names the tip of the truncated log.
NewRow_EmptyTip(st) == [act |-> st.act, ref |-> st.tip,
                        hash |-> stamp + 1, prev |-> st.tip, intact |-> TRUE]

NewRow(st) == [act |-> st.act,
               ref |-> IF st.act = "rotated_from" THEN st.last ELSE NoHash,
               hash |-> stamp + 1, prev |-> st.tip, intact |-> TRUE]

\* Mutant: rotate_audit_log does not read the sentinel's hash.
Continuation_NoTip(t) ==
  CASE thread[t].act = "rotated"      -> "backup"
    [] thread[t].act = "rotated_from" -> "purge"
    [] thread[t].act = "entry"        -> IF t \in WebThreads THEN "idle" ELSE "check"

\* What the caller of append_audit does next.
Continuation(t) ==
  CASE thread[t].act = "rotated"      -> "tip"
    [] thread[t].act = "rotated_from" -> "purge"
    [] thread[t].act = "entry"        -> IF t \in WebThreads THEN "idle" ELSE "check"

\* append_audit: INSERT the row, commit, release _audit_chain_lock.
Insert(t) ==
  /\ thread[t].pc = "insert"
  /\ live' = Append(live, NewRow(thread[t]))
  /\ stamp' = stamp + 1
  /\ chainLock' = NoThread
  /\ Become(t, [thread[t] EXCEPT !.pc = Continuation(t), !.tip = NoHash])
  /\ UNCHANGED <<archives, named, purged, auditLock, rotating, mon, alert, counters>>

\* append_audit_with_config: rotate at once when a threshold is reached.  The
\* age of the oldest row is the environment's choice.
OverThreshold(aged) ==
  \/ MaxEntries > 0 /\ Len(live) > MaxEntries
  \/ AgeRotates /\ live # <<>> /\ aged

CheckThreshold(t) ==
  /\ thread[t].pc = "check"
  /\ \E aged \in BOOLEAN :
       IF OverThreshold(aged)
       THEN Become(t, Rotation(FALSE)) /\ named' = named + 1
       ELSE Become(t, Idle) /\ UNCHANGED named
  /\ UNCHANGED <<live, archives, stamp, purged, locks, mon, alert, counters>>

-----------------------------------------------------------------------------
(* Rotation                                                                *)

\* _handle_rotate_audit raises the flag before it takes the lock.
RequestRotation(t) ==
  /\ t \in Rotators /\ thread[t].pc = "idle"
  /\ requests < MaxRequests /\ requests' = requests + 1
  /\ rotating' = TRUE
  /\ Become(t, [Idle EXCEPT !.pc = "lock"])
  /\ UNCHANGED <<files, chainLock, auditLock, mon, alert, alters, fails, crashes>>

\* Mutant: the archive name does not move on.
StartRotation_SameName(t) ==
  /\ thread[t].pc = "lock" /\ auditLock = NoThread
  /\ auditLock' = t
  /\ Become(t, Rotation(TRUE))
  /\ UNCHANGED <<files, chainLock, rotating, mon, alert, counters>>

StartRotation(t) ==
  /\ thread[t].pc = "lock" /\ auditLock = NoThread
  /\ auditLock' = t
  /\ named' = named + 1
  /\ Become(t, Rotation(TRUE))
  /\ UNCHANGED <<live, archives, stamp, purged, chainLock, rotating,
                 mon, alert, counters>>

\* The hash that the new log will refer to is read after the sentinel commits.
ReadLastHash(t) ==
  /\ thread[t].pc = "tip"
  /\ Become(t, [thread[t] EXCEPT !.pc = "backup", !.last = TipHash(live)])
  /\ UNCHANGED <<files, locks, mon, alert, counters>>

Archive(n, rows) ==
  archives' = [m \in DOMAIN archives \cup {n} |-> IF m = n THEN rows ELSE archives[m]]

\* sqlite3 backup copies a consistent snapshot of the database.
Backup(t) ==
  /\ thread[t].pc = "backup"
  /\ Archive(thread[t].name, live)
  /\ Become(t, [thread[t] EXCEPT !.pc = "truncate"])
  /\ UNCHANGED <<live, stamp, named, purged, locks, mon, alert, counters>>

\* DELETE FROM audit_log, then the bootstrap row is appended.
Truncate(t) ==
  /\ thread[t].pc = "truncate"
  /\ live' = <<>>
  /\ Become(t, Appending(thread[t], "rotated_from"))
  /\ UNCHANGED <<archives, stamp, named, purged, locks, mon, alert, counters>>

Retained ==
  {n \in DOMAIN archives :
     RetentionMax = 0 \/ Cardinality({m \in DOMAIN archives : m > n}) < RetentionMax}

\* Mutant: the flag is only cleared by a rotation that succeeded.
ReleaseAudit_KeepFlag(t) ==
  IF thread[t].manual
  THEN rotating' = (rotating /\ thread[t].pc # "purge") /\ auditLock' = NoThread
  ELSE UNCHANGED <<rotating, auditLock>>

\* _handle_rotate_audit leaves its try and its with: clear the flag, release.
ReleaseAudit(t) ==
  IF thread[t].manual
  THEN rotating' = FALSE /\ auditLock' = NoThread
  ELSE UNCHANGED <<rotating, auditLock>>

\* _purge_old_archives, then back to the handler.
Purge(t) ==
  /\ thread[t].pc = "purge"
  /\ archives' = [n \in Retained |-> archives[n]]
  /\ purged' = purged \cup UNION {Links(archives[n]) : n \in DOMAIN archives \ Retained}
  /\ ReleaseAudit(t)
  /\ Become(t, IF thread[t].manual THEN [Idle EXCEPT !.pc = "reset"] ELSE Idle)
  /\ UNCHANGED <<live, stamp, named, chainLock, mon, alert, counters>>

\* _AuditIntegrityMonitor.reset, called after the lock is released; a scan in
\* progress is not interrupted.
ResetMonitor(t) ==
  /\ thread[t].pc = "reset"
  /\ alert' = FALSE
  /\ mon' = [mon EXCEPT !.lastId = 0, !.lastHash = NoHash, !.polls = 0]
  /\ Become(t, Idle)
  /\ UNCHANGED <<files, locks, counters>>

-----------------------------------------------------------------------------
(* The integrity monitor                                                   *)

\* Mutant: the counter restarts at one.
NextPoll_Skip == IF mon.polls + 1 >= FullEvery THEN 1 ELSE mon.polls + 1

\* The poll counter; a full scan is due at 0.
NextPoll == (mon.polls + 1) % FullEvery

\* One poll: skipped while the rotation flag is up, else the rows are fetched
\* by one SELECT and verified in memory.
Poll ==
  /\ mon.pc = "sleep"
  /\ LET polls == NextPoll
         first == IF mon.lastId = 0 THEN NoHash ELSE mon.lastHash
         fresh == Len(live) > mon.lastId
     IN  \/ rotating /\ UNCHANGED mon
         \/ /\ ~rotating /\ polls = 0
            /\ mon' = [mon EXCEPT !.polls = polls,
                                  !.pc = IF ChainOK(live) THEN "resync" ELSE "alarm"]
         \/ /\ ~rotating /\ polls # 0 /\ ~SuffixOK(live, mon.lastId, first)
            /\ mon' = [mon EXCEPT !.polls = polls, !.pc = "alarm"]
         \/ /\ ~rotating /\ polls # 0 /\ SuffixOK(live, mon.lastId, first)
            /\ mon' = [mon EXCEPT !.polls = polls, !.pc = "apply",
                         !.newId = IF fresh THEN Len(live) ELSE mon.lastId,
                         !.newHash = IF fresh THEN TipHash(live) ELSE mon.lastHash]
  /\ UNCHANGED <<files, thread, locks, alert, counters>>

\* _resync_tip: a second SELECT, after a clean full scan.
Resync ==
  /\ mon.pc = "resync"
  /\ mon' = [mon EXCEPT !.pc = "apply", !.newId = Len(live), !.newHash = TipHash(live)]
  /\ UNCHANGED <<files, thread, locks, alert, counters>>

\* The scan's result is stored in _last_id and _last_hash.
Apply ==
  /\ mon.pc = "apply"
  /\ mon' = [mon EXCEPT !.pc = "sleep", !.lastId = mon.newId, !.lastHash = mon.newHash,
                        !.newId = 0, !.newHash = NoHash]
  /\ UNCHANGED <<files, thread, locks, alert, counters>>

RaiseAlert ==
  /\ mon.pc = "alarm"
  /\ alert' = TRUE
  /\ mon' = [mon EXCEPT !.pc = "sleep"]
  /\ UNCHANGED <<files, thread, locks, counters>>

-----------------------------------------------------------------------------
(* The environment                                                         *)

\* A row of the live database is modified by something other than the server.
Alter(i) ==
  /\ alters < MaxAlters /\ alters' = alters + 1
  /\ live[i].intact
  /\ live' = [live EXCEPT ![i].intact = FALSE]
  /\ UNCHANGED <<archives, stamp, named, purged, thread, locks, mon, alert,
                 requests, fails, crashes>>

\* Mutant: an error leaves append_audit without releasing the lock.
ReleaseChain_Never(t) == UNCHANGED chainLock

\* `with _audit_chain_lock` is left.
ReleaseChain(t) == chainLock' = IF chainLock = t THEN NoThread ELSE chainLock

\* A database or file error in the statement that thread t is about to run: the
\* exception unwinds the locks, and the monitor is not reset.  A backup that
\* fails may leave an archive file without rows behind.
Fail(t) ==
  /\ fails < MaxFails /\ fails' = fails + 1
  /\ thread[t].pc \in {"read", "insert", "check", "tip", "backup", "truncate"}
  /\ \/ UNCHANGED archives
     \/ thread[t].pc = "backup" /\ Archive(thread[t].name, <<>>)
  /\ ReleaseChain(t)
  /\ ReleaseAudit(t)
  /\ Become(t, Idle)
  /\ UNCHANGED <<live, stamp, named, purged, mon, alert, requests, alters, crashes>>

\* The process dies and is started again: only the files survive.
Crash ==
  /\ crashes < MaxCrashes /\ crashes' = crashes + 1
  /\ thread' = [t \in Threads |-> Idle]
  /\ chainLock' = NoThread /\ auditLock' = NoThread /\ rotating' = FALSE
  /\ mon' = FreshMonitor /\ alert' = FALSE
  /\ UNCHANGED <<files, requests, alters, fails>>

-----------------------------------------------------------------------------

\* The steps of a request that is already being served.
Serve(t) ==
  \/ LeaveQueue(t) \/ ReadTip(t) \/ Insert(t) \/ CheckThreshold(t)
  \/ StartRotation(t) \/ ReadLastHash(t) \/ Backup(t) \/ Truncate(t)
  \/ Purge(t) \/ ResetMonitor(t)

Scan == Poll \/ Resync \/ Apply \/ RaiseAlert

Next ==
  \/ \E t \in Threads : \/ LogEntry(t) \/ WebEntry(t) \/ RequestRotation(t)
                        \/ Serve(t) \/ Fail(t)
  \/ Scan
  \/ \E i \in 1 .. Len(live) : Alter(i)
  \/ Crash

Spec == Init /\ [][Next]_vars

\* Threads are scheduled by the operating system and locks are eventually
\* handed over; the monitor is a daemon thread that wakes up every interval.
\* Nothing is assumed of new requests, errors, crashes or alterations.
FairSpec == Spec /\ (\A t \in Threads : WF_vars(Serve(t))) /\ WF_vars(Scan)

-----------------------------------------------------------------------------
(* What the log promises                                                   *)

Altered == alters > 0

\* Every row that was ever committed, wherever it is now.
Trail == Links(live) \cup (UNION {Links(archives[n]) : n \in DOMAIN archives}) \cup purged

\* The live chain verifies unless a row was modified behind the server's back
\* (append_audit: concurrent threads cannot hash against a stale predecessor).
ChainValid == ~Altered => ChainOK(live)

\* The monitor accuses nobody when nothing was modified: a tamper alert is only
\* up when some row really was altered (_AuditIntegrityMonitor).
NoFalseAlarm == alert => Altered

\* No committed row disappears: rotate_audit_log only deletes what it archived.
NoEntryLost == \A h \in 1 .. stamp : \E l \in Trail : l.hash = h

\* The lock that serialises SELECT-then-INSERT in append_audit: at most one
\* thread holds a predecessor that it has not used yet, and it is still the tip.
TipFresh ==
  \A t \in Threads : thread[t].pc = "insert" =>
    chainLock = t /\ thread[t].tip = TipHash(live)

\* The flag does not outlive the rotations it is up for, whatever fails: a request
\* that finds it up has somebody to wait for (_handle_rotate_audit, `finally`).
FlagNotStuck ==
  rotating => \E t \in Threads :
    \/ thread[t].pc = "lock"
    \/ thread[t].manual /\ thread[t].pc # "reset"

\* Has somebody begun to rotate?
RotationBegun == named > 0 \/ \E t \in Threads : thread[t].manual

\* As long as no thread rotates, whoever is about to insert a row holds the chain lock
\* and the newest hash, the rows of all threads are one chain, and the monitor that
\* reads beside them never raises a false alarm (append_audit, _AuditIntegrityMonitor).
WritersKeepChain == ~RotationBegun => TipFresh /\ ChainValid /\ NoFalseAlarm

\* Was a request cut short by an error or a crash?
Interrupted == fails + crashes > 0

\* The archives, oldest first, and then the live log: what an auditor passes to
\* verify_audit_chain_across.
LogFiles == [i \in 1 .. Cardinality(DOMAIN archives) |->
               archives[CHOOSE n \in DOMAIN archives :
                          Cardinality({m \in DOMAIN archives : m < n}) = i - 1]]
            \o <<live>>

\* Whenever no rotation is under way, none was cut short and no archive was purged,
\* the archives and the live log verify as one chain (verify_audit_chain_across
\* after rotate_audit_log).
AcrossVerifies ==
  /\ \A t \in Threads : thread[t].pc = "idle"
  /\ purged = {} /\ live # <<>> /\ ~Altered /\ ~Interrupted
  => AcrossOK(LogFiles)

\* The rows of archives and live log, as one append-only chain.
AbstractTrail == INSTANCE AuditTrail
  WITH trail <- Trail, tip <- stamp, interrupted <- Interrupted
\* Whatever is rotated, purged or cut short, rows are only ever added, each after the
\* newest one (rotate_audit_log, append_audit).
ImplementsAuditTrail == AbstractTrail!Spec

=============================================================================
