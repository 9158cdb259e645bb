--------------------------- MODULE AuditLogProofs ---------------------------
(***************************************************************************)
(* Proofs about AuditLog, for every set of threads and every value of the  *)
(* bounds: type correctness and the rotation flag; the chain, the lock of  *)
(* append_audit and the integrity monitor until the first rotation begins, *)
(* and through all rotations for a server that never rotates or has one    *)
(* thread.  With one thread, whatever the thresholds, the retention        *)
(* policy, errors, crashes and altered rows, the log also implements       *)
(* AuditTrail, no entry is lost, and after undisturbed rotations the       *)
(* archives and the live log verify as one chain.  With two threads the    *)
(* second of these fails (NoEntryLost).                                    *)
(***************************************************************************)
EXTENDS AuditLog, SequenceTheorems, FiniteSetTheorems, TLAPS

-----------------------------------------------------------------------------
(* Types                                                                   *)

\* What TypeOK needs to be inductive: a rotation has a name that was handed out, the
\* place where a thread stands tells which row it writes, and a thread that holds
\* _audit_lock is rotating.
Named(st, n) ==
  /\ st.name \in 0 .. n
  /\ st.act # "entry" => st.name # 0
  /\ st.pc \in {"tip", "backup", "truncate"} => st.act = "rotated"
  /\ st.pc = "purge" => st.act = "rotated_from"
  /\ st.pc \in {"idle", "queued", "lock", "check", "reset"} => st.act = "entry"
  /\ st.manual => st.act # "entry"

Naming == \A t \in Threads : Named(thread[t], named)

TypeInv == TypeOK /\ Naming

\* The hash that append_audit and rotate_audit_log read is a hash.
LEMMA TipHashType == ASSUME NEW rows \in Seq(Row) PROVE TipHash(rows) \in Nat
<1>1. CASE rows = <<>>
  BY <1>1 DEF TipHash, NoHash
<1>2. CASE rows # <<>>
  <2>1. Len(rows) \in Nat \ {0}
    BY <1>2, EmptySeq
  <2>2. rows[Len(rows)] \in Row
    BY <2>1, ElementOfSeq
  <2> QED BY <1>2, <2>2 DEF TipHash, Row
<1> QED BY <1>1, <1>2

\* A thread that serves no request, waits or begins to log is well typed and
\* rotates nothing.
LEMMA IdleType ==
  \A st \in {Idle, [Idle EXCEPT !.pc = "queued"], Appending(Idle, "entry")} :
    /\ st \in ThreadState /\ \A n \in Nat : Named(st, n)
    /\ st.pc \in {"idle", "queued", "read"} /\ st.act = "entry" /\ ~st.manual
<1>1. Idle \in ThreadState
  BY DEF Idle, ThreadState, Pcs, NoHash
<1>2. [Idle EXCEPT !.pc = "queued"] \in ThreadState /\ Appending(Idle, "entry") \in ThreadState
  BY <1>1 DEF Appending, ThreadState, Pcs
<1>3. ASSUME NEW st \in {Idle, [Idle EXCEPT !.pc = "queued"], Appending(Idle, "entry")}
      PROVE  /\ st.pc \in {"idle", "queued", "read"} /\ st.act = "entry" /\ ~st.manual
             /\ st.name = 0
  <2>1. CASE st = Idle
    BY <2>1 DEF Idle
  <2>2. CASE st = [Idle EXCEPT !.pc = "queued"]
    BY <2>2 DEF Idle
  <2>3. CASE st = Appending(Idle, "entry")
    BY <2>3 DEF Idle, Appending
  <2> QED BY <1>3, <2>1, <2>2, <2>3
<1>4. \A st, n : st.pc \in {"idle", "queued", "read"} /\ st.act = "entry" /\ ~st.manual
               /\ st.name = 0 /\ n \in Nat => Named(st, n)
  BY DEF Named
<1> QED BY <1>1, <1>2, <1>3, <1>4

\* A rotation takes the next name.
LEMMA RotationType ==
  ASSUME named \in Nat, NEW manual \in BOOLEAN
  PROVE  Rotation(manual) \in ThreadState /\ Named(Rotation(manual), named + 1)
<1> DEFINE base == Appending(Idle, "rotated")
           new == [base EXCEPT !.name = named + 1]
<1>1. base \in ThreadState /\ base.act = "rotated" /\ base.pc = "read"
  BY IdleType DEF Appending, ThreadState, Pcs
<1> HIDE DEF base
<1>2. new \in ThreadState /\ new.name = named + 1 /\ new.act = "rotated" /\ new.pc = "read"
  BY <1>1 DEF ThreadState
<1> HIDE DEF new
<1>3. [new EXCEPT !.manual = manual] \in ThreadState
  BY <1>2, Zenon DEF ThreadState
<1>4. Named([new EXCEPT !.manual = manual], named + 1)
  BY <1>2 DEF Named, ThreadState
<1>5. Rotation(manual) = [new EXCEPT !.manual = manual]
  BY DEF Rotation, new, base
<1> QED BY <1>3, <1>4, <1>5

\* One thread moves to a state that is well typed and well named.
LEMMA ThreadStep ==
  ASSUME thread \in [Threads -> ThreadState], Naming,
         named \in Nat, named' \in Nat, named <= named',
         NEW t \in Threads, NEW st \in ThreadState, Named(st, named'), Become(t, st)
  PROVE  thread' \in [Threads -> ThreadState] /\ Naming'
<1>1. thread' \in [Threads -> ThreadState]
  BY DEF Become
<1>2. ASSUME NEW u \in Threads PROVE Named(thread'[u], named')
  <2>1. Named(thread[u], named) /\ thread[u] \in ThreadState
    BY DEF Naming
  <2>2. Named(thread[u], named')
    BY <2>1 DEF Named
  <2>3. thread'[u] = IF u = t THEN st ELSE thread[u]
    BY DEF Become
  <2> QED BY <2>2, <2>3
<1> QED BY <1>1, <1>2 DEF Naming

LEMMA TypeInit == Init => TypeInv
<1> SUFFICES ASSUME Init PROVE TypeInv
  OBVIOUS
<1>1. live \in Seq(Row)
  BY EmptySeq DEF Init
<1>2. DOMAIN archives \subseteq 1 .. named /\ \A n \in DOMAIN archives : archives[n] \in Seq(Row)
  BY DEF Init
<1>3. thread \in [Threads -> ThreadState] /\ Naming
  BY IdleType DEF Init, Naming
<1>4. mon \in MonitorState
  BY DEF Init, FreshMonitor, MonitorState, NoHash
<1> QED BY <1>1, <1>2, <1>3, <1>4 DEF Init, TypeInv, TypeOK

LEMMA TypeNext == TypeInv /\ [Next]_vars => TypeInv'
<1> SUFFICES ASSUME TypeInv, [Next]_vars PROVE TypeInv'
  OBVIOUS
<1>a. thread \in [Threads -> ThreadState] /\ named \in Nat /\ Naming
  BY DEF TypeInv, TypeOK
<1>b. TipHash(live) \in Nat
  BY TipHashType DEF TypeInv, TypeOK
<1>1. ASSUME NEW t \in Threads, LogEntry(t) PROVE TypeInv'
  <2> DEFINE st == IF rotating THEN [Idle EXCEPT !.pc = "queued"] ELSE Appending(Idle, "entry")
  <2>1. named' \in Nat /\ named <= named'
    BY <1>a, <1>1 DEF LogEntry, files
  <2>2. st \in ThreadState /\ Named(st, named')
    BY <2>1, IdleType
  <2>3. Become(t, st)
    BY <1>1 DEF LogEntry
  <2> HIDE DEF st
  <2>4. thread' \in [Threads -> ThreadState] /\ Naming'
    BY <1>a, <2>1, <2>2, <2>3, ThreadStep
  <2> QED BY <1>1, <2>1, <2>4 DEF LogEntry, TypeInv, TypeOK, files, locks
<1>2. ASSUME NEW t \in Threads, WebEntry(t) PROVE TypeInv'
  <2> DEFINE st == Appending(Idle, "entry")
  <2>1. named' \in Nat /\ named <= named'
    BY <1>a, <1>2 DEF WebEntry, files
  <2>2. st \in ThreadState /\ Named(st, named')
    BY <2>1, IdleType
  <2>3. Become(t, st)
    BY <1>2 DEF WebEntry
  <2> HIDE DEF st
  <2>4. thread' \in [Threads -> ThreadState] /\ Naming'
    BY <1>a, <2>1, <2>2, <2>3, ThreadStep
  <2> QED BY <1>2, <2>1, <2>4 DEF WebEntry, TypeInv, TypeOK, files, locks
<1>3. ASSUME NEW t \in Threads, RequestRotation(t) PROVE TypeInv'
  <2> DEFINE st == [Idle EXCEPT !.pc = "lock"]
  <2>1. named' \in Nat /\ named <= named'
    BY <1>a, <1>3 DEF RequestRotation, files
  <2>2. st \in ThreadState /\ Named(st, named')
    BY <1>a, IdleType, <1>3, <2>1 DEF Named, Naming, RequestRotation, ThreadState, Pcs, files
  <2>3. Become(t, st)
    BY <1>3 DEF RequestRotation
  <2> HIDE DEF st
  <2>4. thread' \in [Threads -> ThreadState] /\ Naming'
    BY <1>a, <2>1, <2>2, <2>3, ThreadStep
  <2> QED BY <1>3, <2>1, <2>4 DEF RequestRotation, TypeInv, TypeOK, files
<1>4. ASSUME NEW t \in Threads, LeaveQueue(t) PROVE TypeInv'
  <2> DEFINE st == Appending(Idle, "entry")
  <2>1. named' \in Nat /\ named <= named'
    BY <1>a, <1>4 DEF LeaveQueue, files
  <2>2. st \in ThreadState /\ Named(st, named')
    BY <2>1, IdleType
  <2>3. Become(t, st)
    BY <1>4 DEF LeaveQueue
  <2> HIDE DEF st
  <2>4. thread' \in [Threads -> ThreadState] /\ Naming'
    BY <1>a, <2>1, <2>2, <2>3, ThreadStep
  <2> QED BY <1>4, <2>1, <2>4 DEF LeaveQueue, TypeInv, TypeOK, files, locks, counters
<1>5. ASSUME NEW t \in Threads, ReadTip(t) PROVE TypeInv'
  <2> DEFINE st == [thread[t] EXCEPT !.pc = "insert", !.tip = TipHash(live)]
  <2>1. named' \in Nat /\ named <= named'
    BY <1>a, <1>5 DEF ReadTip, files
  <2>2. st \in ThreadState /\ Named(st, named')
    BY <1>a, IdleType, <1>b, <1>5, <2>1 DEF Named, Naming, ReadTip, ThreadState, Pcs, files
  <2>3. Become(t, st)
    BY <1>5 DEF ReadTip
  <2> HIDE DEF st
  <2>4. thread' \in [Threads -> ThreadState] /\ Naming'
    BY <1>a, <2>1, <2>2, <2>3, ThreadStep
  <2> QED BY <1>5, <2>1, <2>4 DEF ReadTip, TypeInv, TypeOK, files, counters
<1>6. ASSUME NEW t \in Threads, StartRotation(t) PROVE TypeInv'
  <2> DEFINE st == Rotation(TRUE)
  <2>1. named' \in Nat /\ named <= named'
    BY <1>a, <1>6 DEF StartRotation, files
  <2>2. st \in ThreadState /\ Named(st, named')
    BY <1>a, IdleType, RotationType, <1>6, <2>1 DEF Named, Naming, StartRotation, files
  <2>3. Become(t, st)
    BY <1>6 DEF StartRotation
  <2> HIDE DEF st
  <2>4. thread' \in [Threads -> ThreadState] /\ Naming'
    BY <1>a, <2>1, <2>2, <2>3, ThreadStep
  <2> QED BY <1>6, <2>1, <2>4 DEF StartRotation, TypeInv, TypeOK, counters
<1>7. ASSUME NEW t \in Threads, ReadLastHash(t) PROVE TypeInv'
  <2> DEFINE st == [thread[t] EXCEPT !.pc = "backup", !.last = TipHash(live)]
  <2>1. named' \in Nat /\ named <= named'
    BY <1>a, <1>7 DEF ReadLastHash, files
  <2>2. st \in ThreadState /\ Named(st, named')
    BY <1>a, IdleType, <1>b, <1>7, <2>1 DEF Named, Naming, ReadLastHash, ThreadState, Pcs, files
  <2>3. Become(t, st)
    BY <1>7 DEF ReadLastHash
  <2> HIDE DEF st
  <2>4. thread' \in [Threads -> ThreadState] /\ Naming'
    BY <1>a, <2>1, <2>2, <2>3, ThreadStep
  <2> QED BY <1>7, <2>1, <2>4 DEF ReadLastHash, TypeInv, TypeOK, files, locks, counters
<1>8. ASSUME NEW t \in Threads, Truncate(t) PROVE TypeInv'
  <2> DEFINE st == Appending(thread[t], "rotated_from")
  <2>1. named' \in Nat /\ named <= named'
    BY <1>a, <1>8 DEF Truncate, files
  <2>2. st \in ThreadState /\ Named(st, named')
    BY <1>a, IdleType, <1>8, <2>1 DEF Named, Naming, Truncate, Appending, ThreadState, Pcs, files
  <2>3. Become(t, st)
    BY <1>8 DEF Truncate
  <2> HIDE DEF st
  <2>4. thread' \in [Threads -> ThreadState] /\ Naming'
    BY <1>a, <2>1, <2>2, <2>3, ThreadStep
  <2> QED BY <1>8, <2>1, <2>4 DEF Truncate, TypeInv, TypeOK, locks, counters
<1>9. ASSUME NEW t \in Threads, Insert(t) PROVE TypeInv'
  <2> DEFINE st == [thread[t] EXCEPT !.pc = Continuation(t), !.tip = NoHash]
  <2>1. NewRow(thread[t]) \in Row
    BY <1>a DEF NewRow, Row, ThreadState, NoHash, TypeInv, TypeOK
  <2>2. live' \in Seq(Row) /\ stamp' \in Nat /\ named' = named
    BY <1>9, <2>1 DEF Insert, TypeInv, TypeOK
  <2>3. /\ Continuation(t) \in {"tip", "purge", "idle", "check"}
        /\ Continuation(t) = "tip" => thread[t].act = "rotated"
        /\ Continuation(t) = "purge" => thread[t].act = "rotated_from"
        /\ Continuation(t) \in {"idle", "check"} => thread[t].act = "entry"
    BY <1>a DEF Continuation, ThreadState
  <2>4. st \in ThreadState /\ Named(st, named')
    BY <1>a, <2>2, <2>3 DEF Named, Naming, ThreadState, Pcs, NoHash
  <2>5. Become(t, st)
    BY <1>9 DEF Insert
  <2> HIDE DEF st
  <2>6. thread' \in [Threads -> ThreadState] /\ Naming'
    BY <1>a, <2>2, <2>4, <2>5, ThreadStep
  <2> QED BY <1>9, <2>2, <2>6 DEF Insert, TypeInv, TypeOK, counters
<1>10. ASSUME NEW t \in Threads, CheckThreshold(t) PROVE TypeInv'
  <2>1. CASE Become(t, Rotation(FALSE)) /\ named' = named + 1
    <3>1. Rotation(FALSE) \in ThreadState /\ Named(Rotation(FALSE), named')
      BY <1>a, <2>1, RotationType
    <3>2. named' \in Nat /\ named <= named'
      BY <1>a, <2>1
    <3> DEFINE st == Rotation(FALSE)
    <3>3. Become(t, st)
      BY <2>1
    <3> HIDE DEF st
    <3>4. thread' \in [Threads -> ThreadState] /\ Naming'
      BY <1>a, <3>1, <3>2, <3>3, ThreadStep DEF st
    <3> QED BY <1>10, <3>2, <3>4 DEF CheckThreshold, TypeInv, TypeOK, locks, counters
  <2>2. CASE Become(t, Idle) /\ UNCHANGED named
    <3>1. thread' \in [Threads -> ThreadState] /\ Naming'
      BY <1>a, <2>2, IdleType, ThreadStep
    <3> QED BY <1>10, <2>2, <3>1 DEF CheckThreshold, TypeInv, TypeOK, locks, counters
  <2> QED BY <1>10, <2>1, <2>2 DEF CheckThreshold
<1>11. ASSUME NEW t \in Threads, Backup(t) PROVE TypeInv'
  <2> DEFINE st == [thread[t] EXCEPT !.pc = "truncate"]
  <2>1. thread[t].name \in 1 .. named
    BY <1>a, <1>11 DEF Backup, Naming, Named
  <2>2. DOMAIN archives' \subseteq 1 .. named /\ \A n \in DOMAIN archives' : archives'[n] \in Seq(Row)
    BY <1>11, <2>1 DEF Backup, Archive, TypeInv, TypeOK
  <2>3. st \in ThreadState /\ Named(st, named') /\ Become(t, st) /\ named' = named
    BY <1>a, <1>11 DEF Backup, Named, Naming, ThreadState, Pcs
  <2> HIDE DEF st
  <2>4. thread' \in [Threads -> ThreadState] /\ Naming'
    BY <1>a, <2>3, ThreadStep
  <2> QED BY <1>11, <2>2, <2>3, <2>4 DEF Backup, TypeInv, TypeOK, locks, counters
<1>12. ASSUME NEW t \in Threads, Purge(t) PROVE TypeInv'
  <2> DEFINE st == IF thread[t].manual THEN [Idle EXCEPT !.pc = "reset"] ELSE Idle
  <2>1. \A n \in DOMAIN archives : Links(archives[n]) \subseteq [hash : Nat, pred : Nat]
    <3> SUFFICES ASSUME NEW n \in DOMAIN archives, NEW i \in 1 .. Len(archives[n])
                 PROVE  Link(archives[n][i]) \in [hash : Nat, pred : Nat]
      BY DEF Links
    <3>1. archives[n][i] \in Row
      BY ElementOfSeq DEF TypeInv, TypeOK
    <3> QED BY <3>1 DEF Link, Row
  <2>2. purged' \subseteq [hash : Nat, pred : Nat]
    BY <1>12, <2>1 DEF Purge, TypeInv, TypeOK
  <2>3. /\ DOMAIN archives' \subseteq 1 .. named
        /\ \A n \in DOMAIN archives' : archives'[n] \in Seq(Row)
    BY <1>12 DEF Purge, Retained, TypeInv, TypeOK
  <2>4. st \in ThreadState /\ Named(st, named') /\ Become(t, st) /\ named' = named
    BY <1>a, <1>12, IdleType DEF Purge, Named, ThreadState, Pcs
  <2> HIDE DEF st
  <2>5. thread' \in [Threads -> ThreadState] /\ Naming'
    BY <1>a, <2>4, ThreadStep
  <2> QED BY <1>12, <2>2, <2>3, <2>4, <2>5
          DEF Purge, ReleaseAudit, TypeInv, TypeOK, counters
<1>13. ASSUME NEW t \in Threads, ResetMonitor(t) PROVE TypeInv'
  <2>1. thread' \in [Threads -> ThreadState] /\ Naming' /\ named' = named
    BY <1>a, <1>13, IdleType, ThreadStep DEF ResetMonitor, files
  <2>2. mon' \in MonitorState
    BY <1>13 DEF ResetMonitor, MonitorState, NoHash, TypeInv, TypeOK
  <2> QED BY <1>13, <2>1, <2>2 DEF ResetMonitor, TypeInv, TypeOK, files, locks, counters
<1>14. ASSUME NEW t \in Threads, Fail(t) PROVE TypeInv'
  <2>1. thread' \in [Threads -> ThreadState] /\ Naming' /\ named' = named
    BY <1>a, <1>14, IdleType, ThreadStep DEF Fail
  <2>2. /\ DOMAIN archives' \subseteq 1 .. named
        /\ \A n \in DOMAIN archives' : archives'[n] \in Seq(Row)
    <3>1. CASE UNCHANGED archives
      BY <3>1 DEF TypeInv, TypeOK
    <3>2. CASE thread[t].pc = "backup" /\ Archive(thread[t].name, <<>>)
      <4>1. thread[t].name \in 1 .. named
        BY <1>a, <3>2 DEF Naming, Named
      <4>2. <<>> \in Seq(Row)
        BY EmptySeq
      <4> QED BY <3>2, <4>1, <4>2 DEF Archive, TypeInv, TypeOK
    <3> QED BY <1>14, <3>1, <3>2 DEF Fail
  <2>3. chainLock' \in Threads \cup {NoThread} /\ auditLock' \in Threads \cup {NoThread}
        /\ rotating' \in BOOLEAN
    BY <1>14 DEF Fail, ReleaseChain, ReleaseAudit, TypeInv, TypeOK
  <2> QED BY <1>14, <2>1, <2>2, <2>3 DEF Fail, TypeInv, TypeOK
<1>15. ASSUME Scan PROVE TypeInv'
  <2>1. mon' \in MonitorState
    <3>1. NextPoll \in Nat
      BY ConfigAssumption DEF NextPoll, MonitorState, TypeInv, TypeOK
    <3>2. CASE Poll
      <4>1. mon \in MonitorState /\ Len(live) \in Nat
        BY LenProperties DEF TypeInv, TypeOK
      <4>2. \/ mon' = mon
            \/ \E pc \in {"resync", "alarm"} : mon' = [mon EXCEPT !.polls = NextPoll, !.pc = pc]
            \/ \E id, hash \in Nat :
                 mon' = [mon EXCEPT !.polls = NextPoll, !.pc = "apply",
                                    !.newId = id, !.newHash = hash]
        BY <1>b, <3>2, <4>1 DEF Poll, MonitorState
      <4> QED BY <3>1, <4>1, <4>2 DEF MonitorState
    <3>3. CASE Resync
      <4>1. mon \in MonitorState /\ Len(live) \in Nat
        BY LenProperties DEF TypeInv, TypeOK
      <4> QED BY <1>b, <3>3, <4>1 DEF Resync, MonitorState
    <3>4. CASE Apply
      BY <3>4 DEF Apply, MonitorState, NoHash, TypeInv, TypeOK
    <3>5. CASE RaiseAlert
      BY <3>5 DEF RaiseAlert, MonitorState, TypeInv, TypeOK
    <3> QED BY <1>15, <3>2, <3>3, <3>4, <3>5 DEF Scan
  <2>2. UNCHANGED <<files, thread, locks, counters>> /\ (alert' = alert \/ alert' = TRUE)
    BY <1>15 DEF Scan, Poll, Resync, Apply, RaiseAlert
  <2> QED BY <2>1, <2>2 DEF TypeInv, TypeOK, Naming, files, locks, counters
<1>16. ASSUME NEW i \in 1 .. Len(live), Alter(i) PROVE TypeInv'
  <2>1. live[i] \in Row
    BY ElementOfSeq DEF TypeInv, TypeOK
  <2>2. [live[i] EXCEPT !.intact = FALSE] \in Row
    BY <2>1, Zenon DEF Row
  <2>3. live' \in Seq(Row)
    BY <1>16, <2>2, ExceptSeq DEF Alter, TypeInv, TypeOK
  <2> QED BY <1>16, <2>3 DEF Alter, TypeInv, TypeOK, Naming, locks
<1>17. ASSUME Crash PROVE TypeInv'
  <2>1. thread' \in [Threads -> ThreadState] /\ Naming'
    BY <1>17, <1>a, IdleType DEF Crash, Naming, files
  <2>2. mon' \in MonitorState
    BY <1>17 DEF Crash, FreshMonitor, MonitorState, NoHash
  <2>3. chainLock' \in Threads \cup {NoThread} /\ auditLock' \in Threads \cup {NoThread}
    BY <1>17 DEF Crash
  <2>4. rotating' \in BOOLEAN /\ alert' \in BOOLEAN
    BY <1>17 DEF Crash
  <2> QED BY <1>17, <2>1, <2>2, <2>3, <2>4 DEF Crash, TypeInv, TypeOK, files
<1>18. ASSUME UNCHANGED vars PROVE TypeInv'
  BY <1>18 DEF vars, files, locks, counters, TypeInv, TypeOK, Naming
<1> QED
  BY <1>1, <1>2, <1>3, <1>4, <1>5, <1>6, <1>7, <1>8, <1>9, <1>10, <1>11, <1>12,
     <1>13, <1>14, <1>15, <1>16, <1>17, <1>18 DEF Next, Serve

\* Every reachable state is well typed; in particular every archive has a name
\* that rotate_audit_log handed out.
THEOREM TypeCorrect == Spec => []TypeOK
<1>1. TypeInv => TypeOK
  BY DEF TypeInv
<1> QED BY TypeInit, TypeNext, <1>1, PTL DEF Spec

-----------------------------------------------------------------------------
(* The rotation flag                                                       *)

\* Somebody who lowers the flag when he is done.
Rotates(st) == st.pc = "lock" \/ (st.manual /\ st.pc # "reset")

\* A step of thread t after which the flag is up leaves somebody to lower it: t, or
\* whoever there was, who is not t.
LEMMA FlagKept ==
  ASSUME TypeInv, FlagNotStuck, NEW t \in Threads, NEW st, Become(t, st),
         rotating' => Rotates(st) \/ (rotating /\ ~Rotates(thread[t]))
  PROVE  FlagNotStuck'
<1>1. \A u \in Threads : thread'[u] = IF u = t THEN st ELSE thread[u]
  BY DEF Become, TypeInv, TypeOK
<1>2. CASE rotating' /\ Rotates(st)
  BY <1>1, <1>2 DEF FlagNotStuck, Rotates
<1>3. CASE rotating' /\ rotating /\ ~Rotates(thread[t])
  <2>1. PICK u \in Threads : Rotates(thread[u])
    BY <1>3 DEF FlagNotStuck, Rotates
  <2> QED BY <1>1, <1>3, <2>1 DEF FlagNotStuck, Rotates
<1>4. CASE ~rotating'
  BY <1>4 DEF FlagNotStuck
<1> QED BY <1>2, <1>3, <1>4

LEMMA FlagNext == TypeInv /\ FlagNotStuck /\ [Next]_vars => FlagNotStuck'
<1> SUFFICES ASSUME TypeInv, FlagNotStuck, [Next]_vars PROVE FlagNotStuck'
  OBVIOUS
<1>a. \A t \in Threads : thread[t] \in ThreadState /\ Named(thread[t], named)
  BY DEF TypeInv, TypeOK, Naming
\* A thread that waits, logs or has finished is not a rotation.
<1>b. \A t \in Threads : thread[t].pc \in {"idle", "queued", "check", "reset"} => ~Rotates(thread[t])
  BY <1>a DEF Rotates, Named
<1>1. ASSUME NEW t \in Threads, LogEntry(t) \/ WebEntry(t) \/ LeaveQueue(t) PROVE FlagNotStuck'
  <2>1. PICK st : Become(t, st)
    BY <1>1 DEF LogEntry, WebEntry, LeaveQueue
  <2>2. rotating' = rotating /\ ~Rotates(thread[t])
    BY <1>1, <1>b DEF LogEntry, WebEntry, LeaveQueue, locks
  <2> QED BY <2>1, <2>2, FlagKept
<1>2. ASSUME NEW t \in Threads, CheckThreshold(t) PROVE FlagNotStuck'
  <2>1. PICK st : Become(t, st)
    BY <1>2 DEF CheckThreshold
  <2>2. rotating' = rotating /\ ~Rotates(thread[t])
    BY <1>2, <1>b DEF CheckThreshold, locks
  <2> QED BY <2>1, <2>2, FlagKept
<1>3. ASSUME NEW t \in Threads, ResetMonitor(t) PROVE FlagNotStuck'
  BY <1>3, <1>b, FlagKept DEF ResetMonitor, locks
\* Within append_audit and rotate_audit_log a thread stays what it is.
<1>4. ASSUME NEW t \in Threads,
             ReadTip(t) \/ Insert(t) \/ ReadLastHash(t) \/ Backup(t) \/ Truncate(t)
      PROVE  FlagNotStuck'
  <2>1. PICK st : /\ Become(t, st) /\ st.manual = thread[t].manual
                  /\ st.pc # "reset" /\ thread[t].pc # "lock"
    <3>1. CASE ReadTip(t)
      <4> DEFINE st == [thread[t] EXCEPT !.pc = "insert", !.tip = TipHash(live)]
      <4>1. Become(t, st) /\ thread[t].pc # "lock"
        BY <3>1 DEF ReadTip
      <4>2. st.manual = thread[t].manual /\ st.pc = "insert"
        BY <1>a DEF ThreadState
      <4> HIDE DEF st
      <4> QED BY <4>1, <4>2
    <3>2. CASE Insert(t)
      <4> DEFINE st == [thread[t] EXCEPT !.pc = Continuation(t), !.tip = NoHash]
      <4>1. Become(t, st) /\ thread[t].pc # "lock"
        BY <3>2 DEF Insert
      <4>2. st.manual = thread[t].manual /\ st.pc = Continuation(t)
        BY <1>a DEF ThreadState
      <4>3. Continuation(t) # "reset"
        BY <1>a DEF Continuation, ThreadState
      <4> HIDE DEF st
      <4> QED BY <4>1, <4>2, <4>3
    <3>3. CASE ReadLastHash(t)
      <4> DEFINE st == [thread[t] EXCEPT !.pc = "backup", !.last = TipHash(live)]
      <4>1. Become(t, st) /\ thread[t].pc # "lock"
        BY <3>3 DEF ReadLastHash
      <4>2. st.manual = thread[t].manual /\ st.pc = "backup"
        BY <1>a DEF ThreadState
      <4> HIDE DEF st
      <4> QED BY <4>1, <4>2
    <3>4. CASE Backup(t)
      <4> DEFINE st == [thread[t] EXCEPT !.pc = "truncate"]
      <4>1. Become(t, st) /\ thread[t].pc # "lock"
        BY <3>4 DEF Backup
      <4>2. st.manual = thread[t].manual /\ st.pc = "truncate"
        BY <1>a DEF ThreadState
      <4> HIDE DEF st
      <4> QED BY <4>1, <4>2
    <3>5. CASE Truncate(t)
      <4> DEFINE st == Appending(thread[t], "rotated_from")
      <4>1. Become(t, st) /\ thread[t].pc # "lock"
        BY <3>5 DEF Truncate
      <4>2. st.manual = thread[t].manual /\ st.pc = "read"
        BY <1>a DEF ThreadState, Appending
      <4> HIDE DEF st
      <4> QED BY <4>1, <4>2
    <3> QED BY <1>4, <3>1, <3>2, <3>3, <3>4, <3>5
  <2>2. rotating' = rotating
    BY <1>4 DEF ReadTip, Insert, ReadLastHash, Backup, Truncate, locks
  <2>3. Rotates(thread[t]) => Rotates(st)
    BY <2>1 DEF Rotates
  <2> QED BY <2>1, <2>2, <2>3, FlagKept
<1>5. ASSUME NEW t \in Threads, RequestRotation(t) PROVE FlagNotStuck'
  <2>1. Become(t, [Idle EXCEPT !.pc = "lock"]) /\ Rotates([Idle EXCEPT !.pc = "lock"])
    BY <1>5 DEF RequestRotation, Rotates, Idle
  <2> QED BY <2>1, FlagKept
<1>6. ASSUME NEW t \in Threads, StartRotation(t) PROVE FlagNotStuck'
  <2>1. Become(t, Rotation(TRUE))
    BY <1>6 DEF StartRotation
  <2>2. Rotates(Rotation(TRUE))
    BY DEF Rotation, Appending, Idle, Rotates
  <2> QED BY <2>1, <2>2, FlagKept
\* Whoever leaves a rotation lowers the flag.
<1>7. ASSUME NEW t \in Threads, Purge(t) \/ Fail(t) PROVE FlagNotStuck'
  <2>1. PICK st : Become(t, st)
    BY <1>7 DEF Purge, Fail
  <2>2. ReleaseAudit(t) /\ thread[t].pc # "lock"
    BY <1>7 DEF Purge, Fail
  <2>3. rotating' => rotating /\ ~Rotates(thread[t])
    BY <2>2 DEF ReleaseAudit, Rotates
  <2> QED BY <2>1, <2>3, FlagKept
<1>8. ASSUME Scan \/ (\E i \in 1 .. Len(live) : Alter(i)) \/ UNCHANGED vars PROVE FlagNotStuck'
  BY <1>8 DEF Scan, Poll, Resync, Apply, RaiseAlert, Alter, vars, files, locks, counters, FlagNotStuck
<1>9. ASSUME Crash PROVE FlagNotStuck'
  BY <1>9 DEF Crash, FlagNotStuck
<1> QED
  BY <1>1, <1>2, <1>3, <1>4, <1>5, <1>6, <1>7, <1>8, <1>9 DEF Next, Serve

\* For any number of threads and rotations, and whatever fails: while the flag is up
\* some thread waits for _audit_lock or holds it, and will lower the flag when it
\* leaves (_handle_rotate_audit).
THEOREM FlagComesDown == Spec => []FlagNotStuck
<1>1. Init => FlagNotStuck
  BY DEF Init, FlagNotStuck
<1> QED BY TypeInit, TypeNext, FlagNext, <1>1, PTL DEF Spec

-----------------------------------------------------------------------------
(* The chain                                                               *)

\* Every row follows the row before it.
Linked(rows) ==
  \A i \in 1 .. Len(rows) : rows[i].prev = IF i = 1 THEN NoHash ELSE rows[i - 1].hash

Intact(rows) == \A i \in 1 .. Len(rows) : rows[i].intact

\* What the monitor remembers is a position in the log and the hash found there.
Position(rows, id, hash) == id \in 0 .. Len(rows) /\ (id # 0 => hash = rows[id].hash)

Monitored ==
  /\ Position(live, mon.lastId, mon.lastHash)
  /\ mon.pc = "apply" => Position(live, mon.newId, mon.newHash)

Accused == mon.pc = "alarm" \/ alert

\* Two threads, one of which rotates, can break the chain: what is proved is about
\* the time before the first rotation, or about a server with one thread.
OneThread == \E t : Threads = {t}
Steady == named = 0 \/ OneThread

\* The positions that the monitor remembers are of no use after a rotation.
Watched == named = 0

ChainInv ==
  /\ TypeInv
  /\ Steady => TipFresh /\ Linked(live) /\ (~Altered => Intact(live))
  /\ named = 0 => Monitored
  /\ Watched => (Accused => Altered)

\* A suffix of an unmodified, linked log verifies from any position that the
\* monitor may remember.
LEMMA SuffixVerifies ==
  ASSUME NEW rows \in Seq(Row), Linked(rows), Intact(rows),
         NEW id, NEW hash, Position(rows, id, hash)
  PROVE  SuffixOK(rows, id, IF id = 0 THEN NoHash ELSE hash)
<1>1. Len(rows) \in Nat
  BY LenProperties
<1> SUFFICES ASSUME NEW i \in id + 1 .. Len(rows)
             PROVE  /\ rows[i].intact
                    /\ rows[i].prev = IF i = id + 1 THEN (IF id = 0 THEN NoHash ELSE hash)
                                      ELSE rows[i - 1].hash
  BY DEF SuffixOK
<1>2. id \in Nat /\ i \in 1 .. Len(rows) /\ (id # 0 => hash = rows[id].hash)
  BY <1>1 DEF Position
<1>3. rows[i].prev = IF i = 1 THEN NoHash ELSE rows[i - 1].hash
  BY <1>2 DEF Linked
<1>4. CASE i = id + 1 /\ id = 0
  BY <1>2, <1>3, <1>4 DEF Intact
<1>5. CASE i = id + 1 /\ id # 0
  <2>1. i - 1 = id /\ i # 1
    BY <1>2, <1>5
  <2> QED BY <1>2, <1>3, <1>5, <2>1 DEF Intact
<1>6. CASE i # id + 1
  BY <1>2, <1>3, <1>6 DEF Intact
<1> QED BY <1>4, <1>5, <1>6

LEMMA ChainVerifies ==
  ASSUME live \in Seq(Row), Linked(live), Intact(live)
  PROVE  ChainOK(live)
<1>1. Len(live) \in Nat
  BY LenProperties
<1>2. Position(live, 0, NoHash)
  BY <1>1 DEF Position
<1> QED BY <1>2, SuffixVerifies DEF ChainOK

\* The newest row is a position with its hash.
LEMMA TipPosition ==
  ASSUME NEW rows \in Seq(Row)
  PROVE  Position(rows, Len(rows), TipHash(rows))
<1>1. Len(rows) \in Nat /\ (rows = <<>> <=> Len(rows) = 0)
  BY LenProperties, EmptySeq
<1> QED BY <1>1 DEF Position, TipHash

\* Appending a row that was hashed against the tip keeps the log linked and every
\* remembered position valid.
LEMMA AppendLinked ==
  ASSUME NEW rows \in Seq(Row), NEW row \in Row, Linked(rows), row.prev = TipHash(rows)
  PROVE  /\ Linked(Append(rows, row))
         /\ \A id, hash : Position(rows, id, hash) => Position(Append(rows, row), id, hash)
<1> DEFINE new == Append(rows, row)
<1>1. /\ Len(rows) \in Nat /\ Len(new) = Len(rows) + 1
      /\ \A i \in 1 .. Len(rows) : new[i] = rows[i]
      /\ new[Len(rows) + 1] = row
  BY LenProperties
<1>2. rows = <<>> <=> Len(rows) = 0
  BY EmptySeq
<1>3. ASSUME NEW i \in 1 .. Len(new)
      PROVE  new[i].prev = IF i = 1 THEN NoHash ELSE new[i - 1].hash
  <2>1. CASE i \in 1 .. Len(rows)
    <3>1. i # 1 => i - 1 \in 1 .. Len(rows)
      BY <1>1, <2>1
    <3> HIDE DEF new
    <3> QED BY <1>1, <2>1, <3>1 DEF Linked
  <2>2. CASE i = Len(rows) + 1
    <3>1. CASE Len(rows) = 0
      BY <1>1, <1>2, <2>2, <3>1 DEF TipHash
    <3>2. CASE Len(rows) # 0
      <4>1. i - 1 = Len(rows) /\ Len(rows) \in 1 .. Len(rows) /\ i # 1
        BY <1>1, <2>2, <3>2
      <4> HIDE DEF new
      <4> QED BY <1>1, <1>2, <2>2, <3>2, <4>1 DEF TipHash
    <3> QED BY <3>1, <3>2
  <2> HIDE DEF new
  <2> QED BY <1>1, <2>1, <2>2
<1> HIDE DEF new
<1>4. Linked(new)
  BY <1>3 DEF Linked
<1>5. \A id, hash : Position(rows, id, hash) => Position(new, id, hash)
  BY <1>1 DEF Position
<1> QED BY <1>4, <1>5 DEF new

\* Altering a row leaves what the others are hashed from.
LEMMA AlterKeeps ==
  ASSUME live \in Seq(Row), NEW i \in 1 .. Len(live), Alter(i)
  PROVE  /\ Len(live') = Len(live) /\ TipHash(live') = TipHash(live)
         /\ \A j \in 1 .. Len(live) :
              /\ live'[j].prev = live[j].prev /\ live'[j].hash = live[j].hash
              /\ live'[j].act = live[j].act /\ live'[j].ref = live[j].ref
<1>1. live[i] \in Row
  BY ElementOfSeq
<1>2. [live[i] EXCEPT !.intact = FALSE] \in Row
  BY <1>1, Zenon DEF Row
<1>3. /\ Len(live') = Len(live) /\ live' \in Seq(Row)
      /\ \A j \in 1 .. Len(live) :
           live'[j] = IF j = i THEN [live[i] EXCEPT !.intact = FALSE] ELSE live[j]
  BY <1>2, ExceptSeq DEF Alter
<1>4. \A j \in 1 .. Len(live) :
        /\ live'[j].prev = live[j].prev /\ live'[j].hash = live[j].hash
        /\ live'[j].act = live[j].act /\ live'[j].ref = live[j].ref
  BY <1>1, <1>3 DEF Row
<1>5. Len(live) \in Nat \ {0}
  BY LenProperties
<1>6. live # <<>> /\ live' # <<>>
  BY <1>3, <1>5, EmptySeq
<1>7. TipHash(live') = TipHash(live)
  BY <1>3, <1>4, <1>5, <1>6 DEF TipHash
<1> QED BY <1>3, <1>4, <1>7

LEMMA ChainInit == Init => ChainInv
<1> SUFFICES ASSUME Init PROVE ChainInv
  OBVIOUS
<1>1. TypeInv
  BY TypeInit
<1>2. TipFresh
  BY DEF Init, TipFresh, Idle
<1>3. Len(live) = 0
  BY DEF Init
<1>4. Linked(live) /\ Intact(live)
  BY <1>3 DEF Linked, Intact
<1>5. Monitored /\ ~Accused
  BY <1>3 DEF Init, Monitored, Position, FreshMonitor, Accused
<1> QED BY <1>1, <1>2, <1>4, <1>5 DEF ChainInv

\* What is left of the invariant when the rows are untouched and only t moves: t must
\* not be about to insert, or hold the lock and the tip.
LEMMA ChainFrame ==
  ASSUME ChainInv, TypeInv', named' = named \/ named' # 0,
         UNCHANGED <<live, mon, alert, alters>>,
         Steady' => Steady,
         NEW t \in Threads, NEW st, Become(t, st),
         st.pc = "insert" => chainLock' = t /\ st.tip = TipHash(live),
         Steady => \A u \in Threads \ {t} : thread[u].pc = "insert" => chainLock' = chainLock
  PROVE  ChainInv'
<1>1. \A u \in Threads : thread'[u] = IF u = t THEN st ELSE thread[u]
  BY DEF Become, ChainInv, TypeInv, TypeOK
<1>2. Steady' => TipFresh'
  BY <1>1 DEF TipFresh, ChainInv
<1>3. Steady' => Linked(live)' /\ (~Altered => Intact(live))'
  BY DEF Altered, ChainInv, Linked, Intact
<1>4. (named = 0 => Monitored)'
  BY DEF Monitored, Position, ChainInv
<1>5. (Watched => (Accused => Altered))'
  BY DEF Watched, Accused, Altered, ChainInv
<1> QED BY <1>2, <1>3, <1>4, <1>5 DEF ChainInv

LEMMA ChainNext == ChainInv /\ [Next]_vars => ChainInv'
<1> SUFFICES ASSUME ChainInv, [Next]_vars PROVE ChainInv'
  OBVIOUS
<1>a. TypeInv' /\ TypeInv
  BY TypeNext DEF ChainInv
<1>b. /\ thread \in [Threads -> ThreadState] /\ live \in Seq(Row) /\ named \in Nat
      /\ \A t \in Threads : Named(thread[t], named)
  BY <1>a DEF TypeInv, TypeOK, Naming
\* Threads that neither read the tip nor change the rows.
<1>1. ASSUME NEW t \in Threads,
             LogEntry(t) \/ WebEntry(t) \/ LeaveQueue(t) \/ RequestRotation(t)
      PROVE  ChainInv'
  <2>1. UNCHANGED <<live, mon, alert, alters, chainLock, named>>
    BY <1>1 DEF LogEntry, WebEntry, LeaveQueue, RequestRotation, files, locks, counters
  <2>2. PICK st : Become(t, st) /\ st.pc # "insert"
    <3>1. ([Idle EXCEPT !.pc = "queued"]).pc # "insert" /\ Appending(Idle, "entry").pc # "insert"
          /\ ([Idle EXCEPT !.pc = "lock"]).pc # "insert"
      BY DEF Idle, Appending
    <3> QED BY <1>1, <3>1 DEF LogEntry, WebEntry, LeaveQueue, RequestRotation
  <2> QED BY <1>a, <2>1, <2>2, ChainFrame DEF Steady
<1>2. ASSUME NEW t \in Threads, ReadTip(t) PROVE ChainInv'
  <2> DEFINE st == [thread[t] EXCEPT !.pc = "insert", !.tip = TipHash(live)]
  <2>1. /\ Become(t, st) /\ UNCHANGED <<live, mon, alert, alters, named>>
        /\ chainLock = NoThread /\ chainLock' = t
    BY <1>2 DEF ReadTip, files, counters
  <2>2. st.pc = "insert" /\ st.tip = TipHash(live)
    BY <1>b DEF ThreadState
  <2>3. Steady => \A u \in Threads : thread[u].pc # "insert"
    BY <2>1, ThreadsAssumption DEF ChainInv, TipFresh
  <2> HIDE DEF st
  <2> QED BY <1>a, <2>1, <2>2, <2>3, ChainFrame DEF Steady
<1>3. ASSUME NEW t \in Threads, Insert(t) PROVE ChainInv'
  <2> DEFINE row == NewRow(thread[t])
             st == [thread[t] EXCEPT !.pc = Continuation(t), !.tip = NoHash]
  <2>1. live' = Append(live, row) /\ Become(t, st) /\ UNCHANGED <<mon, alert, alters, named>>
    BY <1>3 DEF Insert, counters
  <2>2. row \in Row /\ row.prev = thread[t].tip /\ row.intact
    <3>1. thread[t] \in ThreadState /\ stamp \in Nat
      BY <1>a DEF TypeInv, TypeOK
    <3>2. row \in Row
      BY <3>1 DEF NewRow, Row, ThreadState, NoHash
    <3> QED BY <3>2 DEF NewRow
  <2>3. st.pc # "insert"
    BY <1>b DEF Continuation, ThreadState
  <2> HIDE DEF row, st
  <2>4. Steady => row.prev = TipHash(live)
    BY <1>3, <2>2 DEF Insert, ChainInv, TipFresh
  <2>5. Steady => /\ Linked(live')
                  /\ \A id, hash : Position(live, id, hash) => Position(live', id, hash)
    BY <1>b, <2>1, <2>2, <2>4, AppendLinked DEF ChainInv
  <2>6. named' = 0 => Monitored'
    BY <2>1, <2>5 DEF ChainInv, Monitored, Steady
  <2>7. \A u \in Threads : thread'[u] = IF u = t THEN st ELSE thread[u]
    BY <1>b, <2>1 DEF Become
  <2>8. Steady => TipFresh'
    BY <1>3, <2>3, <2>7 DEF Insert, ChainInv, TipFresh
  <2>9. Steady => (~Altered' => Intact(live'))
    <3>1. /\ Len(live) \in Nat /\ Len(live') = Len(live) + 1 /\ live'[Len(live) + 1] = row
          /\ \A i \in 1 .. Len(live) : live'[i] = live[i]
      BY <1>b, <2>1, <2>2, LenProperties
    <3> QED BY <2>1, <2>2, <3>1 DEF ChainInv, Altered, Intact
  <2>10. Watched' => (Accused' => Altered')
    BY <2>1 DEF ChainInv, Watched, Accused, Altered
  <2> QED BY <1>a, <2>1, <2>5, <2>6, <2>8, <2>9, <2>10 DEF ChainInv, Steady
<1>4. ASSUME NEW t \in Threads, CheckThreshold(t) PROVE ChainInv'
  <2>1. UNCHANGED <<live, mon, alert, alters, chainLock>> /\ named' \in {named, named + 1}
    BY <1>4 DEF CheckThreshold, locks, counters
  <2>2. PICK st : Become(t, st) /\ st.pc # "insert"
    <3>1. Rotation(FALSE).pc # "insert" /\ Idle.pc # "insert"
      BY DEF Rotation, Idle, Appending
    <3> QED BY <1>4, <3>1 DEF CheckThreshold
  <2>3. (named' = named \/ named' # 0) /\ (Steady' => Steady)
    BY <1>b, <2>1 DEF Steady
  <2> QED BY <1>a, <2>1, <2>2, <2>3, ChainFrame
<1>5. ASSUME NEW t \in Threads, StartRotation(t) PROVE ChainInv'
  <2>1. UNCHANGED <<live, mon, alert, alters, chainLock>> /\ named' = named + 1
    BY <1>5 DEF StartRotation, counters
  <2>2. Become(t, Rotation(TRUE)) /\ Rotation(TRUE).pc # "insert"
    BY <1>5 DEF StartRotation, Rotation, Idle, Appending
  <2>3. named' # 0 /\ (Steady' => Steady)
    BY <1>b, <2>1 DEF Steady
  <2> QED BY <1>a, <2>1, <2>2, <2>3, ChainFrame
<1>6. ASSUME NEW t \in Threads, ReadLastHash(t) \/ Backup(t) PROVE ChainInv'
  <2>1. UNCHANGED <<live, mon, alert, alters, chainLock, named>>
    BY <1>6 DEF ReadLastHash, Backup, files, locks, counters
  <2>2. PICK st : Become(t, st) /\ st.pc \in {"backup", "truncate"}
    <3>1. ([thread[t] EXCEPT !.pc = "backup", !.last = TipHash(live)]).pc = "backup"
          /\ ([thread[t] EXCEPT !.pc = "truncate"]).pc = "truncate"
      BY <1>b DEF ThreadState
    <3> QED BY <1>6, <3>1 DEF ReadLastHash, Backup
  <2> QED BY <1>a, <2>1, <2>2, ChainFrame DEF Steady
\* Truncation only comes in a rotation: the log has one thread, and it is at work.
<1>7. ASSUME NEW t \in Threads, Truncate(t) PROVE ChainInv'
  <2> DEFINE st == Appending(thread[t], "rotated_from")
  <2>1. live' = <<>> /\ Become(t, st) /\ UNCHANGED <<mon, alert, alters, named>>
    BY <1>7 DEF Truncate, counters
  <2>2. named # 0
    BY <1>7, <1>b DEF Truncate, Named
  <2>3. st.pc = "read"
    BY <1>b DEF Appending, ThreadState
  <2> HIDE DEF st
  <2>4. \A u \in Threads : thread'[u] = IF u = t THEN st ELSE thread[u]
    BY <1>b, <2>1 DEF Become
  <2>5. OneThread => TipFresh'
    BY <2>3, <2>4 DEF OneThread, TipFresh
  <2>6. Linked(live') /\ Intact(live')
    BY <2>1, EmptySeq DEF Linked, Intact
  <2>7. (Watched => (Accused => Altered))'
    BY <2>1 DEF ChainInv, Watched, Accused, Altered
  <2> QED BY <1>a, <2>1, <2>2, <2>5, <2>6, <2>7 DEF ChainInv, Steady
<1>8. ASSUME NEW t \in Threads, Purge(t) PROVE ChainInv'
  <2>1. UNCHANGED <<live, mon, alert, alters, chainLock, named>>
    BY <1>8 DEF Purge, counters
  <2>2. PICK st : Become(t, st) /\ st.pc # "insert"
    <3>1. ([Idle EXCEPT !.pc = "reset"]).pc # "insert" /\ Idle.pc # "insert"
      BY DEF Idle
    <3> QED BY <1>8, <3>1 DEF Purge
  <2> QED BY <1>a, <2>1, <2>2, ChainFrame DEF Steady
<1>9. ASSUME NEW t \in Threads, Fail(t) PROVE ChainInv'
  <2>1. Become(t, Idle) /\ UNCHANGED <<live, mon, alert, alters, named>>
    BY <1>9 DEF Fail
  <2>2. Steady => \A u \in Threads \ {t} : thread[u].pc = "insert" => chainLock' = chainLock
    BY <1>9 DEF Fail, ReleaseChain, ChainInv, TipFresh
  <2>3. Idle.pc = "idle"
    BY DEF Idle
  <2> QED BY <1>a, <2>1, <2>2, <2>3, ChainFrame DEF Steady
<1>10. ASSUME NEW t \in Threads, ResetMonitor(t) PROVE ChainInv'
  <2>1. /\ Become(t, Idle) /\ UNCHANGED <<live, alters, chainLock, named>>
        /\ ~alert' /\ mon' = [mon EXCEPT !.lastId = 0, !.lastHash = NoHash, !.polls = 0]
    BY <1>10 DEF ResetMonitor, files, locks, counters
  <2>2. mon'.pc = mon.pc /\ mon'.lastId = 0 /\ mon'.newId = mon.newId /\ mon'.newHash = mon.newHash
    BY <2>1, <1>a DEF TypeInv, TypeOK, MonitorState
  <2>3. \A u \in Threads : thread'[u] = IF u = t THEN Idle ELSE thread[u]
    BY <1>b, <2>1 DEF Become
  <2>4. Steady => TipFresh'
    BY <2>1, <2>3 DEF ChainInv, TipFresh, Idle
  <2>5. (named = 0 => Monitored)'
    BY <1>b, <2>1, <2>2, LenProperties DEF ChainInv, Monitored, Position
  <2>6. (Watched => (Accused => Altered))'
    BY <2>1, <2>2 DEF ChainInv, Watched, Accused, Altered
  <2>7. Steady => (Linked(live) /\ (~Altered => Intact(live)))'
    BY <2>1 DEF ChainInv, Linked, Intact, Altered
  <2> QED BY <1>a, <2>1, <2>4, <2>5, <2>6, <2>7 DEF ChainInv, Steady
<1>11. ASSUME Scan PROVE ChainInv'
  <2>1. UNCHANGED <<live, thread, chainLock, alters, named>>
    BY <1>11 DEF Scan, Poll, Resync, Apply, RaiseAlert, files, locks, counters
  <2>2. Position(live, Len(live), TipHash(live))
    BY <1>b, TipPosition
  <2>3. mon \in MonitorState /\ mon.polls \in Nat
    BY <1>a DEF TypeInv, TypeOK, MonitorState
  <2>4. (named = 0 => Monitored)' /\ (Watched => (Accused => Altered))'
    <3>1. CASE Poll
      <4> DEFINE first == IF mon.lastId = 0 THEN NoHash ELSE mon.lastHash
      <4>1. Steady /\ ~Altered => ChainOK(live)
        BY <1>b, ChainVerifies DEF ChainInv
      <4>2. named = 0 /\ ~Altered => SuffixOK(live, mon.lastId, first)
        BY <1>b, SuffixVerifies DEF ChainInv, Monitored, Steady
      <4>3. FullEvery = 1 => NextPoll = 0
        BY <2>3 DEF NextPoll
      <4> HIDE DEF first
      <4>4. \/ mon' = mon
            \/ mon'.pc = "resync"
            \/ mon'.pc = "alarm" /\ (Watched => Altered)
            \/ mon'.pc = "apply" /\ (named = 0 => Position(live, mon'.newId, mon'.newHash))
        BY <2>2, <2>3, <3>1, <4>1, <4>2, <4>3 DEF Poll, first, MonitorState, ChainInv,
           Monitored, Watched, Steady
      <4>5. mon'.lastId = mon.lastId /\ mon'.lastHash = mon.lastHash /\ alert' = alert
        BY <2>3, <3>1 DEF Poll, MonitorState
      <4> QED BY <2>1, <4>4, <4>5 DEF ChainInv, Monitored, Watched, Accused, Altered
    <3>2. CASE Resync
      BY <2>1, <2>2, <2>3, <3>2 DEF Resync, MonitorState, ChainInv, Monitored, Watched, Accused, Altered
    <3>3. CASE Apply
      BY <2>1, <2>3, <3>3 DEF Apply, MonitorState, ChainInv, Monitored, Watched, Accused, Altered
    <3>4. CASE RaiseAlert
      BY <2>1, <2>3, <3>4 DEF RaiseAlert, MonitorState, ChainInv, Monitored, Watched, Accused, Altered
    <3> QED BY <1>11, <3>1, <3>2, <3>3, <3>4 DEF Scan
  <2> QED BY <1>a, <2>1, <2>4 DEF ChainInv, Steady, TipFresh, Altered, Linked, Intact
<1>12. ASSUME NEW i \in 1 .. Len(live), Alter(i) PROVE ChainInv'
  <2>1. Altered' /\ UNCHANGED <<thread, chainLock, mon, alert, named>>
    BY <1>12, <1>a DEF Alter, Altered, locks, TypeInv, TypeOK
  <2>2. /\ Len(live') = Len(live) /\ TipHash(live') = TipHash(live)
        /\ \A j \in 1 .. Len(live) :
             live'[j].prev = live[j].prev /\ live'[j].hash = live[j].hash
    BY <1>12, <1>b, AlterKeeps
  <2>3. Linked(live) => Linked(live')
    <3>1. \A j \in 1 .. Len(live) : j # 1 => j - 1 \in 1 .. Len(live)
      BY <1>b, LenProperties
    <3> QED BY <2>2, <3>1 DEF Linked
  <2>4. (named = 0 => Monitored)'
    BY <2>1, <2>2 DEF ChainInv, Monitored, Position
  <2> QED BY <1>a, <2>1, <2>2, <2>3, <2>4 DEF ChainInv, Steady, TipFresh
<1>13. ASSUME Crash PROVE ChainInv'
  <2>1. TipFresh'
    BY <1>13 DEF Crash, TipFresh, Idle
  <2>2. Monitored' /\ ~Accused'
    BY <1>13, <1>b, LenProperties DEF Crash, Monitored, Accused, Position, FreshMonitor
  <2>3. UNCHANGED <<live, named, alters>>
    BY <1>13 DEF Crash, files
  <2>4. Steady => (Linked(live) /\ (~Altered => Intact(live)))'
    BY <2>3 DEF ChainInv, Linked, Intact, Altered
  <2> QED BY <1>a, <2>1, <2>2, <2>3, <2>4 DEF ChainInv, Steady
<1>14. ASSUME UNCHANGED vars PROVE ChainInv'
  BY <1>14, <1>a DEF vars, files, locks, counters, ChainInv, Steady, Watched, Accused, TipFresh,
     Linked, Intact, Monitored, Position, Altered
<1> QED
  BY <1>1, <1>2, <1>3, <1>4, <1>5, <1>6, <1>7, <1>8, <1>9, <1>10, <1>11, <1>12, <1>13, <1>14
  DEF Next, Serve

LEMMA ChainInvariant == Spec => []ChainInv
BY ChainInit, ChainNext, PTL DEF Spec

\* For any number of threads, until the first of them begins to rotate: two threads
\* never hash against the same predecessor, the chain verifies unless a row was
\* altered, and the monitor accuses nobody when none was (append_audit).
THEOREM WritersKeepTheChain == Spec => []WritersKeepChain
<1>1. ChainInv => WritersKeepChain
  <2> SUFFICES ASSUME ChainInv, ~RotationBegun PROVE TipFresh /\ ChainValid /\ NoFalseAlarm
    BY DEF WritersKeepChain
  <2>1. named = 0
    BY DEF RotationBegun, ChainInv, TypeInv, TypeOK
  <2> QED BY <2>1, ChainVerifies DEF ChainInv, ChainValid, NoFalseAlarm, Steady, Watched, Accused,
           TypeInv, TypeOK
<1> QED BY ChainInvariant, <1>1, PTL

-----------------------------------------------------------------------------
(* A log that is never rotated                                             *)

NoRotation == Rotators = {} /\ MaxEntries = 0 /\ AgeRotates = FALSE

Unrotated == named = 0 /\ \A t \in Threads : thread[t].pc # "lock"

LEMMA UnrotatedNext ==
  ASSUME NoRotation, TypeInv, Unrotated, [Next]_vars
  PROVE  Unrotated'
<1>a. thread \in [Threads -> ThreadState]
  BY DEF TypeInv, TypeOK
<1>1. ASSUME NEW t \in Threads, NEW st, Become(t, st), st.pc # "lock", named' = named
      PROVE  Unrotated'
  BY <1>1, <1>a DEF Become, Unrotated
<1>2. ASSUME NEW t \in Threads, LogEntry(t) \/ WebEntry(t) \/ LeaveQueue(t) \/ ResetMonitor(t) \/ Fail(t)
      PROVE  Unrotated'
  <2>1. ([Idle EXCEPT !.pc = "queued"]).pc # "lock" /\ Appending(Idle, "entry").pc # "lock"
        /\ Idle.pc # "lock"
    BY DEF Idle, Appending
  <2> QED BY <1>1, <1>2, <2>1 DEF LogEntry, WebEntry, LeaveQueue, ResetMonitor, Fail, files
<1>3. ASSUME NEW t \in Threads, ReadTip(t) \/ Insert(t) \/ ReadLastHash(t) \/ Backup(t) \/ Truncate(t)
      PROVE  Unrotated'
  <2>1. /\ ([thread[t] EXCEPT !.pc = "insert", !.tip = TipHash(live)]).pc # "lock"
        /\ ([thread[t] EXCEPT !.pc = Continuation(t), !.tip = NoHash]).pc = Continuation(t)
        /\ ([thread[t] EXCEPT !.pc = "backup", !.last = TipHash(live)]).pc # "lock"
        /\ ([thread[t] EXCEPT !.pc = "truncate"]).pc # "lock"
        /\ Appending(thread[t], "rotated_from").pc # "lock"
    BY <1>a DEF ThreadState, Appending
  <2>2. Continuation(t) # "lock"
    BY <1>a DEF Continuation, ThreadState
  <2> QED BY <1>1, <1>3, <2>1, <2>2 DEF ReadTip, Insert, ReadLastHash, Backup, Truncate, files
<1>4. ASSUME NEW t \in Threads, CheckThreshold(t) PROVE Unrotated'
  <2>1. \A aged \in BOOLEAN : ~OverThreshold(aged)
    BY DEF OverThreshold, NoRotation
  <2> QED BY <1>1, <1>4, <2>1 DEF CheckThreshold, Idle
<1>5. ASSUME NEW t \in Threads, Purge(t) PROVE Unrotated'
  <2>1. ([Idle EXCEPT !.pc = "reset"]).pc # "lock" /\ Idle.pc # "lock"
    BY DEF Idle
  <2> QED BY <1>1, <1>5, <2>1 DEF Purge
<1>6. ASSUME NEW t \in Threads, RequestRotation(t) \/ StartRotation(t) PROVE FALSE
  BY <1>6 DEF RequestRotation, StartRotation, NoRotation, Unrotated
<1>7. ASSUME Scan \/ (\E i \in 1 .. Len(live) : Alter(i)) \/ UNCHANGED vars PROVE Unrotated'
  BY <1>7 DEF Scan, Poll, Resync, Apply, RaiseAlert, Alter, vars, files, Unrotated
<1>8. ASSUME Crash PROVE Unrotated'
  BY <1>8 DEF Crash, files, Unrotated, Idle
<1> QED
  BY <1>2, <1>3, <1>4, <1>5, <1>6, <1>7, <1>8 DEF Next, Serve

LEMMA SteadyInvariant == NoRotation \/ OneThread => (Spec => [](ChainInv /\ Steady))
<1>1. Init => Unrotated
  BY DEF Init, Unrotated, Idle
<1>2. Unrotated => Steady
  BY DEF Unrotated, Steady
<1>3. CASE NoRotation
  <2>1. TypeInv /\ Unrotated /\ [Next]_vars => Unrotated'
    BY <1>3, UnrotatedNext
  <2>2. Spec => []Unrotated
    BY TypeInit, TypeNext, <1>1, <2>1, PTL DEF Spec
  <2> QED BY <2>2, <1>2, ChainInvariant, PTL
<1>4. CASE OneThread
  <2>1. TRUE => Steady
    BY <1>4 DEF Steady
  <2> QED BY <2>1, ChainInvariant, PTL
<1> QED BY <1>3, <1>4

\* Without rotation and for any number of threads, or with one thread and whatever
\* it rotates, the chain in the database verifies as long as nobody alters a row
\* (append_audit, rotate_audit_log).
THEOREM AppendKeepsChain == NoRotation \/ OneThread => (Spec => []ChainValid)
<1>1. ChainInv /\ Steady => ChainValid
  BY ChainVerifies DEF ChainInv, ChainValid, TypeInv, TypeOK
<1>2. CASE NoRotation \/ OneThread
  BY <1>1, <1>2, SteadyInvariant, PTL
<1> QED BY <1>2

\* In the same circumstances no two threads hash against the same predecessor
\* (append_audit, _audit_chain_lock).
THEOREM TipIsFresh == NoRotation \/ OneThread => (Spec => []TipFresh)
<1>1. ChainInv /\ Steady => TipFresh
  BY DEF ChainInv
<1>2. CASE NoRotation \/ OneThread
  BY <1>1, <1>2, SteadyInvariant, PTL
<1> QED BY <1>2

\* On a server that never rotates an alert is only up after a row was altered, whatever
\* rows are added while the monitor scans, and with full scans at any distance
\* (_AuditIntegrityMonitor).
THEOREM MonitorIsRight == NoRotation => (Spec => []NoFalseAlarm)
<1> SUFFICES ASSUME NoRotation PROVE Spec => []NoFalseAlarm
  OBVIOUS
<1>1. Init => Unrotated
  BY DEF Init, Unrotated, Idle
<1>2. TypeInv /\ Unrotated /\ [Next]_vars => Unrotated'
  BY UnrotatedNext
<1>3. ChainInv /\ Unrotated => NoFalseAlarm
  BY DEF ChainInv, Unrotated, Watched, Accused, NoFalseAlarm
<1> QED BY TypeInit, TypeNext, ChainInvariant, <1>1, <1>2, <1>3, PTL DEF Spec

-----------------------------------------------------------------------------
(* One thread                                                              *)

\* The thread is about to write the first row of a truncated log ...
Bootstrapping(st) == st.act = "rotated_from" /\ st.pc \in {"read", "insert"}

\* ... or has begun a rotation that has not archived anything yet.
Unarchived(st) == st.act = "rotated" /\ st.pc \in {"read", "insert", "tip", "backup"}

\* A step of the only thread decides the state of all threads.
LEMMA OnlyThread ==
  ASSUME OneThread, thread \in [Threads -> ThreadState],
         NEW t \in Threads, NEW st, Become(t, st)
  PROVE  \A u \in Threads : u = t /\ thread'[u] = st
BY DEF OneThread, Become

\* A thread that does not rotate neither bootstraps nor archives.
LEMMA EntryState ==
  ASSUME NEW st, st.act = "entry"
  PROVE  ~Bootstrapping(st) /\ ~Unarchived(st)
BY DEF Bootstrapping, Unarchived

-----------------------------------------------------------------------------
(* Every row follows the newest one                                        *)

LEMMA LinksAppend ==
  ASSUME NEW rows \in Seq(Row), NEW row \in Row
  PROVE  Links(Append(rows, row)) = Links(rows) \cup {Link(row)}
<1> DEFINE new == Append(rows, row)
<1>1. /\ Len(rows) \in Nat /\ Len(new) = Len(rows) + 1 /\ new[Len(rows) + 1] = row
      /\ \A i \in 1 .. Len(rows) : new[i] = rows[i]
  BY LenProperties
<1> HIDE DEF new
<1>2. 1 .. Len(new) = 1 .. Len(rows) \cup {Len(rows) + 1}
  BY <1>1
<1>3. Links(new) = {Link(new[i]) : i \in 1 .. Len(rows) \cup {Len(rows) + 1}}
  BY <1>2 DEF Links
<1>4. Links(new) = {Link(new[i]) : i \in 1 .. Len(rows)} \cup {Link(row)}
  BY <1>1, <1>3
<1>5. {Link(new[i]) : i \in 1 .. Len(rows)} = Links(rows)
  BY <1>1 DEF Links
<1> QED BY <1>4, <1>5 DEF new

LEMMA LinksEmpty == Links(<<>>) = {}
BY EmptySeq DEF Links

LEMMA LinksAlter ==
  ASSUME live \in Seq(Row), NEW i \in 1 .. Len(live), Alter(i)
  PROVE  Links(live') = Links(live)
<1>1. \A j \in 1 .. Len(live) : Link(live'[j]) = Link(live[j])
  BY AlterKeeps DEF Link
<1> QED BY <1>1, AlterKeeps DEF Links

\* The newest row is the tip of the live log, unless a rotation has just truncated it
\* or an error or a crash left it without its first row; a rotation remembers the
\* newest hash while the live log cannot tell it, archives under a name of its own and
\* truncates what it has archived.
TrailOK(st, rows, arch, hash, cut) ==
  /\ TipHash(rows) = hash \/ (rows = <<>> /\ (cut \/ Bootstrapping(st)))
  /\ st.pc = "tip" => TipHash(rows) = hash
  /\ Bootstrapping(st) \/ st.pc \in {"backup", "truncate"} => st.last = hash
  /\ Unarchived(st) => st.name \notin DOMAIN arch
  /\ st.pc = "truncate" => st.name \in DOMAIN arch /\ Links(rows) \subseteq Links(arch[st.name])

TrailInv == \A t \in Threads : TrailOK(thread[t], live, archives, stamp, Interrupted)

LEMMA TrailFrame ==
  ASSUME OneThread, TypeInv, NEW t \in Threads, NEW st, Become(t, st),
         TrailOK(st, live', archives', stamp', Interrupted')
  PROVE  TrailInv'
<1>1. \A u \in Threads : thread'[u] = st
  BY OnlyThread DEF TypeInv, TypeOK
<1> QED BY <1>1 DEF TrailInv

LEMMA TrailInit == Init => TrailInv
<1> SUFFICES ASSUME Init, NEW t \in Threads PROVE TrailOK(Idle, live, archives, stamp, Interrupted)
  BY DEF TrailInv, Init
<1>1. TipHash(live) = stamp
  BY DEF Init, TipHash, NoHash
<1>2. Idle.act = "entry" /\ Idle.pc = "idle"
  BY DEF Idle
<1> QED BY <1>1, <1>2, EntryState DEF TrailOK

LEMMA TrailNext ==
  ASSUME OneThread, TypeInv, TrailInv, [Next]_vars
  PROVE  TrailInv'
<1>a. /\ \A t \in Threads : thread[t] \in ThreadState /\ Named(thread[t], named)
      /\ live \in Seq(Row) /\ stamp \in Nat /\ named \in Nat /\ DOMAIN archives \subseteq 1 .. named
      /\ fails \in Nat /\ crashes \in Nat
  BY DEF TypeInv, TypeOK, Naming
<1>b. \A t \in Threads : TrailOK(thread[t], live, archives, stamp, Interrupted)
  BY DEF TrailInv
\* A thread that neither rotates now nor then, and touches no file.
<1>c. ASSUME NEW t \in Threads, NEW st, Become(t, st), st.act = "entry",
             st.pc \notin {"tip", "backup", "truncate"},
             ~Bootstrapping(thread[t]), UNCHANGED <<live, archives, stamp, fails, crashes>>
      PROVE  TrailInv'
  <2>1. ~Bootstrapping(st) /\ ~Unarchived(st)
    BY <1>c, EntryState
  <2>2. TrailOK(st, live', archives', stamp', Interrupted')
    BY <1>b, <1>c, <2>1 DEF TrailOK, Interrupted
  <2> QED BY <1>c, <2>2, TrailFrame
<1>d. Appending(Idle, "entry").act = "entry" /\ Appending(Idle, "entry").pc = "read"
      /\ Idle.act = "entry" /\ Idle.pc = "idle"
      /\ ([Idle EXCEPT !.pc = "queued"]).act = "entry" /\ ([Idle EXCEPT !.pc = "queued"]).pc = "queued"
      /\ ([Idle EXCEPT !.pc = "lock"]).act = "entry" /\ ([Idle EXCEPT !.pc = "lock"]).pc = "lock"
      /\ ([Idle EXCEPT !.pc = "reset"]).act = "entry" /\ ([Idle EXCEPT !.pc = "reset"]).pc = "reset"
  BY DEF Idle, Appending
<1>1. ASSUME NEW t \in Threads,
             LogEntry(t) \/ WebEntry(t) \/ LeaveQueue(t) \/ RequestRotation(t) \/ ResetMonitor(t)
      PROVE  TrailInv'
  <2>1. thread[t].act = "entry"
    BY <1>1, <1>a DEF LogEntry, WebEntry, LeaveQueue, RequestRotation, ResetMonitor, Named
  <2>2. UNCHANGED <<live, archives, stamp, fails, crashes>>
    BY <1>1 DEF LogEntry, WebEntry, LeaveQueue, RequestRotation, ResetMonitor, files, counters
  <2>3. PICK st : Become(t, st) /\ st.act = "entry" /\ st.pc \notin {"tip", "backup", "truncate"}
    BY <1>1, <1>d DEF LogEntry, WebEntry, LeaveQueue, RequestRotation, ResetMonitor
  <2> QED BY <1>c, <2>1, <2>2, <2>3, EntryState
<1>2. ASSUME NEW t \in Threads, ReadTip(t) PROVE TrailInv'
  <2> DEFINE st == [thread[t] EXCEPT !.pc = "insert", !.tip = TipHash(live)]
  <2>1. Become(t, st) /\ UNCHANGED <<live, archives, stamp, fails, crashes>> /\ thread[t].pc = "read"
    BY <1>2 DEF ReadTip, files, counters
  <2>2. /\ st.pc = "insert" /\ st.act = thread[t].act /\ st.last = thread[t].last
        /\ st.name = thread[t].name
    BY <1>a DEF ThreadState
  <2> HIDE DEF st
  <2>3. TrailOK(st, live', archives', stamp', Interrupted')
    BY <1>b, <2>1, <2>2 DEF TrailOK, Bootstrapping, Unarchived, Interrupted
  <2> QED BY <2>1, <2>3, TrailFrame
<1>3. ASSUME NEW t \in Threads, Insert(t) PROVE TrailInv'
  <2> DEFINE row == NewRow(thread[t])
             st == [thread[t] EXCEPT !.pc = Continuation(t), !.tip = NoHash]
  <2>1. /\ Become(t, st) /\ live' = Append(live, row) /\ stamp' = stamp + 1
        /\ UNCHANGED <<archives, fails, crashes>> /\ thread[t].pc = "insert"
    BY <1>3 DEF Insert, counters
  <2>2. /\ st.pc \in {"tip", "purge", "idle", "check"} /\ st.act = thread[t].act
        /\ st.name = thread[t].name
    BY <1>a DEF ThreadState, Continuation
  <2>3. TipHash(live') = stamp'
    <3>1. row \in Row /\ row.hash = stamp + 1
      <4>1. row \in Row
        BY <1>a DEF NewRow, Row, ThreadState, NoHash
      <4> QED BY <4>1 DEF NewRow
    <3>2. live' # <<>> /\ live'[Len(live')] = row
      BY <1>a, <2>1, <3>1, AppendProperties
    <3> QED BY <2>1, <3>1, <3>2 DEF TipHash
  <2> HIDE DEF st, row
  <2>4. TrailOK(st, live', archives', stamp', Interrupted')
    BY <1>b, <2>1, <2>2, <2>3 DEF TrailOK, Bootstrapping, Unarchived
  <2> QED BY <2>1, <2>4, TrailFrame
\* A new rotation has a new name.
<1>4. ASSUME NEW t \in Threads, CheckThreshold(t) \/ StartRotation(t) PROVE TrailInv'
  <2>1. thread[t].act = "entry" /\ ~Bootstrapping(thread[t])
    BY <1>4, <1>a, EntryState DEF CheckThreshold, StartRotation, Named
  <2>2. UNCHANGED <<live, archives, stamp, fails, crashes>>
    BY <1>4 DEF CheckThreshold, StartRotation, counters
  <2>3. CASE Become(t, Idle)
    BY <1>c, <1>d, <2>1, <2>2, <2>3
  <2>4. ASSUME NEW manual \in BOOLEAN, Become(t, Rotation(manual)) PROVE TrailInv'
    <3>1. /\ Rotation(manual).pc = "read" /\ Rotation(manual).act = "rotated"
          /\ Rotation(manual).name = named + 1
      BY DEF Rotation, Appending, Idle
    <3>2. TrailOK(Rotation(manual), live', archives', stamp', Interrupted')
      BY <1>a, <1>b, <2>1, <2>2, <3>1 DEF TrailOK, Bootstrapping, Unarchived, Interrupted
    <3> QED BY <2>4, <3>2, TrailFrame
  <2> QED BY <1>4, <2>3, <2>4 DEF CheckThreshold, StartRotation
<1>5. ASSUME NEW t \in Threads, ReadLastHash(t) PROVE TrailInv'
  <2> DEFINE st == [thread[t] EXCEPT !.pc = "backup", !.last = TipHash(live)]
  <2>1. Become(t, st) /\ UNCHANGED <<live, archives, stamp, fails, crashes>> /\ thread[t].pc = "tip"
    BY <1>5 DEF ReadLastHash, files, counters
  <2>2. /\ st.pc = "backup" /\ st.act = thread[t].act /\ st.last = TipHash(live)
        /\ st.name = thread[t].name
    BY <1>a DEF ThreadState
  <2> HIDE DEF st
  <2>3. TrailOK(st, live', archives', stamp', Interrupted')
    BY <1>b, <2>1, <2>2 DEF TrailOK, Bootstrapping, Unarchived
  <2> QED BY <2>1, <2>3, TrailFrame
<1>6. ASSUME NEW t \in Threads, Backup(t) PROVE TrailInv'
  <2> DEFINE st == [thread[t] EXCEPT !.pc = "truncate"]
  <2>1. Become(t, st) /\ UNCHANGED <<live, stamp, fails, crashes>> /\ thread[t].pc = "backup"
    BY <1>6 DEF Backup, counters
  <2>2. /\ st.pc = "truncate" /\ st.act = thread[t].act /\ st.last = thread[t].last
        /\ st.name = thread[t].name
    BY <1>a DEF ThreadState
  <2>3. thread[t].name \in DOMAIN archives' /\ archives'[thread[t].name] = live
    BY <1>6 DEF Backup, Archive
  <2> HIDE DEF st
  <2>4. TrailOK(st, live', archives', stamp', Interrupted')
    BY <1>b, <2>1, <2>2, <2>3 DEF TrailOK, Bootstrapping, Unarchived, Interrupted
  <2> QED BY <2>1, <2>4, TrailFrame
<1>7. ASSUME NEW t \in Threads, Truncate(t) PROVE TrailInv'
  <2> DEFINE st == Appending(thread[t], "rotated_from")
  <2>1. Become(t, st) /\ live' = <<>> /\ UNCHANGED <<archives, stamp>> /\ thread[t].pc = "truncate"
    BY <1>7 DEF Truncate
  <2>2. st.pc = "read" /\ st.act = "rotated_from" /\ st.last = thread[t].last
    BY <1>a DEF ThreadState, Appending
  <2> HIDE DEF st
  <2>3. TrailOK(st, live', archives', stamp', Interrupted')
    BY <1>b, <2>1, <2>2 DEF TrailOK, Bootstrapping, Unarchived
  <2> QED BY <2>1, <2>3, TrailFrame
<1>8. ASSUME NEW t \in Threads, Purge(t) PROVE TrailInv'
  <2>1. PICK st : Become(t, st) /\ st.act = "entry" /\ st.pc \in {"idle", "reset"}
    BY <1>8, <1>d DEF Purge
  <2>2. ~Bootstrapping(thread[t]) /\ UNCHANGED <<live, stamp, fails, crashes>>
    BY <1>8 DEF Purge, Bootstrapping, counters
  <2>3. TrailOK(st, live', archives', stamp', Interrupted')
    BY <1>b, <2>1, <2>2, EntryState DEF TrailOK, Interrupted
  <2> QED BY <2>1, <2>3, TrailFrame
\* What is left behind by an error or a crash is a log that may be empty.
<1>9. ASSUME NEW t \in Threads, Fail(t) PROVE TrailInv'
  <2>1. Become(t, Idle) /\ UNCHANGED <<live, stamp>> /\ Interrupted'
    BY <1>9, <1>a DEF Fail, Interrupted
  <2>2. TrailOK(Idle, live', archives', stamp', Interrupted')
    BY <1>b, <1>d, <2>1, EntryState DEF TrailOK
  <2> QED BY <2>1, <2>2, TrailFrame
<1>10. ASSUME Crash PROVE TrailInv'
  <2>1. UNCHANGED <<live, archives, stamp>> /\ Interrupted' /\ \A t \in Threads : thread'[t] = Idle
    BY <1>10, <1>a DEF Crash, Interrupted, files
  <2>2. \A t \in Threads : TrailOK(Idle, live', archives', stamp', Interrupted')
    BY <1>b, <1>d, <2>1, EntryState DEF TrailOK
  <2> QED BY <2>1, <2>2 DEF TrailInv
<1>11. ASSUME NEW i \in 1 .. Len(live), Alter(i) PROVE TrailInv'
  <2>1. TipHash(live') = TipHash(live) /\ Links(live') = Links(live) /\ live # <<>>
    BY <1>11, <1>a, AlterKeeps, LinksAlter, EmptySeq
  <2>2. UNCHANGED <<thread, archives, stamp, fails, crashes>>
    BY <1>11 DEF Alter
  <2> QED BY <1>b, <2>1, <2>2 DEF TrailInv, TrailOK, Interrupted
<1>12. ASSUME Scan \/ UNCHANGED vars PROVE TrailInv'
  BY <1>12 DEF Scan, Poll, Resync, Apply, RaiseAlert, vars, files, locks, counters, TrailInv, Interrupted
<1> QED
  BY <1>1, <1>2, <1>3, <1>4, <1>5, <1>6, <1>7, <1>8, <1>9, <1>10, <1>11, <1>12 DEF Next, Serve

-----------------------------------------------------------------------------
(* The log implements AuditTrail                                           *)

\* An archive under a new name that holds what is known already changes nothing.
LEMMA ArchiveTrail ==
  ASSUME NEW n, NEW rows, n \notin DOMAIN archives, Links(rows) \subseteq Links(live),
         Archive(n, rows), UNCHANGED <<live, purged>>
  PROVE  Trail' = Trail
<1>1. /\ DOMAIN archives' = DOMAIN archives \cup {n} /\ archives'[n] = rows
      /\ \A m \in DOMAIN archives : archives'[m] = archives[m]
  BY DEF Archive
<1>2. UNION {Links(archives'[m]) : m \in DOMAIN archives'}
        = (UNION {Links(archives[m]) : m \in DOMAIN archives}) \cup Links(rows)
  BY <1>1
<1>3. Trail' = Links(live') \cup (UNION {Links(archives'[m]) : m \in DOMAIN archives'}) \cup purged'
  BY DEF Trail
<1>4. Trail' = Links(live) \cup ((UNION {Links(archives[m]) : m \in DOMAIN archives}) \cup Links(rows)) \cup purged
  BY <1>2, <1>3
<1> QED BY <1>4 DEF Trail

LEMMA TrailStep ==
  ASSUME OneThread, ChainInv, TrailInv, [Next]_vars
  PROVE  [AbstractTrail!Record \/ AbstractTrail!Interrupt]_<<Trail, stamp, Interrupted>>
<1>a. /\ \A t \in Threads : thread[t] \in ThreadState /\ Named(thread[t], named)
      /\ live \in Seq(Row) /\ stamp \in Nat /\ fails \in Nat /\ crashes \in Nat
  BY DEF ChainInv, TypeInv, TypeOK, Naming
<1>b. \A t \in Threads : TrailOK(thread[t], live, archives, stamp, Interrupted)
  BY DEF TrailInv
<1>1. ASSUME NEW t \in Threads, Insert(t) PROVE AbstractTrail!Record
  <2> DEFINE row == NewRow(thread[t])
  <2>1. /\ live' = Append(live, row) /\ stamp' = stamp + 1 /\ thread[t].pc = "insert"
        /\ UNCHANGED <<archives, purged, fails, crashes>>
    BY <1>1 DEF Insert, counters
  <2>2. row \in Row
    BY <1>a DEF NewRow, Row, ThreadState, NoHash
  <2>3. /\ row.hash = stamp + 1 /\ row.act = thread[t].act /\ row.prev = thread[t].tip
        /\ row.act = "rotated_from" => row.ref = thread[t].last
    BY DEF NewRow
  <2>4. thread[t].tip = TipHash(live)
    BY <2>1 DEF ChainInv, Steady, TipFresh
  <2> HIDE DEF row
  <2>5. Link(row).pred \in IF Interrupted THEN {stamp, 0} ELSE {stamp}
    <3>1. CASE Bootstrapping(thread[t])
      BY <1>b, <2>3, <3>1 DEF TrailOK, Link, Bootstrapping
    <3>2. CASE ~Bootstrapping(thread[t])
      <4>1. Link(row).pred = TipHash(live)
        BY <2>1, <2>3, <2>4, <3>2 DEF Link, Bootstrapping
      <4>2. TipHash(live) = stamp \/ (TipHash(live) = 0 /\ Interrupted)
        BY <1>b, <3>2 DEF TrailOK, TipHash, NoHash
      <4> QED BY <4>1, <4>2
    <3> QED BY <3>1, <3>2
  <2>6. Trail' = Trail \cup {[hash |-> stamp + 1, pred |-> Link(row).pred]}
    <3>1. Link(row) = [hash |-> stamp + 1, pred |-> Link(row).pred]
      BY <2>3 DEF Link
    <3>2. Links(live') = Links(live) \cup {Link(row)}
      BY <1>a, <2>1, <2>2, LinksAppend
    <3> QED BY <2>1, <3>1, <3>2 DEF Trail
  <2>7. UNCHANGED Interrupted
    BY <2>1 DEF Interrupted
  <2> QED BY <2>1, <2>5, <2>6, <2>7 DEF AbstractTrail!Record
<1>2. ASSUME NEW t \in Threads, Backup(t) PROVE UNCHANGED <<Trail, stamp, Interrupted>>
  <2>1. thread[t].name \notin DOMAIN archives
    BY <1>2, <1>a, <1>b DEF Backup, TrailOK, Unarchived, Named
  <2>2. /\ Archive(thread[t].name, live) /\ UNCHANGED <<live, purged, stamp, fails, crashes>>
    BY <1>2 DEF Backup, counters
  <2> QED BY <2>1, <2>2, ArchiveTrail DEF Interrupted
<1>3. ASSUME NEW t \in Threads, Truncate(t) PROVE UNCHANGED <<Trail, stamp, Interrupted>>
  <2>1. /\ live' = <<>> /\ UNCHANGED <<archives, purged, stamp, fails, crashes>>
    BY <1>3 DEF Truncate, counters
  <2>2. thread[t].name \in DOMAIN archives /\ Links(live) \subseteq Links(archives[thread[t].name])
    BY <1>3, <1>b DEF Truncate, TrailOK
  <2>3. Trail' = Trail
    <3>1. Links(live) \subseteq UNION {Links(archives[n]) : n \in DOMAIN archives}
      BY <2>2
    <3>2. Trail' = (UNION {Links(archives[n]) : n \in DOMAIN archives}) \cup purged
      BY <2>1, LinksEmpty DEF Trail
    <3> QED BY <3>1, <3>2 DEF Trail
  <2> QED BY <2>1, <2>3 DEF Interrupted
<1>4. ASSUME NEW t \in Threads, Purge(t) PROVE UNCHANGED <<Trail, stamp, Interrupted>>
  <2> DEFINE all == UNION {Links(archives[n]) : n \in DOMAIN archives}
             kept == UNION {Links(archives[n]) : n \in Retained}
             gone == UNION {Links(archives[n]) : n \in DOMAIN archives \ Retained}
  <2>1. /\ archives' = [n \in Retained |-> archives[n]] /\ purged' = purged \cup gone
        /\ UNCHANGED <<live, stamp, fails, crashes>>
    BY <1>4 DEF Purge, counters
  <2>2. Retained \subseteq DOMAIN archives
    BY DEF Retained
  <2>3. all = kept \cup gone
    BY <2>2
  <2>4. UNION {Links(archives'[n]) : n \in DOMAIN archives'} = kept
    BY <2>1
  <2>5. Trail' = Links(live) \cup kept \cup (purged \cup gone)
    BY <2>1, <2>4 DEF Trail
  <2>6. Trail = Links(live) \cup all \cup purged
    BY DEF Trail
  <2> HIDE DEF all, kept, gone
  <2> QED BY <2>1, <2>3, <2>5, <2>6 DEF Interrupted
<1>5. ASSUME NEW i \in 1 .. Len(live), Alter(i) PROVE UNCHANGED <<Trail, stamp, Interrupted>>
  BY <1>5, <1>a, LinksAlter DEF Alter, Trail, Interrupted
<1>6. ASSUME NEW t \in Threads, Fail(t) PROVE AbstractTrail!Interrupt
  <2>1. UNCHANGED <<live, stamp, purged>> /\ Interrupted'
    BY <1>6, <1>a DEF Fail, Interrupted
  <2>2. CASE UNCHANGED archives
    BY <2>1, <2>2 DEF Trail, AbstractTrail!Interrupt, Interrupted
  <2>3. CASE thread[t].pc = "backup" /\ Archive(thread[t].name, <<>>)
    <3>1. thread[t].name \notin DOMAIN archives
      BY <2>3, <1>a, <1>b DEF TrailOK, Unarchived, Named
    <3>2. Trail' = Trail
      BY <2>1, <2>3, <3>1, LinksEmpty, ArchiveTrail
    <3> QED BY <2>1, <3>2 DEF AbstractTrail!Interrupt, Interrupted
  <2> QED BY <1>6, <2>2, <2>3 DEF Fail
<1>7. ASSUME Crash PROVE AbstractTrail!Interrupt
  BY <1>7, <1>a DEF Crash, files, Trail, Interrupted, AbstractTrail!Interrupt
\* All other steps touch neither a row nor an archive.
<1>8. ASSUME NEW t \in Threads,
             LogEntry(t) \/ WebEntry(t) \/ RequestRotation(t) \/ LeaveQueue(t) \/ ReadTip(t)
               \/ CheckThreshold(t) \/ StartRotation(t) \/ ReadLastHash(t) \/ ResetMonitor(t)
      PROVE  UNCHANGED <<Trail, stamp, Interrupted>>
  <2>1. UNCHANGED <<live, archives, purged, stamp, fails, crashes>>
    BY <1>8 DEF LogEntry, WebEntry, RequestRotation, LeaveQueue, ReadTip, CheckThreshold,
       StartRotation, ReadLastHash, ResetMonitor, files, counters
  <2> QED BY <2>1 DEF Trail, Interrupted
<1>9. ASSUME Scan \/ UNCHANGED vars PROVE UNCHANGED <<Trail, stamp, Interrupted>>
  BY <1>9 DEF Scan, Poll, Resync, Apply, RaiseAlert, vars, files, counters, Trail, Interrupted
<1> QED
  BY <1>1, <1>2, <1>3, <1>4, <1>5, <1>6, <1>7, <1>8, <1>9 DEF Next, Serve

LEMMA TrailInvariant == OneThread => (Spec => [](ChainInv /\ TrailInv))
<1>1. ChainInv => TypeInv
  BY DEF ChainInv
<1>2. CASE OneThread
  <2>1. TypeInv /\ TrailInv /\ [Next]_vars => TrailInv'
    BY <1>2, TrailNext
  <2> QED BY ChainInvariant, TrailInit, <1>1, <2>1, PTL DEF Spec
<1> QED BY <1>2

\* One thread that logs and rotates implements the abstract trail: whatever is
\* rotated, purged, altered or cut short, rows are only ever added, each after the
\* newest one (rotate_audit_log, append_audit).
THEOREM ImplementsTrail == OneThread => (Spec => ImplementsAuditTrail)
<1>1. Init => AbstractTrail!Init
  <2> SUFFICES ASSUME Init PROVE AbstractTrail!Init
    OBVIOUS
  <2>1. Links(live) = {} /\ DOMAIN archives = {} /\ purged = {}
    BY LinksEmpty DEF Init
  <2> QED BY <2>1 DEF Init, AbstractTrail!Init, Trail, Interrupted
<1>2. CASE OneThread
  <2>1. ChainInv /\ TrailInv /\ [Next]_vars
          => [AbstractTrail!Record \/ AbstractTrail!Interrupt]_<<Trail, stamp, Interrupted>>
    BY <1>2, TrailStep
  <2> QED BY <1>1, <1>2, <2>1, TrailInvariant, PTL DEF Spec, ImplementsAuditTrail, AbstractTrail!Spec
<1> QED BY <1>2

\* Every entry of an abstract trail is still there ...
LEMMA RecordKeeps ==
  ASSUME stamp \in Nat, NoEntryLost,
         [AbstractTrail!Record \/ AbstractTrail!Interrupt]_<<Trail, stamp, Interrupted>>
  PROVE  NoEntryLost'
<1>1. CASE AbstractTrail!Record
  <2>1. PICK p : Trail' = Trail \cup {[hash |-> stamp + 1, pred |-> p]}
    BY <1>1 DEF AbstractTrail!Record
  <2>2. stamp' = stamp + 1
    BY <1>1 DEF AbstractTrail!Record
  <2> SUFFICES ASSUME NEW h \in 1 .. stamp + 1 PROVE \E l \in Trail' : l.hash = h
    BY <2>2 DEF NoEntryLost
  <2>3. CASE h = stamp + 1
    <3>1. [hash |-> stamp + 1, pred |-> p].hash = h
      BY <2>3
    <3> QED BY <2>1, <3>1
  <2>4. CASE h # stamp + 1
    <3>1. h \in 1 .. stamp
      BY <2>4
    <3> QED BY <2>1, <3>1 DEF NoEntryLost
  <2> QED BY <2>3, <2>4
<1>2. CASE AbstractTrail!Interrupt \/ UNCHANGED <<Trail, stamp, Interrupted>>
  BY <1>2 DEF AbstractTrail!Interrupt, NoEntryLost
<1> QED BY <1>1, <1>2

\* ... so one thread loses no committed entry, whatever happens: it takes a second
\* thread, writing between the copy and the DELETE, to lose one (rotate_audit_log).
THEOREM OneThreadLosesNothing == OneThread => (Spec => []NoEntryLost)
<1>1. Init => NoEntryLost
  BY DEF Init, NoEntryLost
<1>2. CASE OneThread
  <2>1. ChainInv /\ TrailInv /\ NoEntryLost /\ [Next]_vars => NoEntryLost'
    BY <1>2, TrailStep, RecordKeeps DEF ChainInv, TypeInv, TypeOK
  <2> QED BY <1>1, <1>2, <2>1, TrailInvariant, PTL DEF Spec
<1> QED BY <1>2

-----------------------------------------------------------------------------
(* The archives and the live log as one chain                              *)

\* Nothing was altered, cut short or deleted for good.
Clean == ~Altered /\ ~Interrupted /\ purged = {}

\* The n-th file continues the file before it.
Follows(rows, n, arch) ==
  IF n = 1 THEN rows[1].act # "rotated_from"
  ELSE rows[1].act = "rotated_from" /\ rows[1].ref = TipHash(arch[n - 1])

\* The k archives that there are verify one after the other; the live log is the next
\* file, but for the moment when it was archived and is not truncated yet.
CrossOK(st, rows, arch, k) ==
  /\ DOMAIN arch = 1 .. k
  /\ \A n \in 1 .. k : arch[n] # <<>> /\ ChainOK(arch[n]) /\ Follows(arch[n], n, arch)
  /\ st.pc \in {"tip", "backup"} => rows # <<>>
  /\ rows = <<>> /\ k > 0 => Bootstrapping(st)
  /\ Bootstrapping(st) => rows = <<>> /\ k > 0 /\ st.last = TipHash(arch[k])
  /\ rows # <<>> /\ st.pc # "truncate" => Follows(rows, k + 1, arch)
  /\ st.pc = "truncate" => k > 0 /\ arch[k] = rows

\* The number of archives: a rotation takes its name before it writes the file.
Written(st, n) == IF Unarchived(st) THEN n - 1 ELSE n

CrossInv ==
  Clean => \A t \in Threads :
             /\ Unarchived(thread[t]) => thread[t].name = named
             /\ CrossOK(thread[t], live, archives, Written(thread[t], named))

LEMMA CrossFrame ==
  ASSUME OneThread, TypeInv, NEW t \in Threads, NEW st, Become(t, st),
         Unarchived(st) => st.name = named',
         CrossOK(st, live', archives', Written(st, named'))
  PROVE  CrossInv'
<1>1. \A u \in Threads : thread'[u] = st
  BY OnlyThread DEF TypeInv, TypeOK
<1> QED BY <1>1 DEF CrossInv

LEMMA CrossInit == Init => CrossInv
<1> SUFFICES ASSUME Init, NEW t \in Threads
             PROVE  ~Unarchived(Idle) /\ CrossOK(Idle, live, archives, Written(Idle, named))
  BY DEF CrossInv, Init
<1>1. Idle.act = "entry" /\ Idle.pc = "idle" /\ ~Unarchived(Idle) /\ ~Bootstrapping(Idle)
  BY EntryState DEF Idle
<1>2. live = <<>> /\ DOMAIN archives = {} /\ Written(Idle, named) = 0
  BY <1>1 DEF Init, Written
<1> QED BY <1>1, <1>2 DEF CrossOK

LEMMA CrossNext ==
  ASSUME OneThread, ChainInv, TrailInv, CrossInv, [Next]_vars
  PROVE  CrossInv'
<1> SUFFICES ASSUME Clean' PROVE CrossInv'
  BY DEF CrossInv
<1>a. /\ \A t \in Threads : thread[t] \in ThreadState /\ Named(thread[t], named)
      /\ live \in Seq(Row) /\ stamp \in Nat /\ named \in Nat /\ alters \in Nat
      /\ fails \in Nat /\ crashes \in Nat /\ TypeInv
  BY DEF ChainInv, TypeInv, TypeOK, Naming
<1>b. \A t \in Threads : TrailOK(thread[t], live, archives, stamp, Interrupted)
  BY DEF TrailInv
\* The only thread, as long as nothing happened to the files.
<1>c. ASSUME NEW t \in Threads, UNCHANGED <<alters, fails, crashes>>, purged \subseteq purged'
      PROVE  /\ Clean
             /\ Unarchived(thread[t]) => thread[t].name = named
             /\ CrossOK(thread[t], live, archives, Written(thread[t], named))
  <2>1. Clean
    BY <1>c DEF Clean, Altered, Interrupted
  <2> QED BY <2>1 DEF CrossInv
<1>d. Appending(Idle, "entry").act = "entry" /\ Appending(Idle, "entry").pc = "read"
      /\ Idle.act = "entry" /\ Idle.pc = "idle"
      /\ ([Idle EXCEPT !.pc = "queued"]).act = "entry" /\ ([Idle EXCEPT !.pc = "queued"]).pc = "queued"
      /\ ([Idle EXCEPT !.pc = "lock"]).act = "entry" /\ ([Idle EXCEPT !.pc = "lock"]).pc = "lock"
      /\ ([Idle EXCEPT !.pc = "reset"]).act = "entry" /\ ([Idle EXCEPT !.pc = "reset"]).pc = "reset"
  BY DEF Idle, Appending
\* A thread that neither rotates now nor then, and touches no file.
<1>e. ASSUME NEW t \in Threads, NEW st, Become(t, st), st.act = "entry",
             st.pc \notin {"tip", "backup", "truncate"},
             ~Bootstrapping(thread[t]), ~Unarchived(thread[t]), thread[t].pc # "truncate",
             UNCHANGED <<live, archives, named, purged, alters, fails, crashes>>
      PROVE  CrossInv'
  <2>1. ~Bootstrapping(st) /\ ~Unarchived(st)
    BY <1>e, EntryState
  <2>2. CrossOK(thread[t], live, archives, named) /\ Written(st, named') = named
    BY <1>c, <1>e, <2>1 DEF Written
  <2>3. CrossOK(st, live', archives', Written(st, named'))
    BY <1>e, <2>1, <2>2 DEF CrossOK
  <2> QED BY <1>a, <1>e, <2>1, <2>3, CrossFrame
<1>1. ASSUME NEW t \in Threads,
             LogEntry(t) \/ WebEntry(t) \/ LeaveQueue(t) \/ RequestRotation(t) \/ ResetMonitor(t)
      PROVE  CrossInv'
  <2>1. thread[t].act = "entry" /\ thread[t].pc # "truncate"
    BY <1>1, <1>a DEF LogEntry, WebEntry, LeaveQueue, RequestRotation, ResetMonitor, Named
  <2>2. UNCHANGED <<live, archives, named, purged, alters, fails, crashes>>
    BY <1>1 DEF LogEntry, WebEntry, LeaveQueue, RequestRotation, ResetMonitor, files, counters
  <2>3. PICK st : Become(t, st) /\ st.act = "entry" /\ st.pc \notin {"tip", "backup", "truncate"}
    BY <1>1, <1>d DEF LogEntry, WebEntry, LeaveQueue, RequestRotation, ResetMonitor
  <2> QED BY <1>e, <2>1, <2>2, <2>3, EntryState
<1>2. ASSUME NEW t \in Threads, ReadTip(t) PROVE CrossInv'
  <2> DEFINE st == [thread[t] EXCEPT !.pc = "insert", !.tip = TipHash(live)]
  <2>1. /\ Become(t, st) /\ UNCHANGED <<live, archives, named, purged, alters, fails, crashes>>
        /\ thread[t].pc = "read"
    BY <1>2 DEF ReadTip, files, counters
  <2>2. /\ st.pc = "insert" /\ st.act = thread[t].act /\ st.last = thread[t].last
        /\ st.name = thread[t].name
    BY <1>a DEF ThreadState
  <2> HIDE DEF st
  <2>3. /\ Unarchived(st) <=> Unarchived(thread[t])
        /\ Bootstrapping(st) <=> Bootstrapping(thread[t])
    BY <2>1, <2>2 DEF Unarchived, Bootstrapping
  <2>4. Unarchived(st) => st.name = named'
    BY <1>c, <2>1, <2>2, <2>3
  <2>5. CrossOK(st, live', archives', Written(st, named'))
    BY <1>c, <2>1, <2>2, <2>3 DEF CrossOK, Written
  <2> QED BY <1>a, <2>1, <2>4, <2>5, CrossFrame
<1>3. ASSUME NEW t \in Threads, Insert(t) PROVE CrossInv'
  <2> DEFINE row == NewRow(thread[t])
             st == [thread[t] EXCEPT !.pc = Continuation(t), !.tip = NoHash]
             k == Written(thread[t], named)
  <2>1. /\ Become(t, st) /\ live' = Append(live, row) /\ thread[t].pc = "insert"
        /\ UNCHANGED <<archives, named, purged, alters, fails, crashes>>
    BY <1>3 DEF Insert, counters
  <2>2. /\ st.pc \in {"tip", "purge", "idle", "check"} /\ st.act = thread[t].act
        /\ st.name = thread[t].name /\ (st.act = "rotated" => st.pc = "tip")
    BY <1>a DEF ThreadState, Continuation
  <2>3. CrossOK(thread[t], live, archives, k) /\ (Unarchived(thread[t]) => thread[t].name = named)
    BY <1>c, <2>1
  <2>4. row \in Row /\ row.act = thread[t].act /\ (row.act = "rotated_from" => row.ref = thread[t].last)
    <3>1. row \in Row
      BY <1>a DEF NewRow, Row, ThreadState, NoHash
    <3> QED BY <3>1 DEF NewRow
  <2>5. k \in Nat
    BY <1>a DEF Written, Unarchived, Named
  <2>6. live' # <<>> /\ live'[1] = IF live = <<>> THEN row ELSE live[1]
    <3>1. /\ Len(live) \in Nat /\ Len(live') = Len(live) + 1 /\ live'[Len(live) + 1] = row
          /\ \A i \in 1 .. Len(live) : live'[i] = live[i]
      BY <1>a, <2>1, <2>4, LenProperties
    <3>2. live = <<>> <=> Len(live) = 0
      BY <1>a, EmptySeq
    <3>3. live' # <<>>
      BY <3>1, EmptySeq
    <3> HIDE DEF row
    <3> QED BY <3>1, <3>2, <3>3
  <2> HIDE DEF st, row
  <2>7. Unarchived(st) <=> Unarchived(thread[t])
    BY <2>1, <2>2 DEF Unarchived
  <2>8. ~Bootstrapping(st) /\ Written(st, named') = k
    BY <2>1, <2>2, <2>7 DEF Bootstrapping, Written
  <2> HIDE DEF k
  <2>9. Follows(live', k + 1, archives)
    <3>1. CASE live # <<>>
      BY <2>1, <2>3, <2>6, <3>1 DEF CrossOK, Follows
    <3>2. CASE live = <<>> /\ k = 0
      <4>1. row.act # "rotated_from"
        BY <2>1, <2>3, <2>4, <3>2 DEF CrossOK, Bootstrapping
      <4> QED BY <2>6, <3>2, <4>1 DEF Follows
    <3>3. CASE live = <<>> /\ k # 0
      <4>1. Bootstrapping(thread[t]) /\ thread[t].last = TipHash(archives[k])
        BY <2>3, <2>5, <3>3 DEF CrossOK
      <4>2. k + 1 # 1 /\ (k + 1) - 1 = k
        BY <2>5, <3>3
      <4> QED BY <2>4, <2>6, <3>3, <4>1, <4>2 DEF Follows, Bootstrapping
    <3> QED BY <3>1, <3>2, <3>3
  <2>10. CrossOK(st, live', archives', k)
    BY <2>1, <2>2, <2>3, <2>6, <2>8, <2>9 DEF CrossOK
  <2> QED BY <1>a, <2>1, <2>2, <2>3, <2>7, <2>8, <2>10, CrossFrame
<1>4. ASSUME NEW t \in Threads, CheckThreshold(t) \/ StartRotation(t) PROVE CrossInv'
  <2>1. /\ thread[t].act = "entry" /\ thread[t].pc \in {"check", "lock"}
        /\ UNCHANGED <<live, archives, purged, alters, fails, crashes>>
    BY <1>4, <1>a DEF CheckThreshold, StartRotation, Named, counters
  <2>2. ~Bootstrapping(thread[t]) /\ ~Unarchived(thread[t])
    BY <2>1, EntryState
  <2>3. CASE Become(t, Idle) /\ UNCHANGED named
    BY <1>d, <1>e, <2>1, <2>2, <2>3
  <2>4. ASSUME NEW manual \in BOOLEAN, Become(t, Rotation(manual)), named' = named + 1
        PROVE  CrossInv'
    <3> DEFINE st == Rotation(manual)
    <3>1. st.pc = "read" /\ st.act = "rotated" /\ st.name = named + 1
      BY DEF Rotation, Appending, Idle
    <3> HIDE DEF st
    <3>2. ~Bootstrapping(st) /\ Unarchived(st) /\ Written(st, named') = named
      BY <1>a, <2>4, <3>1 DEF Bootstrapping, Unarchived, Written
    <3>3. CrossOK(thread[t], live, archives, named)
      BY <1>c, <2>1, <2>2 DEF Written
    <3>4. CrossOK(st, live', archives', Written(st, named'))
      BY <2>1, <2>2, <3>1, <3>2, <3>3 DEF CrossOK
    <3> QED BY <1>a, <2>4, <3>1, <3>4, CrossFrame DEF st
  <2> QED BY <1>4, <2>3, <2>4 DEF CheckThreshold, StartRotation
<1>5. ASSUME NEW t \in Threads, ReadLastHash(t) PROVE CrossInv'
  <2> DEFINE st == [thread[t] EXCEPT !.pc = "backup", !.last = TipHash(live)]
  <2>1. /\ Become(t, st) /\ UNCHANGED <<live, archives, named, purged, alters, fails, crashes>>
        /\ thread[t].pc = "tip" /\ thread[t].act = "rotated"
    BY <1>5, <1>a DEF ReadLastHash, files, counters, Named
  <2>2. st.pc = "backup" /\ st.act = thread[t].act /\ st.name = thread[t].name
    BY <1>a DEF ThreadState
  <2> HIDE DEF st
  <2>3. Unarchived(st) /\ Unarchived(thread[t]) /\ ~Bootstrapping(st) /\ ~Bootstrapping(thread[t])
    BY <2>1, <2>2 DEF Unarchived, Bootstrapping
  <2>4. Unarchived(st) => st.name = named'
    BY <1>c, <2>1, <2>2, <2>3
  <2>5. CrossOK(st, live', archives', Written(st, named'))
    BY <1>c, <2>1, <2>2, <2>3 DEF CrossOK, Written
  <2> QED BY <1>a, <2>1, <2>4, <2>5, CrossFrame
\* The new archive holds the log up to the sentinel.
<1>6. ASSUME NEW t \in Threads, Backup(t) PROVE CrossInv'
  <2> DEFINE st == [thread[t] EXCEPT !.pc = "truncate"]
  <2>1. /\ Become(t, st) /\ UNCHANGED <<live, named, purged, alters, fails, crashes>>
        /\ Archive(thread[t].name, live) /\ thread[t].pc = "backup" /\ thread[t].act = "rotated"
    BY <1>6, <1>a DEF Backup, counters, Named
  <2>2. st.pc = "truncate"
    BY <1>a DEF ThreadState
  <2> HIDE DEF st
  <2>3. Unarchived(thread[t]) /\ ~Unarchived(st) /\ ~Bootstrapping(st)
    BY <2>1, <2>2 DEF Unarchived, Bootstrapping
  <2>4. /\ Clean /\ thread[t].name = named
        /\ CrossOK(thread[t], live, archives, named - 1)
    BY <1>c, <2>1, <2>3 DEF Written
  <2>5. named \in Nat \ {0}
    BY <1>a, <2>1, <2>4 DEF Named
  <2>6. /\ archives'[named] = live /\ DOMAIN archives' = DOMAIN archives \cup {named}
        /\ \A n \in DOMAIN archives : n # named => archives'[n] = archives[n]
    BY <2>1, <2>4 DEF Archive
  <2>7. DOMAIN archives = 1 .. named - 1 /\ live # <<>> /\ Follows(live, named, archives)
    BY <2>1, <2>4, <2>5 DEF CrossOK
  <2>8. DOMAIN archives' = 1 .. named
    BY <2>5, <2>6, <2>7
  <2>9. ChainOK(live)
    BY <1>a, <2>4, ChainVerifies DEF ChainInv, Steady, Clean
  <2>10. ASSUME NEW n \in 1 .. named
         PROVE  archives'[n] # <<>> /\ ChainOK(archives'[n]) /\ Follows(archives'[n], n, archives')
    <3>1. n # 1 => archives'[n - 1] = archives[n - 1]
      BY <2>5, <2>6, <2>7
    <3>2. CASE n = named
      BY <2>6, <2>7, <2>9, <3>1, <3>2 DEF Follows
    <3>3. CASE n # named
      <4>1. n \in 1 .. named - 1
        BY <2>5, <3>3
      <4>2. archives'[n] = archives[n]
        BY <2>6, <2>7, <3>3, <4>1
      <4> QED BY <2>4, <3>1, <4>1, <4>2 DEF CrossOK, Follows
    <3> QED BY <3>2, <3>3
  <2>11. CrossOK(st, live', archives', named)
    BY <2>1, <2>2, <2>3, <2>5, <2>6, <2>7, <2>8, <2>10 DEF CrossOK
  <2> QED BY <1>a, <2>1, <2>3, <2>11, CrossFrame DEF Written
<1>7. ASSUME NEW t \in Threads, Truncate(t) PROVE CrossInv'
  <2> DEFINE st == Appending(thread[t], "rotated_from")
  <2>1. /\ Become(t, st) /\ live' = <<>> /\ thread[t].pc = "truncate"
        /\ UNCHANGED <<archives, named, purged, alters, fails, crashes>>
    BY <1>7 DEF Truncate, counters
  <2>2. st.pc = "read" /\ st.act = "rotated_from" /\ st.last = thread[t].last
    BY <1>a DEF ThreadState, Appending
  <2> HIDE DEF st
  <2>3. /\ ~Unarchived(thread[t]) /\ ~Unarchived(st)
        /\ ~Bootstrapping(thread[t]) /\ Bootstrapping(st)
    BY <2>1, <2>2 DEF Unarchived, Bootstrapping
  <2>4. CrossOK(thread[t], live, archives, named) /\ Written(st, named') = named
    BY <1>c, <2>1, <2>3 DEF Written
  <2>5. archives[named] = live /\ named > 0 /\ live # <<>>
    BY <1>a, <2>1, <2>4 DEF CrossOK
  <2>6. st.last = TipHash(archives[named])
    BY <1>b, <2>1, <2>2, <2>3, <2>5 DEF TrailOK
  <2>7. CrossOK(st, live', archives', named)
    BY <2>1, <2>2, <2>3, <2>4, <2>5, <2>6 DEF CrossOK
  <2> QED BY <1>a, <2>1, <2>3, <2>4, <2>7, CrossFrame
\* No archive is empty, so none that is deleted leaves no trace in the history.
<1>8. ASSUME NEW t \in Threads, Purge(t) PROVE CrossInv'
  <2>1. /\ purged' = purged \cup UNION {Links(archives[n]) : n \in DOMAIN archives \ Retained}
        /\ archives' = [n \in Retained |-> archives[n]]
        /\ UNCHANGED <<live, named, alters, fails, crashes>>
        /\ thread[t].pc = "purge" /\ thread[t].act = "rotated_from"
    BY <1>8, <1>a DEF Purge, counters, Named
  <2>2. PICK st : Become(t, st) /\ st.act = "entry" /\ st.pc \in {"idle", "reset"}
    BY <1>8, <1>d DEF Purge
  <2>3. /\ ~Unarchived(thread[t]) /\ ~Unarchived(st)
        /\ ~Bootstrapping(thread[t]) /\ ~Bootstrapping(st)
    BY <2>1, <2>2 DEF Unarchived, Bootstrapping
  <2>4. CrossOK(thread[t], live, archives, named) /\ Written(st, named') = named
    BY <1>c, <2>1, <2>3 DEF Written
  <2>5. \A n \in DOMAIN archives : Links(archives[n]) # {}
    <3> SUFFICES ASSUME NEW n \in DOMAIN archives PROVE Links(archives[n]) # {}
      OBVIOUS
    <3>1. archives[n] \in Seq(Row) /\ archives[n] # <<>>
      BY <1>a, <2>4 DEF CrossOK, TypeInv, TypeOK
    <3>2. 1 \in 1 .. Len(archives[n])
      BY <3>1, EmptySeq, LenProperties
    <3> QED BY <3>2 DEF Links
  <2>6. DOMAIN archives \ Retained = {}
    <3>1. purged' = {}
      BY DEF Clean
    <3> SUFFICES ASSUME NEW n \in DOMAIN archives \ Retained PROVE FALSE
      OBVIOUS
    <3>2. Links(archives[n]) \subseteq purged'
      BY <2>1
    <3> QED BY <2>5, <3>1, <3>2
  <2>7. DOMAIN archives' = DOMAIN archives /\ \A n \in DOMAIN archives : archives'[n] = archives[n]
    <3>1. Retained = DOMAIN archives
      BY <2>6 DEF Retained
    <3> QED BY <2>1, <3>1
  <2>8. CrossOK(st, live', archives', named)
    <3>1. /\ DOMAIN archives = 1 .. named /\ ~Bootstrapping(st) /\ ~Bootstrapping(thread[t])
          /\ \A n \in DOMAIN archives : archives[n] # <<>> /\ ChainOK(archives[n])
                                       /\ Follows(archives[n], n, archives)
      BY <2>3, <2>4 DEF CrossOK
    <3>2. ASSUME NEW n \in DOMAIN archives PROVE Follows(archives'[n], n, archives')
      <4>1. n # 1 => n - 1 \in DOMAIN archives
        BY <1>a, <3>1 DEF Named
      <4> QED BY <2>7, <3>1, <3>2, <4>1 DEF Follows
    <3>3. named \in Nat
      BY <1>a DEF TypeInv, TypeOK
    <3>4. Follows(live, named + 1, archives) => Follows(live', named + 1, archives')
      <4>1. named + 1 # 1 => named \in DOMAIN archives
        BY <3>1, <3>3
      <4> QED BY <2>1, <2>7, <3>1, <3>3, <4>1 DEF Follows
    <3> QED BY <2>1, <2>2, <2>3, <2>4, <2>7, <3>1, <3>2, <3>3, <3>4 DEF CrossOK
  <2> QED BY <1>a, <2>1, <2>2, <2>3, <2>4, <2>8, CrossFrame
<1>9. ASSUME (\E t \in Threads : Fail(t)) \/ Crash PROVE FALSE
  <2>1. Interrupted'
    BY <1>9, <1>a DEF Fail, Crash, Interrupted
  <2> QED BY <2>1 DEF Clean
<1>10. ASSUME NEW i \in 1 .. Len(live), Alter(i) PROVE FALSE
  <2>1. Altered'
    BY <1>10, <1>a DEF Alter, Altered
  <2> QED BY <2>1 DEF Clean
<1>11. ASSUME Scan \/ UNCHANGED vars PROVE CrossInv'
  BY <1>11 DEF Scan, Poll, Resync, Apply, RaiseAlert, vars, files, locks, counters, CrossInv,
     Clean, Altered, Interrupted
<1> QED
  BY <1>1, <1>2, <1>3, <1>4, <1>5, <1>6, <1>7, <1>8, <1>9, <1>10, <1>11 DEF Next, Serve

\* The archives are numbered, so the i-th in time is the i-th of LogFiles.
LEMMA FilesInOrder ==
  ASSUME named \in Nat, DOMAIN archives = 1 .. named
  PROVE  /\ Len(LogFiles) = named + 1 /\ LogFiles[named + 1] = live
         /\ \A i \in 1 .. named : LogFiles[i] = archives[i]
<1> DEFINE at(i) == CHOOSE n \in DOMAIN archives :
                      Cardinality({m \in DOMAIN archives : m < n}) = i - 1
           old == [i \in 1 .. named |-> archives[at(i)]]
<1>1. Cardinality(DOMAIN archives) = named
  BY FS_Interval
<1>2. LogFiles = old \o <<live>>
  BY <1>1 DEF LogFiles
<1>3. \A n \in 1 .. named : Cardinality({m \in DOMAIN archives : m < n}) = n - 1
  <2> SUFFICES ASSUME NEW n \in 1 .. named
               PROVE  Cardinality({m \in DOMAIN archives : m < n}) = n - 1
    OBVIOUS
  <2>1. {m \in DOMAIN archives : m < n} = 1 .. n - 1
    OBVIOUS
  <2>2. n \in Nat \ {0}
    OBVIOUS
  <2> HIDE DEF old
  <2>3. Cardinality(1 .. n - 1) = n - 1
    BY <2>2, FS_Interval
  <2> QED BY <2>1, <2>3
<1>4. ASSUME NEW i \in 1 .. named PROVE at(i) = i
  <2>1. at(i) \in 1 .. named /\ Cardinality({m \in DOMAIN archives : m < at(i)}) = i - 1
    BY <1>3
  <2>2. Cardinality({m \in DOMAIN archives : m < at(i)}) = at(i) - 1
    BY <1>3, <2>1
  <2> HIDE DEF at
  <2> QED BY <2>1, <2>2
<1> HIDE DEF at
<1>5. /\ old \in Seq({archives[at(i)] : i \in 1 .. named}) /\ Len(old) = named
      /\ \A i \in 1 .. named : old[i] = archives[i]
  BY <1>4
<1> HIDE DEF old
<1>6. /\ Len(old \o <<live>>) = named + 1 /\ (old \o <<live>>)[named + 1] = live
      /\ \A i \in 1 .. named : (old \o <<live>>)[i] = old[i]
  BY <1>5
<1> QED BY <1>2, <1>5, <1>6

\* One thread whose requests all went through leaves archives and a live log that
\* verify as one chain, until a row is altered or an archive is purged
\* (rotate_audit_log, verify_audit_chain_across).
THEOREM ArchivesVerify == OneThread => (Spec => []AcrossVerifies)
<1>1. ASSUME OneThread, ChainInv, CrossInv PROVE AcrossVerifies
  <2> SUFFICES ASSUME \A t \in Threads : thread[t].pc = "idle", Clean, live # <<>>
               PROVE  AcrossOK(LogFiles)
    BY DEF AcrossVerifies, Clean
  <2>1. PICK t : t \in Threads
    BY <1>1 DEF OneThread
  <2>2. ~Unarchived(thread[t]) /\ CrossOK(thread[t], live, archives, named)
    BY <1>1, <2>1 DEF CrossInv, Unarchived, Written
  <2>3. named \in Nat /\ live \in Seq(Row)
    BY <1>1 DEF ChainInv, TypeInv, TypeOK
  <2>4. ChainOK(live)
    BY <1>1, <2>3, ChainVerifies DEF ChainInv, Steady, Clean
  <2>5. /\ DOMAIN archives = 1 .. named /\ Follows(live, named + 1, archives)
        /\ \A n \in 1 .. named : archives[n] # <<>> /\ ChainOK(archives[n])
                                /\ Follows(archives[n], n, archives)
    BY <2>1, <2>2 DEF CrossOK
  <2>6. /\ Len(LogFiles) = named + 1 /\ LogFiles[named + 1] = live
        /\ \A i \in 1 .. named : LogFiles[i] = archives[i]
    BY <2>3, <2>5, FilesInOrder
  <2>7. ASSUME NEW i \in 1 .. named + 1
        PROVE  ChainOK(LogFiles[i]) /\ LogFiles[i] # <<>> /\ Follows(LogFiles[i], i, archives)
    <3>1. i \in 1 .. named \/ i = named + 1
      BY <2>3
    <3> QED BY <2>4, <2>5, <2>6, <3>1
  <2>8. \A i \in 1 .. named + 1 : i # 1 => LogFiles[i - 1] = archives[i - 1]
    BY <2>3, <2>6
  <2> QED BY <2>3, <2>6, <2>7, <2>8 DEF AcrossOK, Follows
<1>2. CASE OneThread
  <2>1. ChainInv /\ TrailInv /\ CrossInv /\ [Next]_vars => CrossInv'
    BY <1>2, CrossNext
  <2>2. ChainInv /\ CrossInv => AcrossVerifies
    BY <1>1, <1>2
  <2> QED BY CrossInit, TrailInvariant, <1>2, <2>1, <2>2, PTL DEF Spec
<1> QED BY <1>2

=============================================================================
