----------------------------- MODULE AuditLogMC -----------------------------
(***************************************************************************)
(* Model checking of AuditLog: a bound on the interplay of rotations with  *)
(* other requests, and the liveness properties.                            *)
(***************************************************************************)
EXTENDS AuditLog

\* Bound: behaviours with a rotation have three requests, no altered row, and no web
\* thread at work after it has begun.
RotationsApart ==
  RotationBegun => requests <= 3 /\ alters = 0 /\ \A w \in WebThreads : thread[w].pc = "idle"

\* A modified row of the live log is reported, unless it leaves the live log
\* first (_AuditIntegrityMonitor: full scan every N polls).
LiveIntact == \A i \in 1 .. Len(live) : live[i].intact
AlterationReported == ~LiveIntact ~> (alert \/ LiveIntact)

\* Every request that is logging or rotating finishes: nobody waits for ever on
\* _audit_lock, _audit_chain_lock or the rotation flag.
RequestsFinish == \A t \in Threads : thread[t].pc # "idle" ~> thread[t].pc = "idle"

=============================================================================
