----------------------------- MODULE KeyManager -----------------------------
(***************************************************************************)
(* The ephemeral session keys of server/key_manager.py: a dictionary with  *)
(* a lock, used by the threads of the connections and by a thread that     *)
(* sweeps out what has expired.                                            *)
(*                                                                         *)
(* The lock is taken for single operations on the dictionary: validate_key *)
(* looks the entry up, looks at the clock without the lock and may take it *)
(* again; issue_key and the sweep look at the clock before they take it.   *)
(* Keys are numbers in the order they are drawn, time is a counter.        *)
(***************************************************************************)
EXTENDS Naturals

CONSTANTS
  Threads,  \* threads of connections
  TTL,      \* lifetime of a key
  MaxKeys,  \* bound: keys drawn
  MaxTime   \* bound: the clock

KeyAssumption == TTL \in Nat /\ MaxKeys \in Nat /\ MaxTime \in Nat

VARIABLES
  store,    \* _store: session_id -> expiry
  drawn,    \* session_ids drawn
  now,
  sweeper,  \* the sweep thread: pc, and the time it has read
  stopped,  \* stop() has begun
  thread,   \* what each thread is doing
  deadline, revoked, call, verdict  \* history: the variables of ExpiringStore

history == <<deadline, revoked, call, verdict>>
vars == <<store, drawn, now, sweeper, stopped, thread, history>>

Ids == 1 .. MaxKeys
NoId == 0
Promise == INSTANCE ExpiringStore WITH Lifetime <- TTL

Pcs == {"idle", "issue", "get", "check", "pop"}
Idle == [pc |-> "idle", id |-> NoId, expiry |-> 0]

\* What the dictionary, the clock and the threads can hold; what is in the store has
\* been issued, with the expiry it was issued with.
TypeOK ==
  /\ DOMAIN store \subseteq DOMAIN deadline /\ DOMAIN deadline \subseteq 1 .. drawn
  /\ drawn \in 0 .. MaxKeys
  /\ \A k \in DOMAIN store : store[k] = deadline[k] /\ store[k] \in TTL .. now + TTL
  /\ now \in Nat /\ stopped \in BOOLEAN
  /\ sweeper \in [pc : {"wait", "sweep", "ended"}, time : 0 .. now]
  /\ thread \in [Threads -> [pc : Pcs, id : 0 .. drawn, expiry : 0 .. now + TTL]]

Init ==
  /\ store = <<>> /\ drawn = 0
  /\ sweeper = [pc |-> "wait", time |-> 0] /\ stopped = FALSE
  /\ thread = [t \in Threads |-> Idle]
  /\ Promise!Init

Goto(t, st) == thread' = [thread EXCEPT ![t] = st]
Without(keys) == [k \in DOMAIN store \ keys |-> store[k]]
Manager == <<drawn, sweeper, stopped>>

-----------------------------------------------------------------------------
(* issue_key                                                               *)

NewExpiry == now + TTL

DrawKey(t) ==
  /\ thread[t].pc = "idle" /\ drawn < MaxKeys
  /\ drawn' = drawn + 1
  /\ Goto(t, [pc |-> "issue", id |-> drawn', expiry |-> NewExpiry])
  /\ UNCHANGED <<store, now, sweeper, stopped, history>>

PutKey(t) ==
  /\ thread[t].pc = "issue"
  /\ store' = [k \in DOMAIN store \cup {thread[t].id} |->
                 IF k = thread[t].id THEN thread[t].expiry ELSE store[k]]
  /\ Goto(t, Idle) /\ Promise!Issue(thread[t].id, thread[t].expiry)
  /\ UNCHANGED Manager

-----------------------------------------------------------------------------
(* validate_key and revoke_key                                             *)

Validate(t, k) ==
  /\ thread[t].pc = "idle"
  /\ Goto(t, [Idle EXCEPT !.pc = "get", !.id = k])
  /\ Promise!Begin(t, k) /\ UNCHANGED <<store, Manager>>

\* What the caller is told.
Return(t, yes) ==
  /\ Goto(t, Idle)
  /\ call' = [call EXCEPT ![t] = Promise!NoCall]
  /\ verdict' = [verdict EXCEPT ![t] = yes]
  /\ UNCHANGED <<deadline, revoked>>

\* Under the lock; a session_id that is not there is answered with None.
GetEntry(t) ==
  /\ thread[t].pc = "get"
  /\ IF thread[t].id \in DOMAIN store
     THEN /\ Goto(t, [thread[t] EXCEPT !.pc = "check", !.expiry = store[thread[t].id]])
          /\ UNCHANGED history
     ELSE Return(t, FALSE)
  /\ UNCHANGED <<store, now, Manager>>

\* Mutant: the sweep is relied on to remove what has expired.
CheckExpiry_Never(t) ==
  /\ thread[t].pc = "check" /\ Return(t, TRUE)
  /\ UNCHANGED <<store, now, Manager>>

\* Without the lock: the key, or on to removing it.
CheckExpiry(t) ==
  /\ thread[t].pc = "check"
  /\ IF now >= thread[t].expiry
     THEN Goto(t, [thread[t] EXCEPT !.pc = "pop"]) /\ UNCHANGED history
     ELSE Return(t, TRUE)
  /\ UNCHANGED <<store, now, Manager>>

PopExpired(t) ==
  /\ thread[t].pc = "pop"
  /\ store' = Without({thread[t].id})
  /\ Return(t, FALSE) /\ UNCHANGED <<now, Manager>>

\* Under the lock, whoever else is looking at the key.
Revoke(t, k) ==
  /\ thread[t].pc = "idle" /\ k \in DOMAIN store
  /\ store' = Without({k})
  /\ Promise!Revoke({k}) /\ UNCHANGED <<thread, Manager>>

-----------------------------------------------------------------------------
(* The sweep thread and stop                                               *)

\* The wait is over, by time or by the event; the clock is read.
Wake ==
  /\ sweeper.pc = "wait"
  /\ sweeper' = [pc |-> "sweep", time |-> now]
  /\ UNCHANGED <<store, drawn, now, stopped, thread, history>>

\* Mutant: nothing is old enough.
Sweepable_None(time) == {k \in DOMAIN store : time > store[k] + TTL + MaxTime}

Sweepable(time) == {k \in DOMAIN store : time >= store[k]}

\* After the event was set this sweep is the last.
Sweep ==
  /\ sweeper.pc = "sweep"
  /\ store' = Without(Sweepable(sweeper.time))
  /\ sweeper' = [sweeper EXCEPT !.pc = IF stopped THEN "ended" ELSE "wait"]
  /\ UNCHANGED <<drawn, now, stopped, thread, history>>

Stop ==
  /\ ~stopped /\ stopped' = TRUE
  /\ UNCHANGED <<store, drawn, now, sweeper, thread, history>>

\* The thread has been joined, or the wait of 5 seconds for it is over.
Clear ==
  /\ stopped /\ store # <<>>
  /\ store' = <<>>
  /\ Promise!Revoke(DOMAIN store) /\ UNCHANGED <<thread, Manager>>

Tick ==
  /\ now < MaxTime /\ Promise!Tick
  /\ UNCHANGED <<store, thread, Manager>>

-----------------------------------------------------------------------------

Step(t) == PutKey(t) \/ GetEntry(t) \/ CheckExpiry(t) \/ PopExpired(t)
SweepThread == Wake \/ Sweep

Next ==
  \/ \E t \in Threads : \/ DrawKey(t) \/ Step(t)
                        \/ \E k \in 1 .. drawn : Validate(t, k) \/ Revoke(t, k)
  \/ SweepThread \/ Stop \/ Clear \/ Tick

\* The sweep thread runs.
Fairness == WF_vars(SweepThread)
Spec == Init /\ [][Next]_vars /\ Fairness

-----------------------------------------------------------------------------
(* Properties                                                              *)

\* The threads see what ExpiringStore promises: a key is validated only if it was
\* good at some moment of the call, and refused only if it was not, beside
\* revocations, sweeps and the clock.
KeepsPromise == Promise!Spec

\* An expired key does not stay in memory while the manager runs.
ExpiredGoes ==
  \A k \in Ids : (k \in DOMAIN store /\ now >= store[k]) ~> (k \notin DOMAIN store \/ stopped)

=============================================================================
