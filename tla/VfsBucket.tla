----------------------------- MODULE VfsBucket ------------------------------
(***************************************************************************)
(* The token bucket that limits the VFS requests of a session.             *)
(*                                                                         *)
(* _vfs_rate_check looks at the clock before it takes the lock, so the     *)
(* bucket may see the times of two requests in the wrong order.            *)
(***************************************************************************)
EXTENDS Integers, Sequences, SequencesExt

CONSTANTS
  Threads,      \* connections of one session
  Capacity,     \* rate_limiting.vfs_bucket_capacity
  RefillRate,   \* rate_limiting.vfs_refill_rate
  MaxDelay,     \* how long after reading the clock a request gets the lock
  MaxRequests,  \* bound: requests
  MaxTime       \* bound: the clock

BucketAssumption ==
  Capacity \in Nat \ {0} /\ RefillRate \in Nat /\ MaxRequests \in Nat /\ MaxTime \in Nat

VARIABLES
  bucket,   \* _vfs_buckets of the session; NoBucket where there is none
  thread,   \* the time each request has read; NoTime where it has read none
  granted,  \* history: when requests were allowed, by their clocks, since the bucket was made
  now, requests

vars == <<bucket, thread, granted, now, requests>>

NoTime == -1
NoBucket == [tokens |-> 0, last |-> NoTime]

\* The bucket is never fuller than its capacity; late clocks can put it in debt.
TypeOK ==
  /\ bucket.last \in NoTime .. now
  /\ bucket.tokens \in Int /\ bucket.tokens < Capacity
  /\ thread \in [Threads -> NoTime .. now]
  /\ granted \in Seq(0 .. now) /\ requests \in 0 .. MaxRequests

Init ==
  /\ bucket = NoBucket /\ thread = [t \in Threads |-> NoTime]
  /\ granted = <<>> /\ now = 0 /\ requests = 0

ReadClock(t) ==
  /\ thread[t] = NoTime /\ requests < MaxRequests
  /\ requests' = requests + 1
  /\ thread' = [thread EXCEPT ![t] = now]
  /\ UNCHANGED <<bucket, granted, now>>

\* Mutant: an idle session saves up.
Refilled_Uncapped(time) == bucket.tokens + (time - bucket.last) * RefillRate

\* What is in the bucket at a time; the time may be before the last one.
Refilled(time) ==
  LET sum == bucket.tokens + (time - bucket.last) * RefillRate
  IN IF sum < Capacity THEN sum ELSE Capacity

\* Under the lock: the first request makes the bucket, others take from it.
TakeToken(t) ==
  /\ thread[t] # NoTime
  /\ LET time == thread[t]
     IN IF bucket = NoBucket
        THEN bucket' = [tokens |-> Capacity - 1, last |-> time] /\ granted' = <<time>>
        ELSE IF Refilled(time) >= 1
        THEN bucket' = [tokens |-> Refilled(time) - 1, last |-> time] /\ granted' = Append(granted, time)
        ELSE bucket' = [tokens |-> Refilled(time), last |-> time] /\ UNCHANGED granted
  /\ thread' = [thread EXCEPT ![t] = NoTime]
  /\ UNCHANGED <<now, requests>>

\* _vfs_bucket_clear, at logout and at the next login; a request that is under way
\* makes a bucket again.
ClearBucket ==
  /\ bucket # NoBucket
  /\ bucket' = NoBucket /\ granted' = <<>>
  /\ UNCHANGED <<thread, now, requests>>

Tick ==
  /\ now < MaxTime /\ now' = now + 1
  /\ \A t \in Threads : thread[t] # NoTime => now' - thread[t] <= MaxDelay
  /\ UNCHANGED <<bucket, thread, granted, requests>>

Next == (\E t \in Threads : ReadClock(t) \/ TakeToken(t)) \/ ClearBucket \/ Tick

Spec == Init /\ [][Next]_vars

-----------------------------------------------------------------------------
(* Properties                                                              *)

\* Between two allowed requests no more are allowed than the bucket holds and the
\* time between their clocks refills, in whatever order the threads get the lock.
BurstBounded ==
  \A i, j \in DOMAIN granted :
    i < j => j - i + 1 <= Capacity + RefillRate * (granted[j] - granted[i])

\* Clocks that are late take no more from the bucket than the time since its last
\* clock gives back: a session that waits is served again.
NoLastingDebt ==
  bucket # NoBucket => bucket.tokens + (now - bucket.last) * RefillRate >= 0

=============================================================================
