----------------------------- MODULE RateLimit ------------------------------
(***************************************************************************)
(* The limits on logins: attempts of an address at the web server, failed  *)
(* attempts of an account there, and failed logins of an address at the    *)
(* TLS server.                                                             *)
(*                                                                         *)
(* Each limit is a list of times behind a lock.  A request takes the locks *)
(* one after the other and verifies the password in between, so requests   *)
(* that run in parallel pass a check together before any of them has       *)
(* failed.  It looks at the clock before it takes a lock, so a list may    *)
(* see the times of two requests in the wrong order.  A list is filtered,  *)
(* added to and counted, never read in order, so it is a set here, of      *)
(* times with a number that tells equal ones apart.  One address and one   *)
(* account are modelled, the lists of others are apart.                    *)
(***************************************************************************)
EXTENDS Integers, FiniteSets

CONSTANTS
  Threads,       \* requests at one time
  IpWindow, IpMax,           \* web_rate_limiting.ip_window_seconds, ip_max_attempts
  AcctMax, AcctLockout,      \* .account_max_failures, .account_lockout_seconds
  LoginWindow, LoginMaxFails,\* rate_limiting.login_window_seconds, login_max_failures
  MaxDelay,      \* how long after reading the clock a request gets the lock
  MaxRequests,   \* bound: requests of a behaviour
  MaxTime        \* bound: the clock

LimitAssumption ==
  /\ {IpWindow, IpMax, AcctMax, AcctLockout, LoginWindow, LoginMaxFails} \subseteq Nat \ {0}
  /\ {MaxDelay, MaxRequests, MaxTime} \subseteq Nat /\ IsFiniteSet(Threads)

VARIABLES
  hits,        \* _ip_hits of the address
  acctFails,   \* _acct_fails of the account
  lockUntil,   \* _acct_lock_until of the account; 0 where there is none
  loginFails,  \* _login_failures of the address
  thread,      \* each request: what it is about to do, and the time it has read for that
  admitted,    \* history: the attempts of the address that the web server let in
  now, requests

vars == <<hits, acctFails, lockUntil, loginFails, thread, admitted, now, requests>>

\* The steps that look at the clock first, and the others.
Timed == {"hit", "lock", "web_fail", "check", "login_fail"}
Pcs == Timed \cup {"idle", "auth", "web_clear", "login_auth", "login_clear"}

NoTime == -1

\* What the lists and the requests can hold.
TypeOK ==
  /\ hits \cup acctFails \cup loginFails \cup admitted \subseteq [time : 0 .. now, nth : Nat]
  /\ lockUntil \in 0 .. now + AcctLockout
  /\ thread \in [Threads -> [pc : Pcs, clock : NoTime .. now]]
  /\ now \in Nat /\ requests \in Nat

Init ==
  /\ hits = {} /\ acctFails = {} /\ lockUntil = 0 /\ loginFails = {}
  /\ thread = [t \in Threads |-> [pc |-> "idle", clock |-> NoTime]]
  /\ admitted = {} /\ now = 0 /\ requests = 0

Goto(t, pc) == thread' = [thread EXCEPT ![t] = [pc |-> pc, clock |-> NoTime]]

\* The entries that a window still covers at a time.
Recent(list, window, time) == {e \in list : time - e.time < window}

\* What is added to a list.
Entry(list, time) ==
  [time |-> time, nth |-> CHOOSE n \in 1 .. Cardinality(list) + 1 : \A e \in list : e.nth # n]

Lists == <<hits, acctFails, lockUntil, loginFails, admitted>>

\* do_login at the web server, or login of a client at the TLS server.
Arrive(t, pc) ==
  /\ thread[t].pc = "idle" /\ pc \in {"hit", "check"}
  /\ requests < MaxRequests /\ requests' = requests + 1
  /\ Goto(t, pc) /\ UNCHANGED <<Lists, now>>

\* now = time.time(), before the lock.
ReadClock(t) ==
  /\ thread[t].pc \in Timed /\ thread[t].clock = NoTime
  /\ thread' = [thread EXCEPT ![t].clock = now]
  /\ UNCHANGED <<Lists, now, requests>>

\* A request that has read the clock for its step has the lock.
Locked(t, pc) == thread[t].pc = pc /\ thread[t].clock # NoTime

\* authenticate; a wrong password and an unknown name fail alike.
Authenticate(t, pc, failed, passed) ==
  /\ thread[t].pc = pc
  /\ Goto(t, failed) \/ Goto(t, passed)
  /\ UNCHANGED <<Lists, now, requests>>

-----------------------------------------------------------------------------
(* web/app.py                                                              *)

\* Mutant: an attempt that finds the list full is let in.
Full_Late(list, max) == Cardinality(list) > max

Full(list, max) == Cardinality(list) >= max

\* Layer 1, _ip_rate_limited: look and count in one critical section.
IpHit(t) ==
  /\ Locked(t, "hit")
  /\ LET recent == Recent(hits, IpWindow, thread[t].clock)
         hit == Entry(admitted, thread[t].clock)
     IN IF Full(recent, IpMax)
        THEN hits' = recent /\ Goto(t, "idle") /\ UNCHANGED admitted
        ELSE hits' = recent \cup {hit} /\ Goto(t, "lock") /\ admitted' = admitted \cup {hit}
  /\ UNCHANGED <<acctFails, lockUntil, loginFails, now, requests>>

\* Layer 4, _account_locked: a lock that has run out is removed, with the failures.
AccountLocked(t) ==
  /\ Locked(t, "lock")
  /\ IF lockUntil > thread[t].clock THEN Goto(t, "idle") /\ UNCHANGED <<acctFails, lockUntil>>
     ELSE /\ Goto(t, "auth") /\ lockUntil' = 0
          /\ acctFails' = IF lockUntil # 0 THEN {} ELSE acctFails
  /\ UNCHANGED <<hits, loginFails, admitted, now, requests>>

\* _record_account_failure: the failure that is one too many starts a lock and an
\* empty list.
RecordAccountFailure(t) ==
  /\ Locked(t, "web_fail")
  /\ LET recent == Recent(acctFails, AcctLockout, thread[t].clock)
         fails == recent \cup {Entry(recent, thread[t].clock)}
     IN IF Full(fails, AcctMax)
        THEN lockUntil' = thread[t].clock + AcctLockout /\ acctFails' = {}
        ELSE acctFails' = fails /\ UNCHANGED lockUntil
  /\ Goto(t, "idle") /\ UNCHANGED <<hits, loginFails, admitted, now, requests>>

\* _clear_account_failures; then _tls_login.
ClearAccountFailures(t) ==
  /\ thread[t].pc = "web_clear"
  /\ acctFails' = {} /\ lockUntil' = 0
  /\ Goto(t, "check") /\ UNCHANGED <<hits, loginFails, admitted, now, requests>>

-----------------------------------------------------------------------------
(* server/server.py                                                        *)

\* _check_rate_limit only looks.
CheckRateLimit(t) ==
  /\ Locked(t, "check")
  /\ loginFails' = Recent(loginFails, LoginWindow, thread[t].clock)
  /\ Goto(t, IF Full(loginFails', LoginMaxFails) THEN "idle" ELSE "login_auth")
  /\ UNCHANGED <<hits, acctFails, lockUntil, admitted, now, requests>>

RecordLoginFailure(t) ==
  /\ Locked(t, "login_fail")
  /\ loginFails' = loginFails \cup {Entry(loginFails, thread[t].clock)}
  /\ Goto(t, "idle") /\ UNCHANGED <<hits, acctFails, lockUntil, admitted, now, requests>>

ClearLoginFailures(t) ==
  /\ thread[t].pc = "login_clear"
  /\ loginFails' = {}
  /\ Goto(t, "idle") /\ UNCHANGED <<hits, acctFails, lockUntil, admitted, now, requests>>

Tick ==
  /\ now < MaxTime /\ now' = now + 1
  /\ \A t \in Threads : thread[t].clock # NoTime => now' - thread[t].clock <= MaxDelay
  /\ UNCHANGED <<Lists, thread, requests>>

-----------------------------------------------------------------------------

Next ==
  \/ \E t \in Threads :
       \/ \E pc \in {"hit", "check"} : Arrive(t, pc)
       \/ ReadClock(t)
       \/ Authenticate(t, "auth", "web_fail", "web_clear")
       \/ Authenticate(t, "login_auth", "login_fail", "login_clear")
       \/ IpHit(t) \/ AccountLocked(t) \/ RecordAccountFailure(t) \/ ClearAccountFailures(t)
       \/ CheckRateLimit(t) \/ RecordLoginFailure(t) \/ ClearLoginFailures(t)
  \/ Tick

Spec == Init /\ [][Next]_vars

-----------------------------------------------------------------------------
(* Properties                                                              *)

\* Of the attempts that the web server lets in, no more than IpMax have read their
\* clocks within IpWindow less the delay between a clock and its lock, however they
\* interleave.  In the whole of a window there can be more: an attempt that comes in
\* first with the later clock prunes what an attempt with an earlier clock still
\* counts.
IpAttemptsBounded ==
  \A from \in 0 .. now :
    Cardinality({a \in admitted : from <= a.time /\ a.time + MaxDelay < from + IpWindow}) <= IpMax

InParallel == Cardinality(Threads) - 1

\* The check of the TLS server comes before the password and the count after it:
\* the failures that the window covers exceed the limit by no more than the requests
\* that can run beside the one that reaches it.
LoginFailuresBounded ==
  Cardinality(Recent(loginFails, LoginWindow, now)) <= LoginMaxFails + InParallel

\* While an account is locked, only requests that had passed the check before fail.
LockHolds == lockUntil > now => Cardinality(acctFails) <= InParallel

=============================================================================
