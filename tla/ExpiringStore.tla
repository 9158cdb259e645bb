--------------------------- MODULE ExpiringStore ----------------------------
(***************************************************************************)
(* What a table of credentials with a time limit promises to the threads   *)
(* that use it: a credential is good from when it is issued until its      *)
(* deadline or its revocation; a check that answers yes saw it good at     *)
(* some moment of the call, one that answers no saw it not good.           *)
(***************************************************************************)
EXTENDS Naturals

CONSTANTS
  Threads,
  Ids,   \* credentials
  NoId,  \* of a thread that makes no check
  Lifetime

VARIABLES
  now,
  deadline,  \* credential -> deadline, of those that were issued
  revoked,   \* those that were revoked
  call,      \* thread -> the check it is making, or NoCall
  verdict    \* thread -> the answer to its last check

vars == <<now, deadline, revoked, call, verdict>>

NoCall == [id |-> NoId, sawGood |-> FALSE, sawBad |-> FALSE]
Call == [id : Ids, sawGood : BOOLEAN, sawBad : BOOLEAN]

\* The credentials in force at a time.
GoodAt(d, r, time) == {k \in DOMAIN d \ r : time < d[k]}

Init ==
  /\ now = 0 /\ deadline = <<>> /\ revoked = {}
  /\ call = [t \in Threads |-> NoCall]
  /\ verdict = [t \in Threads |-> FALSE]

\* The calls, when the credentials g have come into force or are still in force.
Watching(calls, g) ==
  [t \in Threads |->
     IF calls[t] = NoCall THEN NoCall
     ELSE [calls[t] EXCEPT !.sawGood = @ \/ calls[t].id \in g, !.sawBad = @ \/ calls[t].id \notin g]]

Watch == call' = Watching(call, GoodAt(deadline', revoked', now'))

\* A credential lives no longer than Lifetime from when it is handed out; it may be
\* past its deadline by then.
Issue(k, d) ==
  /\ k \in Ids \ DOMAIN deadline
  /\ deadline' = [i \in DOMAIN deadline \cup {k} |-> IF i = k THEN d ELSE deadline[i]]
  /\ UNCHANGED <<now, revoked, verdict>> /\ Watch

Revoke(gone) ==
  /\ revoked' = revoked \cup gone
  /\ UNCHANGED <<now, deadline, verdict>> /\ Watch

Tick ==
  /\ now' = now + 1
  /\ UNCHANGED <<deadline, revoked, verdict>> /\ Watch

Begin(t, k) ==
  /\ call[t] = NoCall
  /\ LET good == k \in GoodAt(deadline, revoked, now)
     IN call' = [call EXCEPT ![t] = [id |-> k, sawGood |-> good, sawBad |-> ~good]]
  /\ UNCHANGED <<now, deadline, revoked, verdict>>

Answer(t, yes) ==
  /\ call[t] # NoCall
  /\ IF yes THEN call[t].sawGood ELSE call[t].sawBad
  /\ call' = [call EXCEPT ![t] = NoCall]
  /\ verdict' = [verdict EXCEPT ![t] = yes]
  /\ UNCHANGED <<now, deadline, revoked>>

Next ==
  \/ \E k \in Ids : \E d \in 0 .. now + Lifetime : Issue(k, d)
  \/ \E gone \in SUBSET Ids : Revoke(gone)
  \/ Tick
  \/ \E t \in Threads, k \in Ids : Begin(t, k)
  \/ \E t \in Threads, yes \in BOOLEAN : Answer(t, yes)

Spec == Init /\ [][Next]_vars

=============================================================================
