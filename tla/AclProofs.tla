----------------------------- MODULE AclProofs -----------------------------
(***************************************************************************)
(* The dictionary of keys and the tree with its permissions: KeyManager    *)
(* implements ExpiringStore, and what Acl promises holds, for any number   *)
(* of threads, keys, users, roles and inodes.                              *)
(*                                                                         *)
(* The operators of Acl that a proof is about are put as operators on a    *)
(* dictionary of inodes (WayUp), so that the facts about them hold before  *)
(* and after a step.                                                       *)
(***************************************************************************)
EXTENDS AclMC, Sequences, FiniteSetTheorems, WellFoundedInduction, TLAPS

-----------------------------------------------------------------------------
(* The dictionary of keys                                                  *)

Good == Promise!GoodAt(deadline, revoked, now)
Checking(t) == thread[t].pc \in {"get", "check", "pop"}
Issuing(t) == thread[t].pc = "issue"

Types ==
  /\ now \in Nat /\ drawn \in 0 .. MaxKeys
  /\ sweeper \in [pc : {"wait", "sweep", "ended"}, time : Nat] /\ sweeper.time <= now
  /\ thread \in [Threads -> [pc : Pcs, id : Nat, expiry : Nat]]
  /\ call \in [Threads -> Promise!Call \cup {Promise!NoCall}]
  /\ verdict \in [Threads -> BOOLEAN]

\* What was issued was drawn, what is in the store was issued and not revoked, and
\* what is good is in the store.
StoreInv ==
  /\ DOMAIN deadline \subseteq 1 .. drawn
  /\ \A k \in DOMAIN deadline : deadline[k] \in Nat
  /\ revoked \subseteq DOMAIN deadline
  /\ DOMAIN store \subseteq DOMAIN deadline \ revoked
  /\ \A k \in DOMAIN store : store[k] = deadline[k]
  /\ Good \subseteq DOMAIN store

\* A key that is about to be put into the store was issued by nobody.
IssueInv ==
  \A t \in Threads : Issuing(t) =>
    /\ thread[t].id \in 1 .. drawn /\ thread[t].id \notin DOMAIN deadline
    /\ thread[t].expiry \in 0 .. now + TTL
    /\ \A u \in Threads \ {t} : Issuing(u) => thread[u].id # thread[t].id

\* A call is under way while a thread checks a key, and it has seen what holds now.
CallInv ==
  \A t \in Threads :
    /\ IF Checking(t) THEN call[t] # Promise!NoCall /\ call[t].id = thread[t].id
       ELSE call[t] = Promise!NoCall
    /\ call[t] # Promise!NoCall =>
         /\ call[t].id \in Good => call[t].sawGood
         /\ call[t].id \notin Good => call[t].sawBad

\* An entry that was read from the store was good then, unless it had expired.
EntryInv ==
  \A t \in Threads :
    /\ thread[t].pc \in {"check", "pop"} =>
         thread[t].id \in DOMAIN deadline /\ thread[t].expiry = deadline[thread[t].id]
    /\ thread[t].pc = "check" /\ now < thread[t].expiry => call[t].sawGood
    /\ thread[t].pc = "pop" => now >= thread[t].expiry

KeyInv == Types /\ StoreInv /\ IssueInv /\ CallInv /\ EntryInv

-----------------------------------------------------------------------------
(* What the calls learn from a step that changes what is good              *)

\* A call goes on while keys come and go, and sees what is good afterwards.
GoesOn(t) ==
  /\ call[t] = Promise!NoCall => call'[t] = Promise!NoCall
  /\ call[t] # Promise!NoCall =>
       /\ call'[t] # Promise!NoCall /\ call'[t].id = call[t].id
       /\ call[t].sawGood => call'[t].sawGood
       /\ call[t].id \in Good' => call'[t].sawGood
       /\ call[t].id \notin Good' => call'[t].sawBad

LEMMA WatchSees ==
  ASSUME Types, Promise!Watch
  PROVE /\ call' \in [Threads -> Promise!Call \cup {Promise!NoCall}]
        /\ \A t \in Threads : GoesOn(t)
<1> DEFINE g == Good'
<1> HIDE DEF g
<1>1. call' = Promise!Watching(call, g)
  BY DEF Promise!Watch, Good, g
<1> SUFFICES ASSUME NEW t \in Threads
             PROVE call'[t] \in Promise!Call \cup {Promise!NoCall} /\ GoesOn(t)
  BY <1>1 DEF Promise!Watching
<1>2. CASE call[t] = Promise!NoCall
  BY <1>1, <1>2 DEF Promise!Watching, GoesOn
<1>3. CASE call[t] # Promise!NoCall
  <2>1. call[t] \in Promise!Call
    BY <1>3 DEF Types
  <2>2. call'[t] = [call[t] EXCEPT !.sawGood = @ \/ call[t].id \in g,
                                   !.sawBad = @ \/ call[t].id \notin g]
    BY <1>1, <1>3 DEF Promise!Watching
  <2>3. call[t].id # NoId
    BY <2>1 DEF Promise!Call, Ids, NoId
  <2>4. call'[t] \in Promise!Call /\ call'[t].id = call[t].id
    BY <2>1, <2>2 DEF Promise!Call
  <2>5. call'[t] # Promise!NoCall
    BY <2>3, <2>4 DEF Promise!NoCall
  <2>6. /\ call'[t].sawGood = (call[t].sawGood \/ call[t].id \in g)
        /\ call'[t].sawBad = (call[t].sawBad \/ call[t].id \notin g)
    BY <2>1, <2>2 DEF Promise!Call
  <2> QED
    BY <1>3, <2>4, <2>5, <2>6 DEF GoesOn, g
<1> QED
  BY <1>2, <1>3

-----------------------------------------------------------------------------
(* The invariant                                                           *)

LEMMA Begins ==
  ASSUME KeyAssumption, Init
  PROVE KeyInv
<1> USE DEF Init, Promise!Init, KeyAssumption
<1>1. Types
  BY DEF Types, Idle, Pcs, NoId, Promise!NoCall
<1>2. StoreInv
  BY DEF StoreInv, Good, Promise!GoodAt
<1>3. IssueInv /\ CallInv /\ EntryInv
  BY DEF IssueInv, CallInv, EntryInv, Issuing, Checking, Idle
<1> QED
  BY <1>1, <1>2, <1>3 DEF KeyInv

LEMMA Draws ==
  ASSUME KeyAssumption, KeyInv, NEW t \in Threads, DrawKey(t)
  PROVE KeyInv'
<1> USE DEF KeyInv, DrawKey, Goto, history, NewExpiry, KeyAssumption
<1>1. Types'
  BY DEF Types, Pcs
<1>2. StoreInv'
  BY DEF StoreInv, Types, Good, Promise!GoodAt
<1>3. IssueInv'
  BY DEF IssueInv, Issuing, StoreInv, Types
<1>4. CallInv'
  BY DEF CallInv, Checking, Good, Promise!GoodAt, Types
<1>5. EntryInv'
  BY DEF EntryInv, Types
<1> QED
  BY <1>1, <1>2, <1>3, <1>4, <1>5

LEMMA Puts ==
  ASSUME KeyAssumption, KeyInv, NEW t \in Threads, PutKey(t)
  PROVE KeyInv'
<1> DEFINE k == thread[t].id
           d == thread[t].expiry
<1> USE DEF KeyInv, PutKey, Goto, Manager, KeyAssumption, Promise!Issue
<1>0. /\ k \in 1 .. drawn /\ k \notin DOMAIN deadline /\ d \in Nat
      /\ thread[t].pc = "issue"
  BY DEF Types, IssueInv, Issuing
<1>1. /\ DOMAIN deadline' = DOMAIN deadline \cup {k} /\ deadline'[k] = d
      /\ \A i \in DOMAIN deadline : deadline'[i] = deadline[i]
  BY <1>0
<1>2. /\ DOMAIN store' = DOMAIN store \cup {k} /\ store'[k] = d
      /\ \A i \in DOMAIN store : store'[i] = store[i]
  BY <1>0 DEF StoreInv
<1>3. call' \in [Threads -> Promise!Call \cup {Promise!NoCall}] /\ \A u \in Threads : GoesOn(u)
  BY WatchSees
<1>4. thread' \in [Threads -> [pc : Pcs, id : Nat, expiry : Nat]]
      /\ thread'[t] = Idle /\ \A u \in Threads \ {t} : thread'[u] = thread[u]
  BY DEF Types, Pcs, Idle, NoId
<1>5. Types'
  BY <1>3, <1>4 DEF Types
<1>6. StoreInv'
  BY <1>0, <1>1, <1>2 DEF StoreInv, Types, Good, Promise!GoodAt
<1>7. IssueInv'
  BY <1>0, <1>1, <1>4 DEF IssueInv, Issuing, Idle
<1>8. CallInv'
  BY <1>0, <1>3, <1>4 DEF CallInv, Checking, Idle, GoesOn
<1>9. EntryInv'
  BY <1>0, <1>1, <1>3, <1>4 DEF EntryInv, Idle, CallInv, Checking, GoesOn
<1> QED
  BY <1>5, <1>6, <1>7, <1>8, <1>9

LEMMA Validates ==
  ASSUME KeyAssumption, KeyInv, NEW t \in Threads, NEW k \in 1 .. drawn, Validate(t, k)
  PROVE KeyInv'
<1> USE DEF KeyInv, Validate, Goto, Manager, KeyAssumption, Promise!Begin
<1>1. /\ k \in Ids /\ k # NoId /\ k \in Nat /\ call[t] = Promise!NoCall
      /\ thread[t].pc = "idle"
  BY DEF Types, Ids, NoId
<1>2. thread' \in [Threads -> [pc : Pcs, id : Nat, expiry : Nat]]
      /\ thread'[t] = [pc |-> "get", id |-> k, expiry |-> 0]
      /\ \A u \in Threads \ {t} : thread'[u] = thread[u]
  BY <1>1 DEF Types, Pcs, Idle, NoId
<1>3. /\ call' \in [Threads -> Promise!Call \cup {Promise!NoCall}]
      /\ call'[t].id = k /\ call'[t] # Promise!NoCall
      /\ k \in Good => call'[t].sawGood
      /\ k \notin Good => call'[t].sawBad
      /\ \A u \in Threads \ {t} : call'[u] = call[u]
  <2> DEFINE good == k \in Promise!GoodAt(deadline, revoked, now)
             c == [id |-> k, sawGood |-> good, sawBad |-> ~good]
  <2>1. call' = [call EXCEPT ![t] = c]
    OBVIOUS
  <2>2. c \in Promise!Call /\ c # Promise!NoCall
    BY <1>1 DEF Promise!Call, Promise!NoCall
  <2>3. c.id = k /\ (k \in Good => c.sawGood) /\ (k \notin Good => c.sawBad)
    BY DEF Good
  <2> HIDE DEF c
  <2> QED
    BY <2>1, <2>2, <2>3 DEF Types
<1>4. Types'
  BY <1>2, <1>3 DEF Types
<1>5. Good' = Good
  BY DEF Good, Promise!GoodAt
<1>6. StoreInv'
  BY <1>5 DEF StoreInv
<1>7. IssueInv'
  BY <1>2 DEF IssueInv, Issuing
<1>8. CallInv'
  BY <1>2, <1>3, <1>5 DEF CallInv, Checking
<1>9. EntryInv'
  BY <1>2, <1>3 DEF EntryInv
<1> QED
  BY <1>4, <1>6, <1>7, <1>8, <1>9

\* A thread goes back to idle with an answer, and the store may lose keys that are
\* not good.
LEMMA Returns ==
  ASSUME KeyAssumption, KeyInv, NEW t \in Threads, NEW yes \in BOOLEAN, Return(t, yes),
         UNCHANGED <<now, drawn, sweeper>>,
         store' = store \/ \E k \in DOMAIN deadline \ Good : store' = Without({k})
  PROVE KeyInv'
<1> USE DEF KeyInv, Return, Goto, KeyAssumption
<1>1. thread' \in [Threads -> [pc : Pcs, id : Nat, expiry : Nat]]
      /\ thread'[t] = Idle /\ \A u \in Threads \ {t} : thread'[u] = thread[u]
  BY DEF Types, Pcs, Idle, NoId
<1>2. call' \in [Threads -> Promise!Call \cup {Promise!NoCall}] /\ call'[t] = Promise!NoCall
      /\ \A u \in Threads \ {t} : call'[u] = call[u]
  BY DEF Types
<1>3. Types'
  BY <1>1, <1>2 DEF Types
<1>4. Good' = Good
  BY DEF Good, Promise!GoodAt
<1>5. StoreInv'
  BY <1>4 DEF StoreInv, Without
<1>6. IssueInv'
  BY <1>1 DEF IssueInv, Issuing, Idle
<1>7. CallInv'
  BY <1>1, <1>2, <1>4 DEF CallInv, Checking, Idle
<1>8. EntryInv'
  BY <1>1, <1>2 DEF EntryInv, Idle
<1> QED
  BY <1>3, <1>5, <1>6, <1>7, <1>8

\* A key that is not in the store was not good now; one that is and has not expired is.
LEMMA Gets ==
  ASSUME KeyAssumption, KeyInv, NEW t \in Threads, GetEntry(t)
  PROVE KeyInv'
<1> DEFINE k == thread[t].id
<1>1. CASE k \notin DOMAIN store
  BY <1>1, Returns DEF GetEntry, Manager
<1>2. CASE k \in DOMAIN store
  <2> USE DEF KeyInv
  <2>0. /\ thread[t].pc = "get" /\ UNCHANGED <<now, drawn, sweeper, stopped, store, history>>
        /\ thread' = [thread EXCEPT ![t] = [thread[t] EXCEPT !.pc = "check", !.expiry = deadline[k]]]
    BY <1>2 DEF GetEntry, Goto, Manager, StoreInv
  <2> USE <2>0 DEF history
  <2>1. thread' \in [Threads -> [pc : Pcs, id : Nat, expiry : Nat]]
        /\ thread'[t].pc = "check" /\ thread'[t].id = k /\ thread'[t].expiry = deadline[k]
        /\ \A u \in Threads \ {t} : thread'[u] = thread[u]
    <3> DEFINE st == [thread[t] EXCEPT !.pc = "check", !.expiry = deadline[k]]
    <3>1. thread[t] \in [pc : Pcs, id : Nat, expiry : Nat] /\ deadline[k] \in Nat
      BY <1>2 DEF Types, StoreInv
    <3>2. /\ st \in [pc : Pcs, id : Nat, expiry : Nat]
          /\ st.pc = "check" /\ st.id = k /\ st.expiry = deadline[k]
      BY <3>1 DEF Pcs
    <3> HIDE DEF st
    <3> QED
      BY <3>2 DEF Types, st
  <2>2. Good' = Good
    BY <1>2 DEF Good, Promise!GoodAt
  <2>3. call[t].id = k /\ call[t] # Promise!NoCall /\ k \in DOMAIN deadline
        /\ (now < deadline[k] => call[t].sawGood)
    BY <1>2 DEF CallInv, Checking, StoreInv, Good, Promise!GoodAt
  <2>4. Types' /\ StoreInv'
    BY <1>2, <2>1, <2>2 DEF Types, StoreInv
  <2>5. IssueInv'
    BY <1>2, <2>1 DEF IssueInv, Issuing
  <2>6. CallInv'
    BY <1>2, <2>1, <2>2, <2>3 DEF CallInv, Checking
  <2>7. EntryInv'
    BY <1>2, <2>1, <2>3 DEF EntryInv
  <2> QED
    BY <2>4, <2>5, <2>6, <2>7
<1> QED
  BY <1>1, <1>2

LEMMA Checks ==
  ASSUME KeyAssumption, KeyInv, NEW t \in Threads, CheckExpiry(t)
  PROVE KeyInv'
<1>1. CASE now < thread[t].expiry
  <2>0. ~(now >= thread[t].expiry)
    BY <1>1 DEF KeyInv, Types
  <2>1. Return(t, TRUE)
    BY <2>0 DEF CheckExpiry
  <2> QED
    BY <2>1, Returns DEF CheckExpiry, Manager
<1>2. CASE now >= thread[t].expiry
  <2> USE DEF KeyInv
  <2>0. /\ thread[t].pc = "check" /\ UNCHANGED <<now, drawn, sweeper, stopped, store, history>>
        /\ thread' = [thread EXCEPT ![t] = [thread[t] EXCEPT !.pc = "pop"]]
    BY <1>2 DEF CheckExpiry, Goto, Manager, Types
  <2> USE <2>0 DEF history
  <2>1. thread' \in [Threads -> [pc : Pcs, id : Nat, expiry : Nat]]
        /\ thread'[t] = [thread[t] EXCEPT !.pc = "pop"]
        /\ \A u \in Threads \ {t} : thread'[u] = thread[u]
    BY <1>2 DEF Types, Pcs
  <2>2. /\ thread'[t].pc = "pop" /\ thread'[t].id = thread[t].id
        /\ thread'[t].expiry = thread[t].expiry
    BY <2>1 DEF Types
  <2>3. Good' = Good
    BY <1>2 DEF Good, Promise!GoodAt
  <2>4. Types' /\ StoreInv'
    BY <1>2, <2>1, <2>3 DEF Types, StoreInv
  <2>5. IssueInv'
    BY <1>2, <2>1, <2>2 DEF IssueInv, Issuing
  <2>6. CallInv'
    BY <1>2, <2>1, <2>2, <2>3 DEF CallInv, Checking
  <2>7. EntryInv'
    BY <1>2, <2>1, <2>2 DEF EntryInv
  <2> QED
    BY <2>4, <2>5, <2>6, <2>7
<1> QED
  BY <1>1, <1>2 DEF KeyInv, Types

LEMMA Pops ==
  ASSUME KeyAssumption, KeyInv, NEW t \in Threads, PopExpired(t)
  PROVE KeyInv'
<1>1. thread[t].id \in DOMAIN deadline \ Good
  BY DEF PopExpired, KeyInv, EntryInv, Types, StoreInv, Good, Promise!GoodAt
<1> QED
  BY <1>1, Returns DEF PopExpired, Manager

\* revoke_key, and stop, which revokes whatever is left.
LEMMA Revokes ==
  ASSUME KeyAssumption, KeyInv, NEW gone \in SUBSET DOMAIN store,
         store' = Without(gone), Promise!Revoke(gone), UNCHANGED <<thread, drawn, sweeper>>
  PROVE KeyInv'
<1> USE DEF KeyInv, Promise!Revoke
<1>1. call' \in [Threads -> Promise!Call \cup {Promise!NoCall}] /\ \A u \in Threads : GoesOn(u)
  BY WatchSees
<1>2. Types'
  BY <1>1 DEF Types
<1>3. StoreInv'
  BY DEF StoreInv, Without, Good, Promise!GoodAt
<1>4. IssueInv'
  BY DEF IssueInv, Issuing
<1>5. CallInv'
  BY <1>1 DEF CallInv, Checking, GoesOn
<1>6. EntryInv'
  BY <1>1 DEF EntryInv, CallInv, Checking, GoesOn
<1> QED
  BY <1>2, <1>3, <1>4, <1>5, <1>6

LEMMA Ticks ==
  ASSUME KeyAssumption, KeyInv, Tick
  PROVE KeyInv'
<1> USE DEF KeyInv, Tick, Promise!Tick, Manager, KeyAssumption
<1>1. call' \in [Threads -> Promise!Call \cup {Promise!NoCall}] /\ \A u \in Threads : GoesOn(u)
  BY WatchSees
<1>2. Types'
  BY <1>1 DEF Types
<1>3. StoreInv'
  BY DEF StoreInv, Good, Promise!GoodAt, Types
<1>4. IssueInv'
  BY DEF IssueInv, Issuing, Types
<1>5. CallInv'
  BY <1>1 DEF CallInv, Checking, GoesOn
<1>6. EntryInv'
  BY <1>1 DEF EntryInv, CallInv, Checking, GoesOn, Types
<1> QED
  BY <1>2, <1>3, <1>4, <1>5, <1>6

\* The sweep may be late, never early: what it removes has expired.
LEMMA Sweeps ==
  ASSUME KeyAssumption, KeyInv, Sweep
  PROVE KeyInv'
<1> USE DEF KeyInv, Sweep, history
<1>1. Types'
  BY DEF Types
<1>2. Good' = Good
  BY DEF Good, Promise!GoodAt
<1>3. Sweepable(sweeper.time) \cap Good = {}
  BY DEF Sweepable, Good, Promise!GoodAt, Types, StoreInv
<1>4. StoreInv'
  BY <1>2, <1>3 DEF StoreInv, Without
<1>5. IssueInv' /\ CallInv' /\ EntryInv'
  BY <1>2 DEF IssueInv, Issuing, CallInv, Checking, EntryInv
<1> QED
  BY <1>1, <1>4, <1>5

\* Steps that touch neither the store nor a call.
LEMMA OthersKeep ==
  ASSUME KeyInv, Wake \/ Stop \/ UNCHANGED vars
  PROVE KeyInv'
<1> USE DEF KeyInv, Wake, Stop, vars, history
<1>1. Types'
  BY DEF Types
<1>2. Good' = Good
  BY DEF Good, Promise!GoodAt
<1> QED
  BY <1>1, <1>2 DEF StoreInv, IssueInv, Issuing, CallInv, Checking, EntryInv

-----------------------------------------------------------------------------
(* Implementation                                                          *)

LEMMA KeyInvariant ==
  ASSUME KeyAssumption, KeyInv, [Next]_vars
  PROVE KeyInv'
<1>1. ASSUME NEW t \in Threads, NEW k \in 1 .. drawn, Revoke(t, k)
      PROVE KeyInv'
  <2>1. {k} \in SUBSET DOMAIN store
    BY <1>1 DEF Revoke
  <2> QED
    BY <1>1, <2>1, Revokes DEF Revoke, Manager
<1>2. ASSUME Clear
      PROVE KeyInv'
  <2>1. store' = Without(DOMAIN store)
    BY <1>2 DEF Clear, Without
  <2> QED
    BY <1>2, <2>1, Revokes DEF Clear, Manager
<1> QED
  BY <1>1, <1>2, Draws, Puts, Validates, Gets, Checks, Pops, Ticks, Sweeps, OthersKeep
     DEF Next, Step, SweepThread

\* A yes is given for an entry that was read from the store before it expired, a no for
\* one that was not there or had expired.
LEMMA Answers ==
  ASSUME KeyInv, NEW t \in Threads, NEW yes \in BOOLEAN, Return(t, yes), UNCHANGED now,
         \/ yes = TRUE /\ thread[t].pc = "check" /\ now < thread[t].expiry
         \/ yes = FALSE /\ Checking(t) /\ thread[t].id \notin Good
  PROVE Promise!Next
<1>1. Checking(t)
  BY DEF Checking
<1>2. call[t] # Promise!NoCall /\ call[t].id = thread[t].id
  BY <1>1 DEF KeyInv, CallInv
<1>3. IF yes THEN call[t].sawGood ELSE call[t].sawBad
  BY <1>1, <1>2 DEF KeyInv, CallInv, EntryInv
<1>4. Promise!Answer(t, yes)
  BY <1>2, <1>3 DEF Return, Promise!Answer
<1> QED
  BY <1>4 DEF Promise!Next

LEMMA StepImplements ==
  ASSUME KeyAssumption, KeyInv, [Next]_vars
  PROVE [Promise!Next]_(Promise!vars)
<1> USE DEF KeyInv, Manager, KeyAssumption
<1>1. ASSUME NEW t \in Threads, DrawKey(t)
      PROVE UNCHANGED Promise!vars
  BY <1>1 DEF DrawKey, history, Promise!vars
<1>2. ASSUME NEW t \in Threads, PutKey(t)
      PROVE Promise!Next
  <2>1. thread[t].id \in Ids /\ thread[t].expiry \in 0 .. now + TTL
    BY <1>2 DEF PutKey, IssueInv, Issuing, Types, Ids
  <2> QED
    BY <1>2, <2>1 DEF PutKey, Promise!Next
<1>3. ASSUME NEW t \in Threads, NEW k \in 1 .. drawn, Validate(t, k)
      PROVE Promise!Next
  <2>1. k \in Ids
    BY DEF Types, Ids
  <2> QED
    BY <1>3, <2>1 DEF Validate, Promise!Next
<1>4. ASSUME NEW t \in Threads, GetEntry(t)
      PROVE [Promise!Next]_(Promise!vars)
  <2>1. CASE thread[t].id \in DOMAIN store
    BY <1>4, <2>1 DEF GetEntry, history, Promise!vars
  <2>2. CASE thread[t].id \notin DOMAIN store
    <3>1. Checking(t) /\ thread[t].id \notin Good
      BY <1>4, <2>2 DEF GetEntry, Checking, StoreInv
    <3> QED
      BY <1>4, <2>2, <3>1, Answers DEF GetEntry
  <2> QED
    BY <2>1, <2>2
<1>5. ASSUME NEW t \in Threads, CheckExpiry(t)
      PROVE [Promise!Next]_(Promise!vars)
  <2>1. CASE now >= thread[t].expiry
    BY <1>5, <2>1 DEF CheckExpiry, history, Promise!vars
  <2>2. CASE ~(now >= thread[t].expiry)
    <3>1. now < thread[t].expiry
      BY <2>2 DEF Types
    <3> QED
      BY <1>5, <2>2, <3>1, Answers DEF CheckExpiry
  <2> QED
    BY <2>1, <2>2
<1>6. ASSUME NEW t \in Threads, PopExpired(t)
      PROVE Promise!Next
  <2>1. Checking(t) /\ thread[t].id \notin Good
    BY <1>6 DEF PopExpired, Checking, EntryInv, Types, StoreInv, Good, Promise!GoodAt
  <2> QED
    BY <1>6, <2>1, Answers DEF PopExpired
<1>7. ASSUME NEW t \in Threads, NEW k \in 1 .. drawn, Revoke(t, k)
      PROVE Promise!Next
  <2>1. {k} \in SUBSET Ids
    BY DEF Types, Ids
  <2> QED
    BY <1>7, <2>1 DEF Revoke, Promise!Next
<1>8. ASSUME Clear
      PROVE Promise!Next
  <2>1. DOMAIN store \in SUBSET Ids
    BY DEF Types, StoreInv, Ids
  <2> QED
    BY <1>8, <2>1 DEF Clear, Promise!Next
<1>9. ASSUME Tick
      PROVE Promise!Next
  BY <1>9 DEF Tick, Promise!Next
<1>10. ASSUME SweepThread \/ Stop \/ UNCHANGED vars
       PROVE UNCHANGED Promise!vars
  BY <1>10 DEF SweepThread, Wake, Sweep, Stop, vars, history, Promise!vars
<1> QED
  BY <1>1, <1>2, <1>3, <1>4, <1>5, <1>6, <1>7, <1>8, <1>9, <1>10 DEF Next, Step

\* KeyManager implements ExpiringStore: a key is validated only if it was good at some
\* moment of the call and refused only if it was not, for any number of threads and
\* keys, whatever the sweep, revocations and stop do meanwhile (issue_key, validate_key,
\* revoke_key, _sweep, stop).
THEOREM Implements == ASSUME KeyAssumption PROVE Spec => KeepsPromise
<1>1. Init => KeyInv /\ Promise!Init
  BY Begins DEF Init
<1>2. KeyInv /\ [Next]_vars => KeyInv'
  BY KeyInvariant
<1>3. KeyInv /\ [Next]_vars => [Promise!Next]_(Promise!vars)
  BY StepImplements
<1> QED
  BY <1>1, <1>2, <1>3, PTL DEF Spec, KeepsPromise, Promise!Spec

-----------------------------------------------------------------------------
(* What the dictionary of keys can hold                                    *)

\* A key expires TTL after it was drawn.
KeyBounds ==
  /\ \A t \in Threads : thread[t].id \in 0 .. drawn /\ thread[t].expiry \in 0 .. now + TTL
  /\ \A t \in Threads : Issuing(t) => thread[t].expiry >= TTL
  /\ \A k \in DOMAIN deadline : deadline[k] \in TTL .. now + TTL
  /\ stopped \in BOOLEAN

LEMMA KeysBegin == ASSUME KeyAssumption, Init PROVE KeyBounds
<1>1. /\ \A t \in Threads : thread[t] = Idle
      /\ now = 0 /\ drawn = 0 /\ deadline = <<>> /\ stopped = FALSE /\ TTL \in Nat
  BY DEF Init, Promise!Init, KeyAssumption
<1>2. Idle.pc # "issue" /\ Idle.id = 0 /\ Idle.expiry = 0
  BY DEF Idle, NoId
<1>3. \A k \in DOMAIN deadline : FALSE
  BY <1>1
<1>4. stopped \in BOOLEAN
  BY <1>1
<1> QED
  BY <1>1, <1>2, <1>3, <1>4 DEF KeyBounds, Issuing

\* One thread moves, to a state that is in bounds, and the clock stands still.
LEMMA ThreadMoves ==
  ASSUME KeyAssumption, KeyInv, KeyBounds, NEW t \in Threads, NEW st, Goto(t, st),
         st.id \in 0 .. drawn, st.expiry \in 0 .. now + TTL, st.pc # "issue",
         UNCHANGED <<now, drawn, stopped, deadline>>
  PROVE  KeyBounds'
<1>1. thread'[t] = st /\ \A u \in Threads \ {t} : thread'[u] = thread[u]
  BY DEF Goto, KeyInv, Types
<1> QED
  BY <1>1 DEF KeyBounds, Issuing

LEMMA KeysBounded ==
  ASSUME KeyAssumption, KeyInv, KeyBounds, [Next]_vars
  PROVE  KeyBounds'
<1>0. /\ now \in Nat /\ drawn \in Nat /\ TTL \in Nat
      /\ \A t \in Threads : thread[t] \in [pc : Pcs, id : Nat, expiry : Nat]
      /\ thread \in [Threads -> [pc : Pcs, id : Nat, expiry : Nat]]
  BY DEF KeyInv, Types, KeyAssumption
<1>a. /\ Idle.pc # "issue" /\ Idle.id \in 0 .. drawn /\ Idle.expiry \in 0 .. now + TTL
  BY <1>0 DEF Idle, NoId
<1>1. ASSUME NEW t \in Threads, DrawKey(t) PROVE KeyBounds'
  <2>1. /\ thread'[t] = [pc |-> "issue", id |-> drawn + 1, expiry |-> now + TTL]
        /\ \A u \in Threads \ {t} : thread'[u] = thread[u]
        /\ drawn' = drawn + 1 /\ UNCHANGED <<now, stopped, deadline>>
    BY <1>0, <1>1 DEF DrawKey, Goto, NewExpiry, history
  <2>2. thread'[t].id \in 0 .. drawn' /\ thread'[t].expiry \in 0 .. now + TTL
        /\ thread'[t].expiry >= TTL
    BY <1>0, <2>1
  <2> QED
    BY <1>0, <2>1, <2>2 DEF KeyBounds, Issuing
<1>2. ASSUME NEW t \in Threads, PutKey(t) PROVE KeyBounds'
  <2>1. /\ thread'[t] = Idle /\ \A u \in Threads \ {t} : thread'[u] = thread[u]
        /\ UNCHANGED <<now, drawn, stopped>>
    BY <1>0, <1>2 DEF PutKey, Goto, Manager, Promise!Issue
  <2>2. \A k \in DOMAIN deadline' : deadline'[k] \in TTL .. now + TTL
    <3>1. thread[t].expiry \in TTL .. now + TTL
      BY <1>0, <1>2 DEF PutKey, KeyBounds, Issuing
    <3> QED
      BY <1>2, <3>1 DEF PutKey, Promise!Issue, KeyBounds
  <2> QED
    BY <1>a, <2>1, <2>2 DEF KeyBounds, Issuing
<1>3. ASSUME NEW t \in Threads, NEW k \in 1 .. drawn, Validate(t, k) PROVE KeyBounds'
  <2> DEFINE st == [Idle EXCEPT !.pc = "get", !.id = k]
  <2>1. Goto(t, st) /\ UNCHANGED <<now, drawn, stopped, deadline>>
    BY <1>3 DEF Validate, Manager, Promise!Begin
  <2>2. st.pc # "issue" /\ st.id \in 0 .. drawn /\ st.expiry \in 0 .. now + TTL
    BY <1>0 DEF Idle
  <2> HIDE DEF st
  <2> QED
    BY <2>1, <2>2, ThreadMoves
<1>4. ASSUME NEW t \in Threads, NEW yes, Return(t, yes), UNCHANGED <<now, drawn, stopped>>
      PROVE  KeyBounds'
  BY <1>4, <1>a, ThreadMoves DEF Return
<1>5. ASSUME NEW t \in Threads, GetEntry(t) PROVE KeyBounds'
  <2>1. CASE thread[t].id \notin DOMAIN store
    BY <1>4, <1>5, <2>1 DEF GetEntry, Manager
  <2>2. CASE thread[t].id \in DOMAIN store
    <3> DEFINE x == store[thread[t].id]
               st == [thread[t] EXCEPT !.pc = "check", !.expiry = x]
    <3>1. Goto(t, st) /\ UNCHANGED <<now, drawn, stopped, deadline>>
      BY <1>5, <2>2 DEF GetEntry, Manager, history
    <3>2. x \in 0 .. now + TTL
      BY <1>0, <2>2 DEF KeyBounds, KeyInv, StoreInv
    <3>3. thread[t].id \in 0 .. drawn
      BY DEF KeyBounds
    <3>4. st.pc # "issue" /\ st.id = thread[t].id /\ st.expiry = x
      BY <1>0
    <3> HIDE DEF st, x
    <3> QED
      BY <3>1, <3>2, <3>3, <3>4, ThreadMoves
  <2> QED
    BY <2>1, <2>2
<1>6. ASSUME NEW t \in Threads, CheckExpiry(t) PROVE KeyBounds'
  <2>1. CASE ~(now >= thread[t].expiry)
    BY <1>4, <1>6, <2>1 DEF CheckExpiry, Manager
  <2>2. CASE now >= thread[t].expiry
    <3> DEFINE st == [thread[t] EXCEPT !.pc = "pop"]
    <3>1. Goto(t, st) /\ UNCHANGED <<now, drawn, stopped, deadline>>
      BY <1>6, <2>2 DEF CheckExpiry, Manager, history
    <3>2. thread[t].id \in 0 .. drawn /\ thread[t].expiry \in 0 .. now + TTL
      BY DEF KeyBounds
    <3>3. st.pc # "issue" /\ st.id = thread[t].id /\ st.expiry = thread[t].expiry
      BY <1>0
    <3> HIDE DEF st
    <3> QED
      BY <3>1, <3>2, <3>3, ThreadMoves
  <2> QED
    BY <2>1, <2>2
<1>7. ASSUME NEW t \in Threads, PopExpired(t) PROVE KeyBounds'
  BY <1>4, <1>7 DEF PopExpired, Manager
<1>8. ASSUME \/ \E t \in Threads, k \in 1 .. drawn : Revoke(t, k)
             \/ SweepThread \/ Clear
      PROVE  KeyBounds'
  BY <1>8 DEF Revoke, SweepThread, Wake, Sweep, Clear, Manager, Promise!Revoke, history,
     KeyBounds, Issuing
<1>9. CASE Stop \/ UNCHANGED vars
  BY <1>9 DEF Stop, vars, history, KeyBounds, Issuing
<1>10. CASE Tick
  <2>1. UNCHANGED <<thread, drawn, stopped, deadline>> /\ now' = now + 1
    BY <1>10 DEF Tick, Promise!Tick, Manager
  <2>2. 0 .. now + TTL \subseteq 0 .. now' + TTL /\ TTL .. now + TTL \subseteq TTL .. now' + TTL
    BY <1>0, <2>1
  <2> QED
    BY <2>1, <2>2 DEF KeyBounds, Issuing
<1> QED
  BY <1>1, <1>2, <1>3, <1>5, <1>6, <1>7, <1>8, <1>9, <1>10 DEF Next, Step

LEMMA KeysTyped == ASSUME KeyInv, KeyBounds PROVE TypeOK
<1>1. thread \in [Threads -> [pc : Pcs, id : 0 .. drawn, expiry : 0 .. now + TTL]]
  <2>1. \A t \in Threads : thread[t] \in [pc : Pcs, id : 0 .. drawn, expiry : 0 .. now + TTL]
    BY DEF KeyInv, Types, KeyBounds
  <2> QED
    BY <2>1 DEF KeyInv, Types
<1>2. sweeper \in [pc : {"wait", "sweep", "ended"}, time : 0 .. now]
  BY DEF KeyInv, Types
<1> QED
  BY <1>1, <1>2 DEF TypeOK, KeyInv, Types, StoreInv, KeyBounds

-----------------------------------------------------------------------------
(* Numbers                                                                 *)

\* Every set of numbers that is not empty has a least one.
LEMMA LeastNumber == ASSUME NEW S \in SUBSET Nat, S # {} PROVE \E n \in S : \A m \in S : n <= m
<1> DEFINE upTo == {0 .. n : n \in S}
<1>1. upTo \subseteq FiniteSubsetsOf(Nat)
  <2>1. ASSUME NEW n \in S PROVE 0 .. n \in SUBSET Nat /\ IsFiniteSet(0 .. n)
    BY FS_Interval
  <2> QED BY <2>1 DEF FiniteSubsetsOf
<1>2. upTo # {}
  OBVIOUS
<1>3. PICK x \in upTo : \A y \in upTo : <<y, x>> \notin StrictSubsetOrdering(Nat)
  BY <1>1, <1>2, WFMin, FS_StrictSubsetOrderingWellFounded
<1>4. PICK n \in S : x = 0 .. n
  OBVIOUS
<1>5. ASSUME NEW m \in S, m < n PROVE FALSE
  <2>1. 0 .. m \subseteq 0 .. n /\ n \in 0 .. n /\ n \notin 0 .. m
    BY <1>5
  <2>2. <<0 .. m, x>> \in StrictSubsetOrdering(Nat)
    BY <1>4, <2>1 DEF StrictSubsetOrdering
  <2> QED BY <1>3, <2>2
<1> QED BY <1>5

-----------------------------------------------------------------------------
(* Ways up                                                                 *)

\* A set of inodes that has, with an inode, its parent.
Closed(f, S) == S \subseteq DOMAIN f /\ \A m \in S : f[m].parent # 0 => f[m].parent \in S

\* What every such set with n has.
WayUp(f, n) == {m \in DOMAIN f : \A S \in SUBSET DOMAIN f : Closed(f, S) /\ n \in S => m \in S}

LEMMA AboveIs == \A n : Tree!Above(n) = WayUp(node, n)
BY DEF Tree!Above, Tree!None, WayUp, Closed

\* Parents that exist are directories, and only the root has none.
Parented(f) ==
  /\ 1 \in DOMAIN f /\ 0 \notin DOMAIN f
  /\ \A n \in DOMAIN f : /\ f[n].parent = 0 <=> n = 1
                         /\ f[n].parent # 0 => f[n].parent \in DOMAIN f /\ f[f[n].parent].dir

\* Every way up ends at the root.
Rooted(f) == \A S \in SUBSET DOMAIN f : Closed(f, S) /\ S # {} => 1 \in S

LEMMA WayUpIs ==
  ASSUME NEW f, Parented(f), NEW n \in DOMAIN f
  PROVE  /\ n \in WayUp(f, n) /\ Closed(f, WayUp(f, n))
         /\ \A S : Closed(f, S) /\ n \in S => WayUp(f, n) \subseteq S
         /\ f[n].parent # 0 => f[n].parent \in WayUp(f, n)
<1>1. n \in WayUp(f, n)
  BY DEF WayUp
<1>2. Closed(f, WayUp(f, n))
  <2>1. ASSUME NEW m \in WayUp(f, n), f[m].parent # 0 PROVE f[m].parent \in WayUp(f, n)
    <3>1. m \in DOMAIN f /\ f[m].parent \in DOMAIN f
      BY <2>1 DEF WayUp, Parented
    <3>2. ASSUME NEW S \in SUBSET DOMAIN f, Closed(f, S), n \in S PROVE f[m].parent \in S
      <4>1. m \in S
        BY <3>2 DEF WayUp
      <4> QED BY <2>1, <3>2, <4>1 DEF Closed
    <3> QED BY <3>1, <3>2 DEF WayUp
  <2> QED BY <2>1 DEF Closed, WayUp
<1>3. \A S : Closed(f, S) /\ n \in S => WayUp(f, n) \subseteq S
  BY DEF WayUp, Closed
<1> QED BY <1>1, <1>2, <1>3 DEF Closed

\* What is above an inode above n is above n.
LEMMA WayUpGoesOn ==
  ASSUME NEW f, Parented(f), NEW n \in DOMAIN f, NEW m \in WayUp(f, n)
  PROVE  m \in DOMAIN f /\ WayUp(f, m) \subseteq WayUp(f, n)
<1>1. m \in DOMAIN f
  BY DEF WayUp
<1> QED BY <1>1, WayUpIs

\* What is above an inode, and not itself, is above its parent.
LEMMA ParentNext ==
  ASSUME NEW f, Parented(f), NEW n \in DOMAIN f, NEW m \in WayUp(f, n), m # n
  PROVE  f[n].parent # 0 /\ f[n].parent \in DOMAIN f /\ m \in WayUp(f, f[n].parent)
<1> DEFINE p == f[n].parent
<1>1. p # 0
  <2>1. ASSUME p = 0 PROVE FALSE
    <3>1. Closed(f, {n})
      BY <2>1 DEF Closed
    <3> QED BY <3>1, WayUpIs
  <2> QED BY <2>1
<1>2. p \in DOMAIN f
  BY <1>1 DEF Parented
<1>3. Closed(f, {n} \cup WayUp(f, p))
  BY <1>2, WayUpIs DEF Closed
<1>4. WayUp(f, n) \subseteq {n} \cup WayUp(f, p)
  BY <1>3, WayUpIs
<1> QED BY <1>1, <1>2, <1>4

\* No two inodes are above one another.
LEMMA NoCircle ==
  ASSUME NEW f, Parented(f), Rooted(f), NEW n \in DOMAIN f, NEW m \in WayUp(f, n), n \in WayUp(f, m)
  PROVE  m = n
<1> SUFFICES ASSUME m # n PROVE FALSE
  OBVIOUS
<1> DEFINE p == f[n].parent
           S == {x \in WayUp(f, n) : n \in WayUp(f, x)}
<1>1. p # 0 /\ p \in DOMAIN f /\ m \in WayUp(f, p)
  BY ParentNext
<1>2. n \in WayUp(f, p) /\ p \in WayUp(f, n)
  BY <1>1, WayUpGoesOn, WayUpIs
<1>3. ASSUME NEW x \in S, f[x].parent # 0 PROVE f[x].parent \in S
  <2>1. x \in DOMAIN f /\ f[x].parent \in WayUp(f, n)
    BY <1>3, WayUpIs, WayUpGoesOn DEF Closed
  <2>2. CASE x = n
    BY <1>2, <2>2
  <2>3. CASE x # n
    BY <2>1, <2>3, ParentNext
  <2> QED BY <2>2, <2>3
<1>4. Closed(f, S) /\ n \in S
  BY <1>3, WayUpIs DEF Closed, WayUp
<1>5. 1 \in S
  BY <1>4 DEF Rooted, Closed
<1>6. f[1].parent = 0 /\ 1 \in DOMAIN f
  BY DEF Parented
<1>7. n = 1
  BY <1>5, <1>6, ParentNext
<1> QED BY <1>1, <1>6, <1>7

\* Of inodes above n one has all the others above it.
LEMMA OneIsClosest ==
  ASSUME NEW f, Parented(f), NEW n \in DOMAIN f, NEW H \in SUBSET WayUp(f, n), H # {}
  PROVE  \E m \in H : H \subseteq WayUp(f, m)
<1> SUFFICES ASSUME \A m \in H : ~(H \subseteq WayUp(f, m)) PROVE FALSE
  OBVIOUS
<1> DEFINE S == {y \in WayUp(f, n) : H \subseteq WayUp(f, y)}
<1>1. ASSUME NEW y \in S, f[y].parent # 0 PROVE f[y].parent \in S
  <2>1. y \in DOMAIN f /\ y \notin H /\ f[y].parent \in WayUp(f, n)
    BY <1>1, WayUpIs, WayUpGoesOn DEF Closed
  <2>2. \A h \in H : h \in WayUp(f, f[y].parent)
    BY <2>1, ParentNext
  <2> QED BY <2>1, <2>2
<1>2. Closed(f, S) /\ n \in S
  BY <1>1, WayUpIs DEF Closed, WayUp
<1>3. WayUp(f, n) \subseteq S
  BY <1>2, WayUpIs
<1> QED BY <1>3

-----------------------------------------------------------------------------
(* The tree                                                                *)

TreeInv == Tree!TypeOK /\ Parented(node) /\ Rooted(node)

TreeAssumptions == Tree!RolesAssumption /\ Tree!BoundsAssumption

LEMMA TreeGiven == TreeAssumptions
BY TreeConstants DEF TreeAssumptions

LEMMA TreeBegins == ASSUME Tree!Init PROVE TreeInv
<1>1. node = [n \in {1} |-> [parent |-> 0, dir |-> TRUE, owner |-> "system"]] /\ acl = <<>> /\ lastId = 1 /\ chmods = 0
  BY DEF Tree!Init, Tree!RootId, Tree!None
<1>2. Parented(node)
  BY <1>1 DEF Parented
<1>3. Rooted(node)
  BY <1>1 DEF Rooted, Closed
<1>4. Tree!TypeOK
  BY <1>1, TreeGiven DEF TreeAssumptions, Tree!BoundsAssumption, Tree!TypeOK, Tree!None
<1> QED BY <1>2, <1>3, <1>4 DEF TreeInv

LEMMA TreeTyped ==
  ASSUME TreeInv
  PROVE  /\ DOMAIN node \subseteq 1 .. lastId /\ lastId \in 1 .. MaxNodes
         /\ \A n \in DOMAIN node :
              node[n] \in [parent : DOMAIN node \cup {0}, dir : BOOLEAN, owner : Users \cup {"system"}]
         /\ DOMAIN acl \subseteq Tree!Keys
         /\ \A k \in DOMAIN acl : acl[k] \in Tree!Actions /\ k[1] \in DOMAIN node
         /\ chmods \in 0 .. MaxChmods /\ Parented(node) /\ Rooted(node)
         /\ MaxNodes \in Nat \ {0} /\ MaxChmods \in Nat
BY TreeGiven DEF TreeInv, Tree!TypeOK, Tree!None, TreeAssumptions, Tree!BoundsAssumption

\* New inodes under inodes that exist.
LEMMA TreeGrows ==
  ASSUME TreeInv, NEW rows, Len(rows) \in Nat, Tree!Insert(rows),
         \A i \in 1 .. Len(rows) :
           /\ rows[i] \in [parent : Nat, dir : BOOLEAN, owner : Users]
           /\ \/ rows[i].parent \in DOMAIN node /\ node[rows[i].parent].dir
              \/ \E j \in 1 .. i - 1 : rows[i].parent = lastId + j /\ rows[j].dir
  PROVE  TreeInv'
<1> DEFINE l == lastId
           k == Len(rows)
<1>1. /\ l \in Nat /\ l > 0 /\ DOMAIN node \subseteq 1 .. l /\ k \in Nat /\ l + k <= MaxNodes /\ lastId' = l + k
      /\ MaxNodes \in Nat
  BY TreeTyped DEF Tree!Insert
<1>2. /\ DOMAIN node' = DOMAIN node \cup (l + 1 .. l + k)
      /\ \A n \in DOMAIN node : node'[n] = node[n]
      /\ \A i \in 1 .. k : l + i \in DOMAIN node' /\ node'[l + i] = rows[i]
      /\ \A n \in DOMAIN node' \ DOMAIN node : n - l \in 1 .. k /\ n = l + (n - l) /\ n > l
      /\ UNCHANGED <<acl, chmods>>
  BY <1>1 DEF Tree!Insert
<1> HIDE DEF l, k
<1>3. \A i \in 1 .. k : \/ (rows[i].parent \in DOMAIN node /\ node[rows[i].parent].dir)
                         \/ (\E j \in 1 .. i - 1 : rows[i].parent = l + j /\ rows[j].dir)
  BY DEF l, k
<1>a. \A i \in 1 .. k : i \in Nat /\ l + i > l /\ \A j \in 1 .. i - 1 : j \in 1 .. k /\ l + j > l /\ j < i
  BY <1>1
<1>b. \A i \in 1 .. k : rows[i] \in [parent : Nat, dir : BOOLEAN, owner : Users]
  BY DEF k
<1>4. Parented(node')
  <2>1. 1 \in DOMAIN node' /\ 0 \notin DOMAIN node'
    BY <1>1, <1>2, TreeTyped DEF Parented
  <2>2. ASSUME NEW n \in DOMAIN node
        PROVE  /\ node'[n].parent = 0 <=> n = 1
               /\ node'[n].parent # 0 => node'[n].parent \in DOMAIN node' /\ node'[node'[n].parent].dir
    BY <1>2, TreeTyped DEF Parented
  <2>3. ASSUME NEW i \in 1 .. k
        PROVE  /\ node'[l + i].parent # 0 /\ l + i # 1
               /\ node'[l + i].parent \in DOMAIN node' /\ node'[node'[l + i].parent].dir
    <3>1. node'[l + i] = rows[i] /\ l + i # 1
      <4>1. l + i # 1
        BY <1>1, <1>a
      <4> QED BY <1>2, <4>1
    <3>2. CASE rows[i].parent \in DOMAIN node /\ node[rows[i].parent].dir
      BY <1>2, <3>1, <3>2, TreeTyped DEF Parented
    <3>3. ASSUME NEW j \in 1 .. i - 1, rows[i].parent = l + j, rows[j].dir
          PROVE  node'[l + i].parent # 0 /\ node'[l + i].parent \in DOMAIN node' /\ node'[node'[l + i].parent].dir
      <4>1. j \in 1 .. k /\ l + j # 0
        BY <1>1, <1>a
      <4> QED BY <1>2, <3>1, <3>3, <4>1
    <3> QED BY <1>3, <3>1, <3>2, <3>3
  <2>4. ASSUME NEW n \in DOMAIN node' \ DOMAIN node
        PROVE  /\ node'[n].parent # 0 /\ n # 1
               /\ node'[n].parent \in DOMAIN node' /\ node'[node'[n].parent].dir
    <3> DEFINE i == n - l
    <3>1. i \in 1 .. k /\ n = l + i
      BY <1>2
    <3> HIDE DEF i
    <3> QED BY <2>3, <3>1
  <2> QED BY <2>1, <2>2, <2>4 DEF Parented
<1>5. Rooted(node')
  <2> SUFFICES ASSUME NEW S \in SUBSET DOMAIN node', Closed(node', S), S # {} PROVE 1 \in S
    BY DEF Rooted
  <2>1. Closed(node, S \cap DOMAIN node)
    BY <1>2, TreeTyped DEF Closed, Parented
  <2>2. S \cap DOMAIN node # {}
    <3> SUFFICES ASSUME S \cap DOMAIN node = {} PROVE FALSE
      OBVIOUS
    <3> DEFINE I == {i \in 1 .. k : l + i \in S}
    <3>1. I \in SUBSET Nat /\ I # {}
      <4>1. PICK n \in S : TRUE
        OBVIOUS
      <4>2. n \in DOMAIN node' \ DOMAIN node
        BY <4>1
      <4> QED BY <1>2, <4>2
    <3>2. PICK i \in I : \A j \in I : i <= j
      BY <3>1, LeastNumber
    <3>3. node'[l + i] = rows[i] /\ rows[i].parent # 0
      <4>1. i \in 1 .. k
        OBVIOUS
      <4>2. \A j \in 1 .. i - 1 : l + j # 0
        BY <1>1, <1>a, <4>1
      <4>3. 0 \notin DOMAIN node
        BY TreeTyped DEF Parented
      <4> QED BY <1>2, <1>3, <4>1, <4>2, <4>3
    <3>4. rows[i].parent \in S
      BY <3>3 DEF Closed
    <3>5. PICK j \in 1 .. i - 1 : rows[i].parent = l + j
      BY <1>3, <3>4
    <3>6. j \in I /\ j < i
      BY <1>a, <3>4, <3>5
    <3>7. i \in Nat /\ j \in Nat /\ i <= j
      BY <3>1, <3>2, <3>6
    <3> QED BY <3>6, <3>7
  <2> QED BY <2>1, <2>2, TreeTyped DEF Rooted
<1>6. Tree!TypeOK'
  <2>1. DOMAIN node' \subseteq 1 .. lastId' /\ lastId' \in 1 .. MaxNodes
    BY <1>1, <1>2
  <2>2. ASSUME NEW n \in DOMAIN node'
        PROVE  node'[n] \in [parent : DOMAIN node' \cup {0}, dir : BOOLEAN, owner : Users \cup {"system"}]
    <3>1. CASE n \in DOMAIN node
      BY <1>2, <3>1, TreeTyped
    <3>2. CASE n \notin DOMAIN node
      <4> DEFINE i == n - l
      <4>1. i \in 1 .. k /\ node'[n] = rows[i]
        BY <1>2, <3>2
      <4> HIDE DEF i
      <4>2. \A j \in 1 .. i - 1 : l + j \in DOMAIN node'
        BY <1>2, <1>a, <4>1
      <4>3. rows[i].parent \in DOMAIN node'
        BY <1>2, <1>3, <4>1, <4>2
      <4> QED BY <1>b, <4>1, <4>3
    <3> QED BY <3>1, <3>2
  <2>3. DOMAIN acl' \subseteq Tree!Keys /\ \A x \in DOMAIN acl' : acl'[x] \in Tree!Actions /\ x[1] \in DOMAIN node'
    BY <1>2, TreeTyped
  <2>4. chmods' \in 0 .. MaxChmods
    BY <1>2, TreeTyped
  <2>5. Tree!Keys' = Tree!Keys /\ Tree!Actions' = Tree!Actions
    BY DEF Tree!Keys, Tree!Actions, Tree!AclPerms
  <2> QED BY <2>1, <2>2, <2>3, <2>4, <2>5 DEF Tree!TypeOK, Tree!None
<1> QED BY <1>4, <1>5, <1>6 DEF TreeInv

LEMMA TreeAdds ==
  ASSUME TreeInv, NEW u \in Users, NEW p \in DOMAIN node, Tree!Mkdir(u, p) \/ Tree!Send(u, p)
  PROVE  TreeInv'
<1>1. node[p].dir /\ p \in Nat /\ lastId \in Nat
  BY TreeTyped DEF Tree!Mkdir, Tree!Send
<1> DEFINE new(q, dir) == [parent |-> q, dir |-> dir, owner |-> u]
<1>2. ASSUME NEW dir \in BOOLEAN, Tree!Insert(<<new(p, dir)>>) PROVE TreeInv'
  <2> DEFINE rows == <<new(p, dir)>>
  <2>1. Len(rows) = 1 /\ rows[1] = new(p, dir)
    OBVIOUS
  <2>2. new(p, dir) \in [parent : Nat, dir : BOOLEAN, owner : Users] /\ new(p, dir).parent = p
    BY <1>1
  <2> HIDE DEF rows, new
  <2>3. \A i \in 1 .. Len(rows) : /\ rows[i] \in [parent : Nat, dir : BOOLEAN, owner : Users]
                                 /\ rows[i].parent \in DOMAIN node /\ node[rows[i].parent].dir
    BY <1>1, <2>1, <2>2
  <2>4. Tree!Insert(rows) /\ Len(rows) \in Nat
    BY <1>2, <2>1 DEF rows
  <2> QED BY <2>3, <2>4, TreeGrows
<1>3. ASSUME Tree!Insert(<<new(p, TRUE), new(lastId + 1, TRUE)>>) PROVE TreeInv'
  <2> DEFINE rows == <<new(p, TRUE), new(lastId + 1, TRUE)>>
  <2>1. Len(rows) = 2 /\ rows[1] = new(p, TRUE) /\ rows[2] = new(lastId + 1, TRUE)
    OBVIOUS
  <2>2. \A q \in Nat : /\ new(q, TRUE) \in [parent : Nat, dir : BOOLEAN, owner : Users]
                       /\ new(q, TRUE).parent = q /\ new(q, TRUE).dir
    OBVIOUS
  <2>a. Tree!Insert(rows) /\ Len(rows) \in Nat
    BY <1>3, <2>1
  <2> HIDE DEF rows, new
  <2>3. /\ rows[1] \in [parent : Nat, dir : BOOLEAN, owner : Users]
        /\ rows[1].parent \in DOMAIN node /\ node[rows[1].parent].dir
    BY <1>1, <2>1, <2>2
  <2>4. /\ rows[2] \in [parent : Nat, dir : BOOLEAN, owner : Users]
        /\ rows[2].parent = lastId + 1 /\ rows[1].dir
    <3>1. lastId + 1 \in Nat
      BY <1>1
    <3>2. /\ new(lastId + 1, TRUE) \in [parent : Nat, dir : BOOLEAN, owner : Users]
          /\ new(lastId + 1, TRUE).parent = lastId + 1
      BY <2>2, <3>1
    <3>3. new(p, TRUE).dir
      BY <1>1, <2>2
    <3> QED BY <2>1, <3>2, <3>3
  <2>5. \A i \in 1 .. Len(rows) : i = 1 \/ i = 2
    BY <2>1
  <2>6. \A i \in 1 .. Len(rows) :
           /\ rows[i] \in [parent : Nat, dir : BOOLEAN, owner : Users]
           /\ \/ rows[i].parent \in DOMAIN node /\ node[rows[i].parent].dir
              \/ \E j \in 1 .. i - 1 : rows[i].parent = lastId + j /\ rows[j].dir
    <3>1. 1 \in 1 .. 2 - 1
      OBVIOUS
    <3> QED BY <2>3, <2>4, <2>5, <3>1
  <2> QED BY <2>a, <2>6, TreeGrows
<1> QED BY <1>2, <1>3 DEF Tree!Mkdir, Tree!Send, Tree!Row

\* The parents decide the shape.
LEMMA SameShape ==
  ASSUME NEW f, NEW g, DOMAIN g = DOMAIN f, Parented(f), Rooted(f),
         \A n \in DOMAIN f : g[n].parent = f[n].parent /\ g[n].dir = f[n].dir
  PROVE  Parented(g) /\ Rooted(g)
<1>1. \A S : Closed(g, S) <=> Closed(f, S)
  BY DEF Closed
<1> QED BY <1>1 DEF Parented, Rooted

LEMMA TreeOverwrites ==
  ASSUME TreeInv, NEW u \in Users, NEW n \in DOMAIN node, Tree!Overwrite(u, n) PROVE TreeInv'
<1>1. node' = [node EXCEPT ![n].owner = u] /\ UNCHANGED <<acl, lastId, chmods>>
  BY DEF Tree!Overwrite
<1>2. /\ DOMAIN node' = DOMAIN node /\ \A m \in DOMAIN node \ {n} : node'[m] = node[m]
      /\ node'[n] = [node[n] EXCEPT !.owner = u]
  BY <1>1
<1>3. /\ node'[n].parent = node[n].parent /\ node'[n].dir = node[n].dir
      /\ node'[n] \in [parent : DOMAIN node \cup {0}, dir : BOOLEAN, owner : Users \cup {"system"}]
  BY <1>2, TreeTyped
<1>4. Parented(node') /\ Rooted(node')
  BY <1>2, <1>3, TreeTyped, SameShape
<1>5. Tree!TypeOK'
  BY <1>1, <1>2, <1>3, TreeTyped DEF Tree!TypeOK, Tree!None, Tree!Keys, Tree!Actions, Tree!AclPerms
<1> QED BY <1>4, <1>5 DEF TreeInv

LEMMA TreeChmods ==
  ASSUME TreeInv, NEW u \in Users, NEW n \in DOMAIN node, NEW role \in Roles, NEW perm \in Tree!AclPerms,
         NEW action \in Tree!Actions, Tree!Chmod(u, n, role, perm, action)
  PROVE  TreeInv'
<1> DEFINE k == <<n, role, perm>>
<1>1. /\ UNCHANGED <<node, lastId>> /\ chmods < MaxChmods /\ chmods' = chmods + 1
      /\ acl' = [x \in DOMAIN acl \cup {k} |-> IF x = k THEN action ELSE acl[x]]
  BY DEF Tree!Chmod
<1>2. k \in Tree!Keys /\ k[1] = n
  <2>1. n \in 1 .. MaxNodes
    BY TreeTyped
  <2> QED BY <2>1 DEF Tree!Keys
<1> HIDE DEF k
<1>3. DOMAIN acl' \subseteq Tree!Keys /\ \A x \in DOMAIN acl' : acl'[x] \in Tree!Actions /\ x[1] \in DOMAIN node
  BY <1>1, <1>2, TreeTyped
<1>4. chmods' \in 0 .. MaxChmods
  BY <1>1, TreeTyped
<1>5. Tree!TypeOK'
  BY <1>1, <1>3, <1>4, TreeTyped DEF Tree!TypeOK, Tree!None, Tree!Keys, Tree!Actions, Tree!AclPerms
<1>6. Parented(node') /\ Rooted(node')
  BY <1>1, TreeTyped
<1> QED BY <1>5, <1>6 DEF TreeInv

\* A directory is not moved to a place below itself.
LEMMA TreeMoves ==
  ASSUME TreeInv, NEW u \in Users, NEW n \in DOMAIN node, NEW p \in DOMAIN node, Tree!Mv(u, n, p)
  PROVE  TreeInv'
<1>1. /\ n # 1 /\ node[p].dir /\ n \notin WayUp(node, p) /\ UNCHANGED <<acl, lastId, chmods>>
      /\ node' = [node EXCEPT ![n].parent = p]
  BY AboveIs DEF Tree!Mv, Tree!RootId, Tree!Below
<1>2. /\ DOMAIN node' = DOMAIN node /\ \A m \in DOMAIN node \ {n} : node'[m] = node[m]
      /\ node'[n] = [node[n] EXCEPT !.parent = p]
  BY <1>1
<1>3. /\ node'[n].parent = p /\ node'[n].dir = node[n].dir
      /\ node'[n] \in [parent : DOMAIN node \cup {0}, dir : BOOLEAN, owner : Users \cup {"system"}]
  BY <1>2, TreeTyped
<1>4. Parented(node')
  BY <1>1, <1>2, <1>3, TreeTyped DEF Parented
<1>5. Rooted(node')
  <2> SUFFICES ASSUME NEW S \in SUBSET DOMAIN node, Closed(node', S), S # {} PROVE 1 \in S
    BY <1>2 DEF Rooted
  <2>1. CASE n \notin S
    <3>1. Closed(node, S)
      BY <1>2, <2>1 DEF Closed
    <3> QED BY <3>1, TreeTyped DEF Rooted
  <2>2. CASE n \in S
    <3> DEFINE T == S \cap WayUp(node, p)
    <3>1. p \in T
      <4>1. p \in S
        BY <1>3, <2>2, TreeTyped DEF Closed, Parented
      <4> QED BY <4>1, WayUpIs, TreeTyped
    <3>2. Closed(node, T)
      <4>1. ASSUME NEW m \in T, node[m].parent # 0 PROVE node[m].parent \in T
        <5>1. m # n /\ m \in DOMAIN node
          BY <1>1
        <5>2. node[m].parent \in S
          BY <1>2, <4>1, <5>1 DEF Closed
        <5>3. node[m].parent \in WayUp(node, p)
          BY <4>1, WayUpIs, TreeTyped DEF Closed
        <5> QED BY <5>2, <5>3
      <4> QED BY <4>1 DEF Closed
    <3>3. 1 \in T
      BY <3>1, <3>2, TreeTyped DEF Rooted
    <3> QED BY <3>3
  <2> QED BY <2>1, <2>2
<1>6. Tree!TypeOK'
  BY <1>1, <1>2, <1>3, TreeTyped DEF Tree!TypeOK, Tree!None, Tree!Keys, Tree!Actions, Tree!AclPerms
<1> QED BY <1>4, <1>5, <1>6 DEF TreeInv

\* With an inode goes all that is below it, and nothing else.
LEMMA TreeShrinks ==
  ASSUME TreeInv, NEW u \in Users, NEW n \in DOMAIN node, Tree!Rm(u, n) PROVE TreeInv'
<1> DEFINE gone == Tree!Gone(n)
<1>1. /\ n # 1 /\ UNCHANGED <<lastId, chmods>> /\ node' = [m \in DOMAIN node \ gone |-> node[m]]
      /\ acl' = [k \in {j \in DOMAIN acl : j[1] \notin gone} |-> acl[k]]
  BY DEF Tree!Rm, Tree!RootId, Tree!AclWithout
<1>2. gone = {m \in DOMAIN node : n \in WayUp(node, m)}
  BY AboveIs DEF Tree!Gone, Tree!Below
<1> HIDE DEF gone
<1>3. 1 \notin gone
  <2>1. node[1].parent = 0 /\ 1 \in DOMAIN node
    BY TreeTyped DEF Parented
  <2>2. ASSUME n \in WayUp(node, 1) PROVE FALSE
    BY <1>1, <2>1, <2>2, ParentNext, TreeTyped
  <2> QED BY <1>2, <2>2
<1>4. \A m \in DOMAIN node \ gone : node[m].parent # 0 => node[m].parent \in DOMAIN node \ gone
  <2>1. ASSUME NEW m \in DOMAIN node \ gone, node[m].parent # 0 PROVE node[m].parent \in DOMAIN node \ gone
    <3>1. node[m].parent \in DOMAIN node /\ node[m].parent \in WayUp(node, m)
      BY <2>1, TreeTyped, WayUpIs DEF Parented
    <3>2. WayUp(node, node[m].parent) \subseteq WayUp(node, m)
      BY <3>1, TreeTyped, WayUpGoesOn
    <3> QED BY <1>2, <3>1, <3>2
  <2> QED BY <2>1
<1>5. DOMAIN node' = DOMAIN node \ gone /\ \A m \in DOMAIN node \ gone : node'[m] = node[m]
  BY <1>1
<1>6. Parented(node')
  BY <1>3, <1>4, <1>5, TreeTyped DEF Parented
<1>7. Rooted(node')
  <2>1. \A S : Closed(node', S) => Closed(node, S)
    BY <1>5 DEF Closed
  <2> QED BY <1>5, <2>1, TreeTyped DEF Rooted
<1>8. \A m \in DOMAIN node' :
        node'[m] \in [parent : DOMAIN node' \cup {0}, dir : BOOLEAN, owner : Users \cup {"system"}]
  BY <1>4, <1>5, TreeTyped
<1>9. DOMAIN acl' \subseteq Tree!Keys /\ \A k \in DOMAIN acl' : acl'[k] \in Tree!Actions /\ k[1] \in DOMAIN node'
  BY <1>1, <1>5, TreeTyped
<1>10. Tree!TypeOK'
  BY <1>1, <1>5, <1>8, <1>9, TreeTyped DEF Tree!TypeOK, Tree!None, Tree!Keys, Tree!Actions, Tree!AclPerms
<1> QED BY <1>6, <1>7, <1>10 DEF TreeInv

LEMMA TreeKeeps == ASSUME TreeInv, [Tree!Next]_treeVars PROVE TreeInv'
<1>1. CASE UNCHANGED treeVars
  BY <1>1, TreeTyped DEF treeVars, TreeInv, Tree!TypeOK, Tree!None, Tree!Keys, Tree!Actions, Tree!AclPerms
<1>2. CASE Tree!Next
  BY <1>2, TreeAdds, TreeOverwrites, TreeShrinks, TreeMoves, TreeChmods DEF Tree!Next
<1> QED BY <1>1, <1>2

-----------------------------------------------------------------------------
(* What the permissions promise                                            *)

\* What is shown is denied nowhere on its way up.
LEMMA ShownIsNotDenied ==
  ASSUME NEW u \in Users, RoleOf[u] # "Admin", NEW n \in DOMAIN node, Tree!Shown(u, n),
         NEW m \in WayUp(node, n)
  PROVE  ~Tree!Denied(m, RoleOf[u], "read")
<1>1. Tree!CheckAcl(n, RoleOf[u], "read", DefaultMode, TRUE)
  BY DEF Tree!Shown
<1>2. \A x \in Tree!Holders(n, RoleOf[u], "read") : acl[<<x, RoleOf[u], "read">>] # "deny"
  BY <1>1 DEF Tree!CheckAcl, Tree!Admin
<1> QED
  BY <1>2, AboveIs DEF Tree!Holders, Tree!Denied

\* What ls or tree shows passes the check itself.
LEMMA SeenIsShown ==
  ASSUME TreeInv, NEW u \in Users, NEW top, NEW m,
         m \in Tree!Listed(u, top) \/ m \in Tree!Drawn(u, top)
  PROVE  m \in DOMAIN node /\ Tree!Shown(u, m)
<1>1. CASE m \in Tree!Listed(u, top)
  BY <1>1 DEF Tree!Listed, Tree!Children
<1>2. CASE m \in Tree!Drawn(u, top)
  <2>1. /\ m \in Tree!Below(top)
        /\ Tree!Above(m) \cap Tree!Below(top) \subseteq {x \in Tree!Below(top) : Tree!Shown(u, x)}
    BY <1>2 DEF Tree!Drawn
  <2>2. m \in DOMAIN node /\ m \in Tree!Above(m)
    BY <2>1, AboveIs, WayUpIs, TreeTyped DEF Tree!Below
  <2> QED
    BY <2>1, <2>2
<1> QED
  BY <1>1, <1>2

LEMMA DenyHides == ASSUME TreeInv PROVE Tree!DenyHidesSubtree
<1> SUFFICES ASSUME NEW u \in Users, NEW d \in DOMAIN node, RoleOf[u] # "Admin",
                    Tree!Denied(d, RoleOf[u], "read"), NEW m \in Tree!Below(d),
                    NEW top \in DOMAIN node
             PROVE  m \notin Tree!Listed(u, top) /\ m \notin Tree!Drawn(u, top)
  BY DEF Tree!DenyHidesSubtree, Tree!Admin
<1>1. m \in DOMAIN node /\ d \in WayUp(node, m)
  BY AboveIs DEF Tree!Below
<1>2. ~Tree!Shown(u, m)
  BY <1>1, ShownIsNotDenied
<1> QED
  BY <1>2, SeenIsShown

\* Below a directory and not the directory itself: the parent is below it too, and a
\* directory, and above whatever the inode is above.
LEMMA ParentBelow ==
  ASSUME TreeInv, NEW top \in DOMAIN node, NEW m \in DOMAIN node, NEW x \in WayUp(node, m),
         top \in WayUp(node, x), x # top
  PROVE  /\ x \in DOMAIN node /\ node[x].parent \in DOMAIN node /\ node[node[x].parent].dir
         /\ top \in WayUp(node, node[x].parent) /\ node[x].parent \in WayUp(node, m)
<1>1. x \in DOMAIN node /\ WayUp(node, x) \subseteq WayUp(node, m)
  BY TreeTyped, WayUpGoesOn
<1>2. node[x].parent # 0 /\ node[x].parent \in DOMAIN node /\ top \in WayUp(node, node[x].parent)
  BY <1>1, TreeTyped, ParentNext
<1>3. node[x].parent \in WayUp(node, x)
  BY <1>1, <1>2, TreeTyped, WayUpIs
<1> QED
  BY <1>1, <1>2, <1>3, TreeTyped DEF Parented

\* On the way up to a directory one passes an entry of it.
LEMMA EntryOnTheWay ==
  ASSUME TreeInv, NEW top \in DOMAIN node, NEW m \in DOMAIN node, top \in WayUp(node, m), m # top
  PROVE  \E y \in WayUp(node, m) : top \in WayUp(node, y) /\ y # top /\ node[y].parent = top
<1> SUFFICES ASSUME \A y \in WayUp(node, m) :
                      top \in WayUp(node, y) /\ y # top => node[y].parent # top
             PROVE  FALSE
  OBVIOUS
<1> DEFINE S == {y \in WayUp(node, m) : top \in WayUp(node, y) /\ y # top}
<1>1. \A y \in S : y \in DOMAIN node /\ node[y].parent \in S
  BY ParentBelow
<1>2. Closed(node, S)
  BY <1>1 DEF Closed
<1>3. m \in S
  BY TreeTyped, WayUpIs
<1>4. WayUp(node, m) \subseteq S
  BY <1>2, <1>3, TreeTyped, WayUpIs
<1> QED
  BY <1>4

LEMMA TreeIsLs == ASSUME TreeInv PROVE Tree!TreeAgreesWithLs
<1> SUFFICES ASSUME NEW u \in Users, NEW top \in DOMAIN node
             PROVE  LET below == Tree!Below(top) \ {top}
                        listed == {x \in below : x \in Tree!Listed(u, node[x].parent)}
                    IN  Tree!Drawn(u, top) \ {top}
                          = {m \in below : Tree!Above(m) \cap below \subseteq listed}
  BY DEF Tree!TreeAgreesWithLs
<1> DEFINE below == {m \in DOMAIN node : top \in WayUp(node, m)}
           listed == {x \in below \ {top} : x \in Tree!Listed(u, node[x].parent)}
           shown == {x \in below : Tree!Shown(u, x)}
<1>0. below = Tree!Below(top)
  BY AboveIs DEF Tree!Below
<1>a. \A x \in below : \A c : c \in Tree!Listed(u, x) <=>
        Tree!Allowed(u, "list") /\ node[x].dir /\ Tree!Shown(u, x)
          /\ c \in DOMAIN node /\ node[c].parent = x /\ Tree!Shown(u, c)
  BY DEF Tree!Listed, Tree!Children
<1>b. \A m \in below, x \in below : x \in WayUp(node, m) /\ x # top =>
        /\ node[x].parent \in below /\ node[node[x].parent].dir
        /\ node[x].parent \in WayUp(node, m)
  BY ParentBelow
<1>1. ASSUME Tree!Allowed(u, "list") /\ Tree!Shown(u, top), NEW m \in below \ {top}
      PROVE  WayUp(node, m) \cap below \subseteq shown
               <=> WayUp(node, m) \cap (below \ {top}) \subseteq listed
  <2>1. ASSUME WayUp(node, m) \cap below \subseteq shown, NEW x \in WayUp(node, m) \cap (below \ {top})
        PROVE  x \in listed
    BY <1>1, <1>a, <1>b, <2>1
  <2>2. ASSUME WayUp(node, m) \cap (below \ {top}) \subseteq listed, NEW x \in WayUp(node, m) \cap below
        PROVE  x \in shown
    <3>1. CASE x = top
      BY <1>1, <3>1
    <3>2. CASE x # top
      <4>1. x \in Tree!Listed(u, node[x].parent)
        BY <2>2, <3>2
      <4> QED
        BY <2>2, <4>1, SeenIsShown
    <3> QED
      BY <3>1, <3>2
  <2> QED
    BY <2>1, <2>2
<1>2. ASSUME ~(Tree!Allowed(u, "list") /\ Tree!Shown(u, top)), NEW m \in below \ {top}
      PROVE  ~(WayUp(node, m) \cap (below \ {top}) \subseteq listed)
  <2>1. PICK y \in WayUp(node, m) : top \in WayUp(node, y) /\ y # top /\ node[y].parent = top
    BY EntryOnTheWay
  <2>2. y \in below \ {top}
    BY <2>1, WayUpGoesOn, TreeTyped
  <2>3. top \in below
    BY TreeTyped, WayUpIs
  <2>4. y \notin Tree!Listed(u, node[y].parent)
    BY <1>2, <1>a, <2>1, <2>3
  <2> QED
    BY <2>2, <2>4
<1>3. Tree!Drawn(u, top) \ {top} = {m \in below \ {top} : WayUp(node, m) \cap (below \ {top}) \subseteq listed}
  <2>1. CASE Tree!Allowed(u, "list") /\ Tree!Shown(u, top)
    <3>1. Tree!Drawn(u, top) = {m \in below : WayUp(node, m) \cap below \subseteq shown}
      BY <1>0, <2>1, AboveIs DEF Tree!Drawn
    <3> HIDE DEF below, listed, shown
    <3> QED
      BY <1>1, <2>1, <3>1
  <2>2. CASE ~(Tree!Allowed(u, "list") /\ Tree!Shown(u, top))
    <3>1. Tree!Drawn(u, top) = {}
      BY <2>2 DEF Tree!Drawn
    <3> HIDE DEF below, listed, shown
    <3> QED
      BY <1>2, <2>2, <3>1
  <2> QED
    BY <2>1, <2>2
<1> QED
  BY <1>0, <1>3, AboveIs

\* The entry that decides is one of those that are there, and closest to the inode.
LEMMA DecidingEntry ==
  ASSUME TreeInv, NEW n \in DOMAIN node, NEW role, NEW perm, Tree!Holders(n, role, perm) # {}
  PROVE  LET holders == Tree!Holders(n, role, perm)
             c == Tree!ClosestOf(holders)
         IN  /\ c \in holders /\ holders \subseteq WayUp(node, c)
             /\ holders = {m \in WayUp(node, n) : <<m, role, perm>> \in DOMAIN acl}
<1> DEFINE holders == Tree!Holders(n, role, perm)
<1>1. holders = {m \in WayUp(node, n) : <<m, role, perm>> \in DOMAIN acl}
  BY AboveIs DEF Tree!Holders
<1>2. holders \in SUBSET WayUp(node, n) /\ holders # {} /\ Parented(node)
  BY <1>1, TreeTyped
<1> HIDE DEF holders
<1>3. \E m \in holders : holders \subseteq Tree!Above(m)
  BY <1>2, OneIsClosest, AboveIs
<1>4. Tree!ClosestOf(holders) \in holders /\ holders \subseteq Tree!Above(Tree!ClosestOf(holders))
  BY <1>3 DEF Tree!ClosestOf
<1> QED
  BY <1>1, <1>4, AboveIs DEF holders

LEMMA ListedIsServed == ASSUME TreeInv PROVE Tree!ListedIsFetchable
<1> SUFFICES ASSUME NEW u \in Users, NEW n \in DOMAIN node, NEW raw \in BOOLEAN, ~node[n].dir,
                    n \in Tree!Listed(u, node[n].parent),
                    Tree!Allowed(u, IF raw THEN "export_raw" ELSE "read")
             PROVE  Tree!Fetchable(u, n, raw)
  BY DEF Tree!ListedIsFetchable
<1> DEFINE role == RoleOf[u]
<1>1. Tree!Shown(u, n)
  BY SeenIsShown
<1>2. Tree!CheckAcl(n, role, "read", "open", FALSE)
  <2>1. CASE role = "Admin"
    BY <2>1 DEF Tree!CheckAcl, Tree!Admin
  <2>2. CASE role # "Admin" /\ Tree!Holders(n, role, "read") = {}
    BY <2>2 DEF Tree!CheckAcl
  <2>3. CASE role # "Admin" /\ Tree!Holders(n, role, "read") # {}
    <3> DEFINE holders == Tree!Holders(n, role, "read")
    <3>1. Tree!ClosestOf(holders) \in holders /\ holders = {m \in WayUp(node, n) : <<m, role, "read">> \in DOMAIN acl}
      BY <2>3, DecidingEntry
    <3>2. acl[<<Tree!ClosestOf(holders), role, "read">>] # "deny"
      BY <1>1, <2>3, <3>1, ShownIsNotDenied DEF Tree!Denied
    <3> QED
      BY <3>2 DEF Tree!CheckAcl
  <2> QED
    BY <2>1, <2>2, <2>3
<1> QED
  BY <1>2 DEF Tree!Fetchable

\* The entry that decides, read from the tables.
LEMMA ClosestDecides ==
  ASSUME TreeInv, NEW n \in DOMAIN node, NEW role, role # "Admin", NEW perm
  PROVE  /\ Tree!CheckAcl(n, role, perm, "open", FALSE) => ~Tree!Closest(n, role, perm, "deny")
         /\ Tree!CheckAcl(n, role, perm, "closed", FALSE) => Tree!Closest(n, role, perm, "grant")
<1> DEFINE holders == Tree!Holders(n, role, perm)
           c == Tree!ClosestOf(holders)
<1>0. holders = {m \in WayUp(node, n) : <<m, role, perm>> \in DOMAIN acl}
  BY AboveIs DEF Tree!Holders
<1>1. holders # {} => c \in holders /\ holders \subseteq WayUp(node, c)
  BY DecidingEntry
<1>2. ASSUME Tree!CheckAcl(n, role, perm, "open", FALSE), Tree!Closest(n, role, perm, "deny")
      PROVE  FALSE
  <2>1. PICK m \in WayUp(node, n) :
          /\ <<m, role, perm>> \in DOMAIN acl /\ acl[<<m, role, perm>>] = "deny"
          /\ \A x \in WayUp(node, n) \ WayUp(node, m) : <<x, role, perm>> \notin DOMAIN acl
    BY <1>2, AboveIs DEF Tree!Closest
  <2>2. m \in holders /\ c \in holders /\ m \in WayUp(node, c)
    BY <1>0, <1>1, <2>1
  <2>3. c \in WayUp(node, m)
    BY <1>0, <2>1, <2>2
  <2>4. c = m
    BY <2>1, <2>2, <2>3, TreeTyped, NoCircle, WayUpGoesOn
  <2>5. acl[<<c, role, perm>>] # "deny"
    BY <1>2, <2>2 DEF Tree!CheckAcl, Tree!Admin
  <2> QED
    BY <2>1, <2>4, <2>5
<1>3. ASSUME Tree!CheckAcl(n, role, perm, "closed", FALSE)
      PROVE  Tree!Closest(n, role, perm, "grant")
  <2>1. holders # {} /\ acl[<<c, role, perm>>] # "deny"
    BY <1>3 DEF Tree!CheckAcl, Tree!Admin
  <2>2. c \in WayUp(node, n) /\ <<c, role, perm>> \in DOMAIN acl /\ holders \subseteq WayUp(node, c)
    BY <1>0, <1>1, <2>1
  <2>3. acl[<<c, role, perm>>] = "grant"
    BY <2>1, <2>2, TreeTyped DEF Tree!Actions
  <2>4. \A x \in WayUp(node, n) \ WayUp(node, c) : <<x, role, perm>> \notin DOMAIN acl
    BY <1>0, <2>2
  <2> HIDE DEF c
  <2> QED
    BY <2>2, <2>3, <2>4, AboveIs DEF Tree!Closest
<1> QED
  BY <1>2, <1>3

\* Where something denies or grants, what is not refused is granted by the closest entry.
LEMMA ServedIsGranted ==
  ASSUME TreeInv, NEW n \in DOMAIN node, NEW role, role # "Admin", NEW perm,
         Tree!CheckAcl(n, role, perm, "open", FALSE), Tree!Holders(n, role, perm) # {}
  PROVE  Tree!Closest(n, role, perm, "grant")
<1>1. Tree!CheckAcl(n, role, perm, "closed", FALSE)
  BY DEF Tree!CheckAcl, Tree!Admin
<1> QED
  BY <1>1, ClosestDecides

\* Where nothing is hidden for want of an entry, what is hidden has a deny on its way up.
LEMMA HiddenIsDenied ==
  ASSUME TreeInv, NEW u \in Users, NEW n \in DOMAIN node, ~Tree!Shown(u, n), DefaultMode = "open"
  PROVE  \E m \in WayUp(node, n) : Tree!Denied(m, RoleOf[u], "read")
<1>1. PICK m \in Tree!Holders(n, RoleOf[u], "read") : acl[<<m, RoleOf[u], "read">>] = "deny"
  BY DEF Tree!Shown, Tree!CheckAcl
<1> QED
  BY <1>1, AboveIs DEF Tree!Holders, Tree!Denied

LEMMA HiddenIsTold == ASSUME TreeInv PROVE Tree!HiddenYetServed
<1> SUFFICES ASSUME NEW u \in Users, NEW d \in DOMAIN node, NEW raw \in BOOLEAN,
                    NEW n \in Tree!Children(d) \ Tree!Listed(u, d),
                    Tree!Allowed(u, "list"), Tree!Fetchable(u, n, raw)
             PROVE  LET role == RoleOf[u]
                    IN /\ role # "Admin"
                       /\ DefaultMode = "open" => \E m \in Tree!Above(n) : Tree!Denied(m, role, "read")
                       /\ Tree!HasAcl(n) => \/ Tree!Closest(n, role, "read", "grant")
                                            \/ Tree!Holders(n, role, "read") = {}
  BY DEF Tree!HiddenYetServed, Tree!Admin
<1>1. n \in DOMAIN node /\ node[n].parent = d /\ d # 0 /\ node[d].dir
  BY TreeTyped DEF Tree!Children, Parented
<1>2. ~(Tree!Shown(u, d) /\ Tree!Shown(u, n))
  BY <1>1 DEF Tree!Listed
<1>3. RoleOf[u] # "Admin"
  BY <1>2 DEF Tree!Shown, Tree!CheckAcl, Tree!Admin
<1>4. n \in WayUp(node, n) /\ d \in WayUp(node, n)
  BY <1>1, TreeTyped, WayUpIs
<1>5. DefaultMode = "open" => \E m \in Tree!Above(n) : Tree!Denied(m, RoleOf[u], "read")
  BY <1>1, <1>2, <1>4, HiddenIsDenied, WayUpGoesOn, TreeTyped, AboveIs
<1>6. Tree!HasAcl(n) => \/ Tree!Closest(n, RoleOf[u], "read", "grant")
                       \/ Tree!Holders(n, RoleOf[u], "read") = {}
  BY <1>1, <1>3, ServedIsGranted DEF Tree!Fetchable
<1> QED
  BY <1>3, <1>5, <1>6

LEMMA RemovalRight ==
  ASSUME TreeInv, NEW u \in Users, NEW n \in DOMAIN node, RoleOf[u] # "Admin", Tree!Rm(u, n)
  PROVE  IF node[n].owner = u THEN ~Tree!Closest(n, RoleOf[u], "delete_own", "deny")
         ELSE Tree!Closest(n, RoleOf[u], "delete_any", "grant")
<1>1. Tree!MayRemove(u, n)
  BY DEF Tree!Rm
<1>2. CASE node[n].owner = u
  <2>1. Tree!CheckAcl(n, RoleOf[u], "delete_own", "open", FALSE)
    BY <1>1, <1>2 DEF Tree!MayRemove, Tree!Admin
  <2> QED
    BY <1>2, <2>1, ClosestDecides
<1>3. CASE node[n].owner # u
  <2>1. Tree!CheckAcl(n, RoleOf[u], "delete_any", "closed", FALSE)
    BY <1>1, <1>3 DEF Tree!MayRemove, Tree!Admin
  <2> QED
    BY <1>3, <2>1, ClosestDecides
<1> QED
  BY <1>2, <1>3

-----------------------------------------------------------------------------
(* The theorems                                                            *)

AclInv == KeyInv /\ KeyBounds /\ TreeInv

LEMMA AclBegins == MCInit => AclInv
BY Begins, KeysBegin, TreeBegins, KeyConstants DEF MCInit, AclInv

LEMMA AclKeeps == AclInv /\ [MCNext]_<<part, vars, treeVars>> => AclInv'
<1> SUFFICES ASSUME AclInv, [MCNext]_<<part, vars, treeVars>> PROVE AclInv'
  OBVIOUS
<1>1. [Next]_vars /\ [Tree!Next]_treeVars
  BY DEF MCNext
<1> QED
  BY <1>1, KeyInvariant, KeysBounded, TreeKeeps, KeyConstants DEF AclInv

\* The dictionary holds what was issued and has not expired by more than the clock has
\* run; the tables hold ids that were given out, parents that exist and entries of
\* inodes that exist (key_manager.py; the foreign keys of db.py).
THEOREM KeysAndTreeAreTyped == MCSpec => []MCTypeOK
<1>1. AclInv => MCTypeOK
  BY KeysTyped DEF AclInv, TreeInv, MCTypeOK
<1> QED
  BY <1>1, AclBegins, AclKeeps, PTL DEF MCSpec

\* A deny of read on a directory hides all that is below it from ls and tree, whatever
\* grants there are below it, and however it got there (check_acl with deny_wins).
THEOREM DenyHidesAll == MCSpec => []DenyHidesSubtree
<1>1. AclInv => DenyHidesSubtree
  BY DenyHides DEF AclInv, DenyHidesSubtree
<1> QED
  BY <1>1, AclBegins, AclKeeps, PTL DEF MCSpec

\* tree draws what listing directory by directory shows, and what is listed is served; a
\* file that is served and hidden from ls has no entry of its own, a grant that is closer
\* than what hides it, or no entry for the role (_vfs_tree, _vfs_ls, _vfs_fetch).
THEOREM ViewsAreRelated == MCSpec => []ViewsRelated
<1>1. AclInv => ViewsRelated
  BY TreeIsLs, ListedIsServed, HiddenIsTold DEF AclInv, ViewsRelated, Tree!ViewsRelated
<1> QED
  BY <1>1, AclBegins, AclKeeps, PTL DEF MCSpec

\* What a user removes is his own and not denied to him, or granted to him: the entry
\* that decides is the closest one on the way up, which there is only one of (_vfs_rm).
THEOREM RemovalsAreAllowed == MCSpec => RemovalNeedsRight
<1>1. AclInv => [\A u \in Users, n \in DOMAIN node \ DOMAIN node' :
        RoleOf[u] # Tree!Admin /\ Tree!Rm(u, n) =>
          IF node[n].owner = u THEN ~Tree!Closest(n, RoleOf[u], "delete_own", "deny")
          ELSE Tree!Closest(n, RoleOf[u], "delete_any", "grant")]_(Tree!vars)
  BY RemovalRight DEF AclInv, Tree!Admin
<1> QED
  BY <1>1, AclBegins, AclKeeps, PTL DEF MCSpec, RemovalNeedsRight, Tree!RemovalNeedsRight

=============================================================================
