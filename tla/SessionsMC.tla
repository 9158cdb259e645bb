----------------------------- MODULE SessionsMC -----------------------------
(***************************************************************************)
(* Model checking of Sessions: one connection at a time and all usernames, *)
(* or several connections and two usernames.                               *)
(***************************************************************************)
EXTENDS Sessions, TLC

CONSTANTS PairRequests, PairTime, PairCrashes  \* bounds of several connections

VARIABLE cast  \* the usernames that are used

\* Threads are interchangeable, and so are the usernames other than Root.
Symmetry == Permutations(Threads) \cup Permutations(Names \ {Root})

Pair == INSTANCE Sessions
  WITH InitialIds <- 2, MaxRequests <- PairRequests, MaxTime <- PairTime,
       MaxCrashes <- PairCrashes

Outside(n) == users[n] = NoAccount /\ \A t \in Threads : n # thread[t].target
\* One request at a time.
Alone == \A t, u \in Threads : thread[t] # Idle /\ thread[u] # Idle => t = u

MCInit ==
  \/ cast = Names /\ Init
  \/ /\ cast \in {{Root, n} : n \in Names \ {Root}} \ {Names}
     /\ Pair!Init /\ \A n \in Names \ cast : Outside(n)

MCNext ==
  /\ UNCHANGED cast
  /\ \/ cast = Names /\ Next /\ Alone'
     \/ cast # Names /\ Pair!Next /\ (\A n \in Names \ cast : Outside(n))'

MCSpec == MCInit /\ [][MCNext]_<<vars, cast>>

-----------------------------------------------------------------------------

\* With one connection at a time a session whose user id is the one its account has now
\* has the role and the password of the account.  (The session of an account that was
\* removed, and perhaps made again under another id, goes on by the name.)
SessionsCurrent == cast = Names => SessionRoleCurrent /\ SessionPasswordCurrent

\* With one connection at a time nobody but the root admin deletes another account that
\* is an Admin's, or sets its password.  (assign_role lets other Admins change its role.)
AdminsDeletedOrResetByRoot == [][cast = Names => AdminsDeletedByRoot /\ AdminsResetByRoot]_vars

=============================================================================
