--------------------------- MODULE SessionsProofs ---------------------------
(***************************************************************************)
(* Proofs about Sessions, for every set of threads, names, roles and       *)
(* passwords and every value of the bounds.                                *)
(***************************************************************************)
EXTENDS SessionsMC, TLAPS

-----------------------------------------------------------------------------
(* Types                                                                   *)

LEMMA IdleType == /\ Idle \in ThreadState /\ Idle.pc = "idle"
                  /\ NoAccount \in Account /\ AnyPassword \in Passwords
<1>1. AnyPassword \in Passwords
  BY AccountsAssumption DEF AnyPassword
<1>2. NoAccount \in Account
  BY <1>1, AccountsAssumption DEF NoAccount, Account
<1>3. Idle \in ThreadState /\ Idle.pc = "idle"
  BY <1>1, <1>2, AccountsAssumption DEF Idle, ThreadState, Pcs, Commands
<1> QED BY <1>1, <1>2, <1>3

\* A thread moves to another step of its handler, with or without a row it read.
LEMMA GotoType ==
  ASSUME NEW st \in ThreadState, NEW pc \in Pcs, NEW row \in Account
  PROVE  /\ [st EXCEPT !.pc = pc] \in ThreadState
         /\ [[st EXCEPT !.row = row] EXCEPT !.pc = pc] \in ThreadState
<1>1. [st EXCEPT !.pc = pc] \in ThreadState
  BY DEF ThreadState
<1>2. [st EXCEPT !.row = row] \in ThreadState
  BY DEF ThreadState
<1>3. [[st EXCEPT !.row = row] EXCEPT !.pc = pc] \in ThreadState
  BY <1>2 DEF ThreadState
<1> QED BY <1>1, <1>3

LEMMA TypeInit == Init => TypeOK
<1> SUFFICES ASSUME Init PROVE TypeOK
  OBVIOUS
<1>1. PICK others \in SUBSET (Names \ {Root}) :
        \E id \in [others -> 2 .. InitialIds], role \in [others -> Roles] :
          /\ \A m, n \in others : id[m] = id[n] => m = n
          /\ users = [n \in Names |->
               IF n = Root THEN [NoAccount EXCEPT !.id = 1]
               ELSE IF n \in others THEN [NoAccount EXCEPT !.id = id[n], !.role = role[n]]
               ELSE NoAccount]
  BY DEF Init
<1>2. PICK id \in [others -> 2 .. InitialIds], role \in [others -> Roles] :
        users = [n \in Names |->
               IF n = Root THEN [NoAccount EXCEPT !.id = 1]
               ELSE IF n \in others THEN [NoAccount EXCEPT !.id = id[n], !.role = role[n]]
               ELSE NoAccount]
  BY <1>1
<1>3. ASSUME NEW n \in Names PROVE users[n] \in Account
  <2>1. NoAccount \in Account
    BY IdleType
  <2>2. [NoAccount EXCEPT !.id = 1] \in Account
    BY <2>1 DEF Account
  <2>3. ASSUME n \in others PROVE [NoAccount EXCEPT !.id = id[n], !.role = role[n]] \in Account
    <3>1. id[n] \in Nat /\ role[n] \in Roles
      BY <2>3, AccountsAssumption
    <3> QED BY <2>1, <3>1 DEF Account
  <2> QED BY <1>2, <2>1, <2>2, <2>3
<1>4. users \in [Names -> Account]
  BY <1>2, <1>3
<1>5. thread \in [Threads -> ThreadState] /\ lastId \in Nat
  BY IdleType, AccountsAssumption DEF Init
<1>6. sessions = <<>> /\ drawn = 0 /\ now = 0 /\ requests = 0 /\ crashes = 0
  BY DEF Init
<1>7. DOMAIN sessions \subseteq 1 .. drawn /\ \A k \in DOMAIN sessions : sessions[k] \in Session
  BY <1>6
<1> QED BY <1>4, <1>5, <1>6, <1>7 DEF TypeOK

LEMMA TypeNext == TypeOK /\ [Next]_vars => TypeOK'
<1> SUFFICES ASSUME TypeOK, [Next]_vars PROVE TypeOK'
  OBVIOUS
<1>a. /\ thread \in [Threads -> ThreadState] /\ users \in [Names -> Account]
      /\ lastId \in Nat /\ drawn \in Nat /\ now \in Nat
  BY DEF TypeOK
<1>b. ASSUME NEW t \in Threads PROVE
        /\ thread[t] \in ThreadState
        /\ thread[t].name \in Names /\ thread[t].target \in Names /\ thread[t].row \in Account
        /\ thread[t].newRole \in Roles /\ thread[t].new \in Passwords
  BY <1>a DEF ThreadState
<1>c. ASSUME NEW t \in Threads, NEW pc \in Pcs, Goto(t, pc)
      PROVE  thread' \in [Threads -> ThreadState]
  BY <1>a, <1>c, GotoType, IdleType DEF Goto, Become
<1>d. ASSUME NEW t \in Threads, Reply(t) PROVE thread' \in [Threads -> ThreadState]
  BY <1>a, <1>d, IdleType DEF Reply, Become
<1>e. ASSUME NEW tokens PROVE
        /\ DOMAIN Without(tokens) \subseteq DOMAIN sessions
        /\ \A k \in DOMAIN Without(tokens) : Without(tokens)[k] = sessions[k]
  BY DEF Without
<1>1. ASSUME NEW t \in Threads, NEW n \in Names, NEW p \in Passwords, Authenticate(t, n, p)
      PROVE  TypeOK'
  <2>1. thread' \in [Threads -> ThreadState]
    <3> DEFINE st == [Idle EXCEPT !.pc = "session", !.name = n, !.row = users[n]]
    <3>1. st \in ThreadState
      <4>1. [Idle EXCEPT !.pc = "session", !.name = n] \in ThreadState
        BY IdleType DEF ThreadState, Pcs
      <4>2. users[n] \in Account
        BY <1>a
      <4> QED BY <4>1, <4>2 DEF ThreadState
    <3> HIDE DEF st
    <3>2. Become(t, st) \/ UNCHANGED thread
      BY <1>1 DEF Authenticate, st
    <3> QED BY <1>a, <3>1, <3>2 DEF Become
  <2> QED BY <1>1, <2>1 DEF Authenticate, Arrive, TypeOK
<1>2. ASSUME NEW t \in Threads, Request(t) PROVE TypeOK'
  <2>1. PICK k \in DOMAIN sessions, cmd \in Commands, n \in Names, r \in Roles,
             p \in Passwords, q \in Passwords : Dispatch(t, k, cmd, n, r, p, q)
    BY <1>2 DEF Request, Commands
  <2>2. sessions[k] \in Session
    BY DEF TypeOK
  <2> DEFINE st == [Idle EXCEPT !.pc = FirstStep(cmd), !.cmd = cmd, !.tok = k,
                          !.name = sessions[k].name, !.role = sessions[k].role,
                          !.target = n, !.newRole = r, !.given = p, !.new = q]
  <2>3. st \in ThreadState
    <3>1. FirstStep(cmd) \in Pcs
      BY DEF FirstStep, Pcs, Commands
    <3>2. k \in Nat /\ sessions[k].name \in Names /\ sessions[k].role \in Roles
      BY <1>a, <2>2 DEF TypeOK, Session
    <3>3. [Idle EXCEPT !.pc = FirstStep(cmd), !.cmd = cmd, !.tok = k] \in ThreadState
      BY <3>1, <3>2, IdleType DEF ThreadState
    <3>4. [Idle EXCEPT !.pc = FirstStep(cmd), !.cmd = cmd, !.tok = k,
                       !.name = sessions[k].name, !.role = sessions[k].role] \in ThreadState
      BY <3>2, <3>3 DEF ThreadState
    <3> QED BY <3>4 DEF ThreadState
  <2> HIDE DEF st
  <2>4. thread' \in [Threads -> ThreadState]
    BY <1>a, <1>2, <2>1, <2>3 DEF Dispatch, Become, st
  <2>5. DOMAIN sessions' \subseteq 1 .. drawn /\ \A j \in DOMAIN sessions' : sessions'[j] \in Session
    BY <1>e, <2>1 DEF Dispatch, TypeOK
  <2> QED BY <2>1, <2>4, <2>5 DEF Dispatch, Arrive, TypeOK
<1>3. ASSUME NEW t \in Threads, OpenSession(t) PROVE TypeOK'
  <2> DEFINE new == [name |-> thread[t].name, id |-> thread[t].row.id,
                     role |-> thread[t].row.role,
                     expires |-> now + TTL, password |-> thread[t].row.password]
  <2>1. new \in Session
    BY <1>a, <1>b, SessionAssumption DEF Session, Account
  <2> HIDE DEF new
  <2>2. sessions' = [k \in (DOMAIN sessions \ Stale(thread[t].name)) \cup {Token} |->
                       IF k = Token THEN new ELSE sessions[k]]
    BY <1>3 DEF OpenSession, new
  <2>3. DOMAIN sessions' \subseteq 1 .. drawn' /\ \A j \in DOMAIN sessions' : sessions'[j] \in Session
    BY <1>a, <1>3, <2>1, <2>2 DEF OpenSession, Token, TypeOK
  <2>4. thread' \in [Threads -> ThreadState] /\ drawn' \in Nat
    BY <1>a, <1>3, <1>d DEF OpenSession
  <2> QED BY <1>3, <2>3, <2>4 DEF OpenSession, TypeOK, counters
<1>4. ASSUME NEW t \in Threads, CheckPermission(t) PROVE TypeOK'
  <2>1. thread' \in [Threads -> ThreadState]
    BY <1>4, <1>c, <1>d DEF CheckPermission, Pcs
  <2> QED BY <1>4, <2>1 DEF CheckPermission, TypeOK, counters
<1>5. ASSUME NEW t \in Threads, ReadTarget(t) PROVE TypeOK'
  <2>1. thread' \in [Threads -> ThreadState]
    <3> DEFINE row == users[thread[t].target]
    <3>1. row \in Account
      BY <1>a, <1>b
    <3>2. PICK pc \in Pcs : Reply(t) \/ Become(t, [[thread[t] EXCEPT !.row = row] EXCEPT !.pc = pc])
      BY <1>5 DEF ReadTarget, Pcs
    <3> DEFINE st == [[thread[t] EXCEPT !.row = row] EXCEPT !.pc = pc]
    <3>3. st \in ThreadState
      BY <1>b, <3>1, GotoType
    <3> HIDE DEF st
    <3>4. CASE Become(t, st)
      BY <1>a, <3>3, <3>4 DEF Become
    <3> QED BY <1>d, <3>2, <3>4 DEF st
  <2> QED BY <1>5, <2>1 DEF ReadTarget, TypeOK, counters
<1>6. ASSUME NEW t \in Threads, CheckRoot(t) PROVE TypeOK'
  <2>1. thread' \in [Threads -> ThreadState]
    BY <1>6, <1>c, <1>d DEF CheckRoot, Pcs
  <2> QED BY <1>6, <2>1 DEF CheckRoot, TypeOK, counters
<1>7. ASSUME NEW t \in Threads, ReadSelf(t) PROVE TypeOK'
  <2>1. thread' \in [Threads -> ThreadState]
    BY <1>7, <1>c, <1>d DEF ReadSelf, Pcs
  <2> QED BY <1>7, <2>1 DEF ReadSelf, TypeOK, counters
<1>8. ASSUME NEW t \in Threads, InsertUser(t) PROVE TypeOK'
  <2>1. [id |-> NextId, role |-> thread[t].newRole, password |-> thread[t].new] \in Account
    BY <1>a, <1>b DEF NextId, Account
  <2>2. users' \in [Names -> Account] /\ lastId' \in Nat
    BY <1>8, <1>a, <1>b, <2>1 DEF InsertUser, NextId
  <2> QED BY <1>8, <1>d, <2>2 DEF InsertUser, TypeOK, counters
<1>9. ASSUME NEW t \in Threads, UpdateRole(t) PROVE TypeOK'
  <2>1. thread' \in [Threads -> ThreadState]
    BY <1>9, <1>c, <1>d DEF UpdateRole, Pcs
  <2>2. [users[thread[t].target] EXCEPT !.role = thread[t].newRole] \in Account
    BY <1>a, <1>b DEF Account
  <2>3. users' \in [Names -> Account]
    BY <1>9, <1>a, <1>b, <2>2 DEF UpdateRole
  <2> QED BY <1>9, <2>1, <2>3 DEF UpdateRole, TypeOK, counters
<1>10. ASSUME NEW t \in Threads, UpdatePassword(t) PROVE TypeOK'
  <2>1. thread' \in [Threads -> ThreadState]
    BY <1>10, <1>c, <1>d DEF UpdatePassword, Pcs
  <2>2. [users[thread[t].target] EXCEPT !.password = thread[t].new] \in Account
    BY <1>a, <1>b DEF Account
  <2>3. users' \in [Names -> Account]
    BY <1>10, <1>a, <1>b, <2>2 DEF UpdatePassword
  <2> QED BY <1>10, <2>1, <2>3 DEF UpdatePassword, TypeOK, counters
<1>11. ASSUME NEW t \in Threads, DeleteUser(t) PROVE TypeOK'
  <2>1. thread' \in [Threads -> ThreadState]
    BY <1>11, <1>c, <1>d DEF DeleteUser, Pcs
  <2>2. users' \in [Names -> Account]
    BY <1>11, <1>a, <1>b, IdleType DEF DeleteUser
  <2> QED BY <1>11, <2>1, <2>2 DEF DeleteUser, TypeOK, counters
<1>12. ASSUME NEW t \in Threads, RevokeSessions(t) \/ DropSession(t) PROVE TypeOK'
  <2>1. /\ DOMAIN sessions' \subseteq 1 .. drawn
        /\ \A j \in DOMAIN sessions' : sessions'[j] \in Session
    BY <1>12, <1>e DEF RevokeSessions, DropSession, TypeOK
  <2> QED BY <1>12, <1>d, <2>1 DEF RevokeSessions, DropSession, TypeOK, counters
<1>13. ASSUME Tick PROVE TypeOK'
  BY <1>13 DEF Tick, TypeOK, counters
<1>14. ASSUME Restart PROVE TypeOK'
  BY <1>14, IdleType DEF Restart, TypeOK
<1>15. ASSUME UNCHANGED vars PROVE TypeOK'
  BY <1>15 DEF vars, counters, TypeOK
<1> QED
  BY <1>1, <1>2, <1>3, <1>4, <1>5, <1>6, <1>7, <1>8, <1>9, <1>10, <1>11, <1>12,
     <1>13, <1>14, <1>15 DEF Next, Step, Handle

\* Every reachable state is well typed: no account and no session gets a role or
\* a password from anywhere but a request or an account.
THEOREM TypeCorrect == Spec => []TypeOK
BY TypeInit, TypeNext, PTL DEF Spec

-----------------------------------------------------------------------------
(* The first account                                                       *)

\* What a thread that is about to demote or delete an account knows of it: the
\* target is not Root, or its row, read before, shows that it is.
NotRoot(st) ==
  /\ st.pc \in {"role", "delete"} => st.target # Root
  /\ st.pc = "root" /\ st.cmd = "remove_user" /\ st.target = Root => FirstAccount(st.row)
  /\ st.pc = "self" /\ st.cmd = "delete_account" => st.target = st.name

RootInv == RootProtected /\ \A t \in Threads : NotRoot(thread[t])

LEMMA IdleNotRoot == NotRoot(Idle)
BY DEF NotRoot, Idle

LEMMA RootInit == Init => RootInv
<1> SUFFICES ASSUME Init PROVE RootInv
  OBVIOUS
<1>1. users[Root] = [NoAccount EXCEPT !.id = 1]
  BY AccountsAssumption DEF Init
<1>2. RootProtected
  BY <1>1 DEF RootProtected, NoAccount
<1>3. thread = [t \in Threads |-> Idle]
  BY DEF Init
<1> QED BY <1>2, <1>3, IdleNotRoot DEF RootInv

\* A step of thread t that leaves Root an Admin with id 1.
LEMMA RootStep ==
  ASSUME TypeOK, RootInv, RootProtected', NEW t \in Threads, NEW st, NotRoot(st),
         Become(t, st)
  PROVE  RootInv'
<1>1. \A u \in Threads : thread'[u] = IF u = t THEN st ELSE thread[u]
  BY DEF Become, TypeOK
<1> QED BY <1>1 DEF RootInv

LEMMA RootNext == TypeOK /\ RootInv /\ [Next]_vars => RootInv'
<1> SUFFICES ASSUME TypeOK, RootInv, [Next]_vars PROVE RootInv'
  OBVIOUS
<1>a. /\ thread \in [Threads -> ThreadState] /\ users \in [Names -> Account]
      /\ users[Root].id = 1 /\ users[Root].role = Admin
  BY DEF TypeOK, RootInv, RootProtected
<1>b. ASSUME NEW t \in Threads PROVE
        thread[t] \in ThreadState /\ thread[t].target \in Names /\ NotRoot(thread[t])
  BY <1>a DEF ThreadState, RootInv
<1>c. ASSUME UNCHANGED users PROVE RootProtected'
  BY <1>a, <1>c DEF RootProtected
<1>d. ASSUME NEW t \in Threads, Reply(t), RootProtected' PROVE RootInv'
  BY <1>d, IdleNotRoot, RootStep DEF Reply
<1>e. ASSUME NEW t \in Threads, NEW pc, Goto(t, pc), RootProtected',
             pc \notin {"role", "delete", "root", "self"}
      PROVE  RootInv'
  <2> DEFINE st == [thread[t] EXCEPT !.pc = pc]
  <2>1. NotRoot(st)
    BY <1>b, <1>e DEF NotRoot, ThreadState
  <2> HIDE DEF st
  <2>2. Become(t, st)
    BY <1>e DEF Goto, st
  <2> QED BY <1>e, <2>1, <2>2, RootStep
<1>1. ASSUME NEW t \in Threads, NEW n \in Names, NEW p \in Passwords, Authenticate(t, n, p)
      PROVE  RootInv'
  <2> DEFINE st == [Idle EXCEPT !.pc = "session", !.name = n, !.row = users[n]]
  <2>1. NotRoot(st)
    BY DEF NotRoot, Idle
  <2> HIDE DEF st
  <2>2. (Become(t, st) \/ UNCHANGED thread) /\ RootProtected'
    BY <1>1, <1>c DEF Authenticate, st
  <2>3. CASE UNCHANGED thread
    BY <2>2, <2>3 DEF RootInv
  <2> QED BY <2>1, <2>2, <2>3, RootStep
<1>2. ASSUME NEW t \in Threads, Request(t) PROVE RootInv'
  <2>1. PICK k \in DOMAIN sessions, cmd \in Commands, n \in Names, r \in Roles,
             p \in Passwords, q \in Passwords :
          /\ Dispatch(t, k, cmd, n, r, p, q)
          /\ cmd = "delete_account" => n = sessions[k].name
    BY <1>2 DEF Request, Commands
  <2> DEFINE st == [Idle EXCEPT !.pc = FirstStep(cmd), !.cmd = cmd, !.tok = k,
                          !.name = sessions[k].name, !.role = sessions[k].role,
                          !.target = n, !.newRole = r, !.given = p, !.new = q]
  <2>2. st.pc = FirstStep(cmd) /\ st.cmd = cmd /\ st.name = sessions[k].name /\ st.target = n
    BY DEF Idle
  <2>3. FirstStep(cmd) \in {"drop", "self", "perm"}
    BY DEF FirstStep, Commands
  <2> HIDE DEF st
  <2>4. NotRoot(st)
    BY <2>1, <2>2, <2>3 DEF NotRoot
  <2>5. (Become(t, st) \/ UNCHANGED thread) /\ RootProtected'
    BY <2>1, <1>c DEF Dispatch, st
  <2>6. CASE UNCHANGED thread
    BY <2>5, <2>6 DEF RootInv
  <2> QED BY <2>4, <2>5, <2>6, RootStep
<1>3. ASSUME NEW t \in Threads, OpenSession(t) PROVE RootInv'
  BY <1>3, <1>c, <1>d DEF OpenSession
<1>4. ASSUME NEW t \in Threads, CheckPermission(t) PROVE RootInv'
  BY <1>4, <1>c, <1>d, <1>e DEF CheckPermission
<1>5. ASSUME NEW t \in Threads, ReadTarget(t) PROVE RootInv'
  <2> DEFINE row == users[thread[t].target]
             st(pc) == [[thread[t] EXCEPT !.row = row] EXCEPT !.pc = pc]
  <2>1. thread[t].target = Root => row.id = 1 /\ row.role = Admin
    BY <1>a
  <2>2. \A pc \in Pcs : /\ st(pc).pc = pc /\ st(pc).cmd = thread[t].cmd
                        /\ st(pc).target = thread[t].target /\ st(pc).row = row
    BY <1>b DEF ThreadState
  <2>3. PICK pc \in Pcs :
          \/ Reply(t)
          \/ /\ Become(t, st(pc))
             /\ pc \in {"role", "delete"} => ~FirstAccount(row)
             /\ pc # "self"
    BY <1>5 DEF ReadTarget, Pcs, FirstAccount
  <2>4. RootProtected'
    BY <1>5, <1>c DEF ReadTarget
  <2> DEFINE new == st(pc)
  <2>5. new.pc = pc /\ new.cmd = thread[t].cmd /\ new.target = thread[t].target /\ new.row = row
    BY <2>2
  <2>6. Reply(t) \/ (Become(t, new) /\ (pc \in {"role", "delete"} => ~FirstAccount(row)) /\ pc # "self")
    BY <2>3
  <2> HIDE DEF new, row
  <2>7. CASE Reply(t)
    BY <2>4, <2>7, <1>d
  <2>8. CASE Become(t, new) /\ (pc \in {"role", "delete"} => ~FirstAccount(row)) /\ pc # "self"
    <3>1. NotRoot(new)
      BY <2>1, <2>5, <2>8 DEF NotRoot, FirstAccount
    <3> QED BY <2>4, <2>8, <3>1, RootStep
  <2> QED BY <2>6, <2>7, <2>8
<1>6. ASSUME NEW t \in Threads, CheckRoot(t) PROVE RootInv'
  <2>1. RootProtected'
    BY <1>6, <1>c DEF CheckRoot
  <2>2. \/ Reply(t)
        \/ thread[t].cmd # "remove_user" /\ Goto(t, "password")
        \/ /\ thread[t].cmd = "remove_user" /\ ~FirstAccount(thread[t].row)
           /\ thread[t].pc = "root" /\ Goto(t, "delete")
    <3>1. CASE thread[t].cmd = "remove_user"
      BY <1>6, <3>1, Zenon DEF CheckRoot
    <3>2. CASE thread[t].cmd # "remove_user"
      BY <1>6, <3>2, Zenon DEF CheckRoot
    <3> QED BY <3>1, <3>2
  <2>3. CASE Goto(t, "password")
    BY <2>1, <2>3, <1>e
  <2>4. CASE /\ thread[t].cmd = "remove_user" /\ ~FirstAccount(thread[t].row)
             /\ thread[t].pc = "root" /\ Goto(t, "delete")
    <3> DEFINE st == [thread[t] EXCEPT !.pc = "delete"]
    <3>1. NotRoot(st)
      BY <1>b, <2>4 DEF NotRoot, ThreadState
    <3> HIDE DEF st
    <3>2. Become(t, st)
      BY <2>4 DEF Goto, st
    <3> QED BY <2>1, <3>1, <3>2, RootStep
  <2> QED BY <2>1, <2>2, <2>3, <2>4, <1>d
<1>7. ASSUME NEW t \in Threads, ReadSelf(t) PROVE RootInv'
  <2>1. RootProtected'
    BY <1>7, <1>c DEF ReadSelf
  <2>2. CASE Reply(t)
    BY <2>1, <2>2, <1>d
  <2>3. CASE Goto(t, "password")
    BY <2>1, <2>3, <1>e
  <2>4. CASE thread[t].cmd = "delete_account" /\ users[thread[t].name].role # Admin
             /\ thread[t].pc = "self" /\ Goto(t, "delete")
    <3> DEFINE st == [thread[t] EXCEPT !.pc = "delete"]
    <3>1. thread[t].target = thread[t].name /\ thread[t].name # Root
      BY <1>a, <1>b, <2>4 DEF NotRoot
    <3>2. NotRoot(st)
      BY <1>b, <3>1 DEF NotRoot, ThreadState
    <3> HIDE DEF st
    <3>3. Become(t, st)
      BY <2>4 DEF Goto, st
    <3> QED BY <2>1, <3>2, <3>3, RootStep
  <2> QED BY <1>7, <2>2, <2>3, <2>4 DEF ReadSelf
<1>8. ASSUME NEW t \in Threads, InsertUser(t) PROVE RootInv'
  <2>1. Exists(thread[t].target) => UNCHANGED users
    BY <1>8 DEF InsertUser
  <2>2. ~Exists(thread[t].target) => thread[t].target # Root
    BY <1>a DEF Exists
  <2>3. users'[Root] = users[Root]
    BY <1>8, <1>a, <2>1, <2>2, AccountsAssumption DEF InsertUser
  <2>4. RootProtected' /\ Reply(t)
    BY <1>8, <1>a, <2>3 DEF InsertUser, RootProtected
  <2> QED BY <1>d, <2>4
<1>9. ASSUME NEW t \in Threads, UpdateRole(t) PROVE RootInv'
  <2>1. thread[t].target # Root
    BY <1>9, <1>b DEF UpdateRole, NotRoot
  <2>2. users'[Root] = users[Root]
    BY <1>9, <1>a, <1>b, <2>1, AccountsAssumption DEF UpdateRole
  <2>3. RootProtected'
    BY <1>a, <2>2 DEF RootProtected
  <2>4. Reply(t) \/ Goto(t, "revoke")
    BY <1>9 DEF UpdateRole
  <2> QED BY <1>d, <1>e, <2>3, <2>4
<1>10. ASSUME NEW t \in Threads, UpdatePassword(t) PROVE RootInv'
  <2>1. users'[Root].id = users[Root].id /\ users'[Root].role = users[Root].role
    <3>1. users[Root] \in Account
      BY <1>a, AccountsAssumption
    <3> QED BY <1>10, <1>a, <1>b, <3>1, AccountsAssumption DEF UpdatePassword, Account
  <2>2. RootProtected'
    BY <1>a, <2>1 DEF RootProtected
  <2>3. Reply(t) \/ Goto(t, "revoke")
    BY <1>10 DEF UpdatePassword
  <2> QED BY <1>d, <1>e, <2>2, <2>3
<1>11. ASSUME NEW t \in Threads, DeleteUser(t) PROVE RootInv'
  <2>1. thread[t].target # Root
    BY <1>11, <1>b DEF DeleteUser, NotRoot
  <2>2. users'[Root] = users[Root]
    BY <1>11, <1>a, <1>b, <2>1, AccountsAssumption DEF DeleteUser
  <2>3. RootProtected'
    BY <1>a, <2>2 DEF RootProtected
  <2>4. Reply(t) \/ Goto(t, "drop")
    BY <1>11 DEF DeleteUser
  <2> QED BY <1>d, <1>e, <2>3, <2>4
<1>12. ASSUME NEW t \in Threads, RevokeSessions(t) \/ DropSession(t) PROVE RootInv'
  BY <1>12, <1>c, <1>d DEF RevokeSessions, DropSession
<1>13. ASSUME Tick \/ UNCHANGED vars PROVE RootInv'
  BY <1>13, <1>c DEF Tick, vars, RootInv
<1>14. ASSUME Restart PROVE RootInv'
  BY <1>14, <1>c, IdleNotRoot DEF Restart, RootInv
<1> QED
  BY <1>1, <1>2, <1>3, <1>4, <1>5, <1>6, <1>7, <1>8, <1>9, <1>10, <1>11, <1>12,
     <1>13, <1>14 DEF Next, Step, Handle

\* However many requests interleave, the first account stays, keeps id 1 and stays
\* an Admin (_handle_remove_user, _handle_assign_role, _handle_delete_account).
THEOREM RootIsProtected == Spec => []RootProtected
<1>1. RootInv => RootProtected
  BY DEF RootInv
<1> QED BY TypeInit, TypeNext, RootInit, RootNext, <1>1, PTL DEF Spec

-----------------------------------------------------------------------------
(* One active session per user                                             *)

LEMMA NoSessions == sessions = <<>> => DOMAIN sessions = {}
OBVIOUS

LEMMA OneActiveInit == Init => OneActiveSession
<1>1. Init => DOMAIN sessions = {}
  BY NoSessions DEF Init
<1> QED BY <1>1 DEF OneActiveSession

\* Sessions that are removed and time that passes only make sessions inactive.
LEMMA OneActiveShrinks ==
  ASSUME TypeOK, OneActiveSession, now' \in Nat, now' >= now,
         DOMAIN sessions' \subseteq DOMAIN sessions,
         \A k \in DOMAIN sessions' : sessions'[k] = sessions[k]
  PROVE  OneActiveSession'
<1>1. ASSUME NEW k \in DOMAIN sessions', sessions'[k].expires > now'
      PROVE  k \in DOMAIN sessions /\ Active(sessions[k])
  <2>1. sessions[k].expires \in Nat /\ now \in Nat
    BY <1>1 DEF TypeOK, Session
  <2> QED BY <1>1, <2>1 DEF Active
<1> QED BY <1>1 DEF OneActiveSession, Active

LEMMA OneActiveNext == TypeOK /\ OneActiveSession /\ [Next]_vars => OneActiveSession'
<1> SUFFICES ASSUME TypeOK, OneActiveSession, [Next]_vars PROVE OneActiveSession'
  OBVIOUS
<1>a. now \in Nat
  BY DEF TypeOK
<1>b. ASSUME NEW tokens, sessions' = Without(tokens), now' = now PROVE OneActiveSession'
  BY <1>a, <1>b, OneActiveShrinks DEF Without
<1>c. ASSUME UNCHANGED <<sessions, now>> PROVE OneActiveSession'
  BY <1>a, <1>c, OneActiveShrinks
<1>1. ASSUME NEW t \in Threads, NEW n \in Names, NEW p \in Passwords, Authenticate(t, n, p)
      PROVE  OneActiveSession'
  BY <1>1, <1>c DEF Authenticate
<1>2. ASSUME NEW t \in Threads, Request(t) PROVE OneActiveSession'
  BY <1>2, <1>b, <1>c DEF Request, Dispatch
<1>3. ASSUME NEW t \in Threads, OpenSession(t) PROVE OneActiveSession'
  <2> DEFINE name == thread[t].name
             kept == DOMAIN sessions \ Stale(name)
  <2>1. /\ DOMAIN sessions' = kept \cup {Token} /\ sessions'[Token].name = name
        /\ \A k \in kept : k # Token => sessions'[k] = sessions[k]
        /\ now' = now
    BY <1>3 DEF OpenSession
  <2>2. ASSUME NEW k \in kept, k # Token, Active(sessions[k]) PROVE sessions[k].name # name
    BY <2>2 DEF Stale
  <2> HIDE DEF kept, name
  <2>3. \A k \in kept : k \in DOMAIN sessions
    BY DEF kept
  <2> QED BY <2>1, <2>2, <2>3 DEF OneActiveSession, Active
<1>4. ASSUME NEW t \in Threads,
             \/ CheckPermission(t) \/ ReadTarget(t) \/ CheckRoot(t) \/ ReadSelf(t)
             \/ InsertUser(t) \/ UpdateRole(t) \/ UpdatePassword(t) \/ DeleteUser(t)
      PROVE  OneActiveSession'
  BY <1>4, <1>c DEF CheckPermission, ReadTarget, CheckRoot, ReadSelf, InsertUser, UpdateRole,
     UpdatePassword, DeleteUser
<1>5. ASSUME NEW t \in Threads, RevokeSessions(t) \/ DropSession(t) PROVE OneActiveSession'
  BY <1>5, <1>b DEF RevokeSessions, DropSession
<1>6. ASSUME Tick PROVE OneActiveSession'
  BY <1>6, <1>a, OneActiveShrinks DEF Tick
<1>7. ASSUME Restart PROVE OneActiveSession'
  BY <1>7 DEF Restart, OneActiveSession
<1>8. ASSUME UNCHANGED vars PROVE OneActiveSession'
  BY <1>8, <1>c DEF vars
<1> QED BY <1>1, <1>2, <1>3, <1>4, <1>5, <1>6, <1>7, <1>8 DEF Next, Step, Handle

\* However logins interleave, a user never has two sessions that have not expired
\* (_create_session replaces and adds under one hold of _sessions_lock).
THEOREM OneSession == Spec => []OneActiveSession
BY TypeInit, TypeNext, OneActiveInit, OneActiveNext, PTL DEF Spec

-----------------------------------------------------------------------------
(* Ids                                                                     *)

\* An id that was handed out belongs to no account but, if any, the one of name n.
OnlyOf(id, n) == id <= lastId /\ \A m \in Names : Exists(m) /\ users[m].id = id => m = n

\* Every id in an account, in a session, or in the row that a login has read and
\* not yet put into a session is the id of one name.
IdInv ==
  /\ \A n \in Names : OnlyOf(users[n].id, n)
  /\ \A k \in DOMAIN sessions : OnlyOf(sessions[k].id, sessions[k].name)
  /\ \A t \in Threads : thread[t].pc = "session" => OnlyOf(thread[t].row.id, thread[t].name)

LEMMA IdInit == Init => IdInv
<1> SUFFICES ASSUME Init PROVE IdInv
  OBVIOUS
<1>1. PICK others \in SUBSET (Names \ {Root}) :
        \E id \in [others -> 2 .. InitialIds], role \in [others -> Roles] :
          /\ \A m, n \in others : id[m] = id[n] => m = n
          /\ users = [n \in Names |->
               IF n = Root THEN [NoAccount EXCEPT !.id = 1]
               ELSE IF n \in others THEN [NoAccount EXCEPT !.id = id[n], !.role = role[n]]
               ELSE NoAccount]
  BY DEF Init
<1>2. PICK id \in [others -> 2 .. InitialIds], role \in [others -> Roles] :
        /\ \A m, n \in others : id[m] = id[n] => m = n
        /\ users = [n \in Names |->
             IF n = Root THEN [NoAccount EXCEPT !.id = 1]
             ELSE IF n \in others THEN [NoAccount EXCEPT !.id = id[n], !.role = role[n]]
             ELSE NoAccount]
  BY <1>1
<1>3. \A n \in Names : users[n].id = IF n = Root THEN 1 ELSE IF n \in others THEN id[n] ELSE 0
  BY <1>2 DEF NoAccount
<1>4. ASSUME NEW n \in Names PROVE OnlyOf(users[n].id, n)
  <2>1. /\ \A m \in others : id[m] \in 2 .. InitialIds /\ m # Root
        /\ lastId = InitialIds
    BY <1>1 DEF Init
  <2>2. users[n].id <= lastId
    BY <1>3, <2>1, AccountsAssumption
  <2>3. ASSUME NEW m \in Names, users[m].id # 0, users[m].id = users[n].id PROVE m = n
    <3>1. CASE n = Root
      BY <1>3, <2>1, <2>3, <3>1
    <3>2. CASE n \in others
      <4>1. m \in others /\ id[m] = id[n]
        BY <1>3, <2>1, <2>3, <3>2
      <4> QED BY <1>2, <3>2, <4>1
    <3> QED BY <1>3, <2>3, <3>1, <3>2
  <2> QED BY <2>2, <2>3 DEF OnlyOf, Exists
<1>5. DOMAIN sessions = {} /\ \A t \in Threads : thread[t].pc = "idle"
  <2>1. sessions = <<>> /\ thread = [t \in Threads |-> Idle]
    BY DEF Init
  <2> QED BY <2>1, NoSessions, IdleType
<1> QED BY <1>4, <1>5 DEF IdInv

\* A step that hands out no id, opens no session and reads no row for a login.
LEMMA IdFrame ==
  ASSUME TypeOK, TypeOK', IdInv, lastId' = lastId,
         \A n \in Names : users'[n].id \in {0, users[n].id},
         DOMAIN sessions' \subseteq DOMAIN sessions,
         \A k \in DOMAIN sessions' : sessions'[k] = sessions[k],
         \A t \in Threads : thread'[t].pc = "session" => thread'[t] = thread[t]
  PROVE  IdInv'
<1>1. ASSUME NEW id \in Nat, NEW n \in Names, OnlyOf(id, n)
      PROVE  id <= lastId' /\ \A m \in Names : users'[m].id # 0 /\ users'[m].id = id => m = n
  BY <1>1 DEF OnlyOf, Exists
<1>2. ASSUME NEW n \in Names PROVE OnlyOf(users[n].id, n)'
  <2>1. users[n].id \in Nat /\ OnlyOf(users[n].id, n) /\ lastId \in Nat
    BY DEF TypeOK, Account, IdInv
  <2>2. CASE users'[n].id = 0
    BY <2>1, <2>2 DEF OnlyOf, Exists
  <2>3. CASE users'[n].id = users[n].id
    BY <1>1, <2>1, <2>3 DEF OnlyOf, Exists
  <2> QED BY <2>2, <2>3
<1>3. ASSUME NEW k \in DOMAIN sessions' PROVE OnlyOf(sessions[k].id, sessions[k].name)'
  <2>1. /\ sessions[k].id \in Nat /\ sessions[k].name \in Names
        /\ OnlyOf(sessions[k].id, sessions[k].name) /\ sessions'[k] = sessions[k]
    BY DEF TypeOK, Session, IdInv
  <2> QED BY <1>1, <2>1 DEF OnlyOf, Exists
<1>4. ASSUME NEW t \in Threads, thread'[t].pc = "session"
      PROVE  OnlyOf(thread[t].row.id, thread[t].name)'
  <2>1. /\ thread[t].row.id \in Nat /\ thread[t].name \in Names
        /\ OnlyOf(thread[t].row.id, thread[t].name) /\ thread'[t] = thread[t]
    BY <1>4 DEF TypeOK, ThreadState, Account, IdInv
  <2> QED BY <1>1, <2>1 DEF OnlyOf, Exists
<1> QED BY <1>2, <1>3, <1>4 DEF IdInv

LEMMA IdNext == TypeOK /\ TypeOK' /\ IdInv /\ [Next]_vars => IdInv'
<1> SUFFICES ASSUME TypeOK, TypeOK', IdInv, [Next]_vars PROVE IdInv'
  OBVIOUS
<1>a. /\ thread \in [Threads -> ThreadState] /\ users \in [Names -> Account]
      /\ lastId \in Nat /\ lastId' \in Nat
  BY DEF TypeOK
<1>b. ASSUME NEW t \in Threads PROVE
        /\ thread[t] \in ThreadState /\ thread[t].target \in Names /\ thread[t].name \in Names
        /\ thread[t].row.id \in Nat
  BY <1>a DEF ThreadState, Account
<1>c. ASSUME NEW t \in Threads, NEW pc \in Pcs \ {"session"}, Goto(t, pc)
      PROVE  \A u \in Threads : thread'[u].pc = "session" => thread'[u] = thread[u]
  BY <1>a, <1>b, <1>c DEF Goto, Become, ThreadState
<1>d. ASSUME NEW t \in Threads, Reply(t)
      PROVE  \A u \in Threads : thread'[u].pc = "session" => thread'[u] = thread[u]
  BY <1>a, <1>d, IdleType DEF Reply, Become
<1>e. ASSUME UNCHANGED users PROVE \A n \in Names : users'[n].id \in {0, users[n].id}
  BY <1>e
<1>f. ASSUME NEW tokens, sessions' = Without(tokens)
      PROVE  /\ DOMAIN sessions' \subseteq DOMAIN sessions
             /\ \A k \in DOMAIN sessions' : sessions'[k] = sessions[k]
  BY <1>f DEF Without
<1>1. ASSUME NEW t \in Threads, NEW n \in Names, NEW p \in Passwords, Authenticate(t, n, p)
      PROVE  IdInv'
  <2>1. UNCHANGED <<users, lastId, sessions>>
    BY <1>1 DEF Authenticate
  <2> DEFINE st == [Idle EXCEPT !.pc = "session", !.name = n, !.row = users[n]]
  <2>2. st.row = users[n] /\ st.name = n
    BY DEF Idle
  <2> HIDE DEF st
  <2>3. Become(t, st) \/ UNCHANGED thread
    BY <1>1 DEF Authenticate, st
  <2>4. ASSUME NEW u \in Threads, thread'[u].pc = "session"
        PROVE  OnlyOf(thread'[u].row.id, thread'[u].name)
    BY <1>a, <2>2, <2>3, <2>4 DEF Become, IdInv
  <2> QED BY <2>1, <2>4 DEF IdInv, OnlyOf, Exists
<1>2. ASSUME NEW t \in Threads, Request(t) PROVE IdInv'
  <2>1. PICK k \in DOMAIN sessions, cmd \in Commands, n \in Names, r \in Roles,
             p \in Passwords, q \in Passwords : Dispatch(t, k, cmd, n, r, p, q)
    BY <1>2 DEF Request, Commands
  <2> DEFINE st == [Idle EXCEPT !.pc = FirstStep(cmd), !.cmd = cmd, !.tok = k,
                          !.name = sessions[k].name, !.role = sessions[k].role,
                          !.target = n, !.newRole = r, !.given = p, !.new = q]
  <2>2. st.pc # "session"
    BY DEF Idle, FirstStep, Commands
  <2> HIDE DEF st
  <2>3. Become(t, st) \/ UNCHANGED thread
    BY <2>1 DEF Dispatch, st
  <2>4. \A u \in Threads : thread'[u].pc = "session" => thread'[u] = thread[u]
    BY <1>a, <2>2, <2>3 DEF Become
  <2>5. UNCHANGED <<users, lastId>>
    BY <2>1 DEF Dispatch
  <2>6. /\ DOMAIN sessions' \subseteq DOMAIN sessions
        /\ \A j \in DOMAIN sessions' : sessions'[j] = sessions[j]
    BY <1>f, <2>1 DEF Dispatch
  <2> QED BY <1>e, <2>4, <2>5, <2>6, IdFrame
<1>3. ASSUME NEW t \in Threads, OpenSession(t) PROVE IdInv'
  <2>1. UNCHANGED <<users, lastId>>
    BY <1>3 DEF OpenSession
  <2>2. \A u \in Threads : thread'[u].pc = "session" => thread'[u] = thread[u]
    BY <1>3, <1>d DEF OpenSession
  <2>3. OnlyOf(thread[t].row.id, thread[t].name)
    BY <1>3 DEF OpenSession, IdInv
  <2>4. ASSUME NEW k \in DOMAIN sessions' PROVE OnlyOf(sessions'[k].id, sessions'[k].name)
    <3>1. \/ sessions'[k].id = thread[t].row.id /\ sessions'[k].name = thread[t].name
          \/ k \in DOMAIN sessions /\ sessions'[k] = sessions[k]
      BY <1>3 DEF OpenSession
    <3> QED BY <2>3, <3>1 DEF IdInv
  <2> QED BY <2>1, <2>2, <2>4 DEF IdInv, OnlyOf, Exists
<1>4. ASSUME NEW t \in Threads,
             CheckPermission(t) \/ CheckRoot(t) \/ ReadSelf(t)
      PROVE  IdInv'
  <2>1. UNCHANGED <<users, lastId, sessions>>
    BY <1>4 DEF CheckPermission, CheckRoot, ReadSelf
  <2>2. Reply(t) \/ \E pc \in Pcs \ {"session"} : Goto(t, pc)
    BY <1>4 DEF CheckPermission, CheckRoot, ReadSelf, Pcs
  <2> QED BY <1>c, <1>d, <1>e, <2>1, <2>2, IdFrame
<1>5. ASSUME NEW t \in Threads, ReadTarget(t) PROVE IdInv'
  <2>1. UNCHANGED <<users, lastId, sessions>>
    BY <1>5 DEF ReadTarget
  <2> DEFINE seen == [thread[t] EXCEPT !.row = users[thread[t].target]]
             st(pc) == [seen EXCEPT !.pc = pc]
  <2>2. PICK pc \in Pcs \ {"session"} : Reply(t) \/ Become(t, st(pc))
    BY <1>5 DEF ReadTarget, Pcs
  <2>3. st(pc).pc = pc
    BY <1>b DEF ThreadState
  <2> DEFINE new == st(pc)
  <2>4. new.pc # "session" /\ (Reply(t) \/ Become(t, new))
    BY <2>2, <2>3
  <2> HIDE DEF new
  <2>5. \A u \in Threads : thread'[u].pc = "session" => thread'[u] = thread[u]
    BY <1>a, <1>d, <2>4 DEF Become
  <2> QED BY <1>e, <2>1, <2>5, IdFrame
<1>6. ASSUME NEW t \in Threads, InsertUser(t) PROVE IdInv'
  <2>1. UNCHANGED sessions /\ Reply(t)
    BY <1>6 DEF InsertUser
  <2>2. CASE Exists(thread[t].target)
    <3>1. UNCHANGED <<users, lastId>>
      BY <1>6, <2>2 DEF InsertUser
    <3> QED BY <1>d, <1>e, <2>1, <3>1, IdFrame
  <2>3. CASE ~Exists(thread[t].target)
    <3> DEFINE name == thread[t].target
    <3>1. /\ lastId' = lastId + 1 /\ users'[name].id = lastId + 1
          /\ \A n \in Names : n # name => users'[n] = users[n]
      BY <1>6, <1>a, <1>b, <2>3 DEF InsertUser, NextId
    <3>2. name \in Names
      BY <1>b
    <3> HIDE DEF name
    <3>3. ASSUME NEW id \in Nat, NEW n \in Names, OnlyOf(id, n)
          PROVE  /\ id <= lastId'
                 /\ \A m \in Names : users'[m].id # 0 /\ users'[m].id = id => m = n
      BY <1>a, <3>1, <3>3 DEF OnlyOf, Exists
    <3>4. ASSUME NEW n \in Names PROVE OnlyOf(users[n].id, n)'
      <4>1. \A m \in Names : users[m].id \in Nat /\ OnlyOf(users[m].id, m)
        BY <1>a DEF Account, IdInv
      <4>2. CASE n = name
        BY <1>a, <3>1, <3>2, <4>1, <4>2 DEF OnlyOf, Exists
      <4>3. CASE n # name
        BY <3>1, <3>3, <4>1, <4>3 DEF OnlyOf, Exists
      <4> QED BY <4>2, <4>3
    <3>5. ASSUME NEW k \in DOMAIN sessions' PROVE OnlyOf(sessions[k].id, sessions[k].name)'
      <4>1. /\ sessions[k].id \in Nat /\ sessions[k].name \in Names
            /\ OnlyOf(sessions[k].id, sessions[k].name) /\ sessions'[k] = sessions[k]
        BY <2>1 DEF TypeOK, Session, IdInv
      <4> QED BY <3>3, <4>1 DEF OnlyOf, Exists
    <3>6. ASSUME NEW u \in Threads, thread'[u].pc = "session"
          PROVE  OnlyOf(thread[u].row.id, thread[u].name)'
      <4>1. /\ thread[u].row.id \in Nat /\ thread[u].name \in Names
            /\ OnlyOf(thread[u].row.id, thread[u].name) /\ thread'[u] = thread[u]
        BY <1>b, <1>d, <2>1, <3>6 DEF IdInv
      <4> QED BY <3>3, <4>1 DEF OnlyOf, Exists
    <3> QED BY <3>4, <3>5, <3>6 DEF IdInv
  <2> QED BY <2>2, <2>3
<1>7. ASSUME NEW t \in Threads, UpdateRole(t) \/ UpdatePassword(t) PROVE IdInv'
  <2>1. UNCHANGED <<lastId, sessions>>
    BY <1>7 DEF UpdateRole, UpdatePassword
  <2>2. \A n \in Names : users'[n].id = users[n].id
    BY <1>7, <1>a DEF UpdateRole, UpdatePassword, Account
  <2>3. Reply(t) \/ Goto(t, "revoke")
    BY <1>7 DEF UpdateRole, UpdatePassword
  <2> QED BY <1>c, <1>d, <2>1, <2>2, <2>3, IdFrame DEF Pcs
<1>8. ASSUME NEW t \in Threads, DeleteUser(t) PROVE IdInv'
  <2>1. UNCHANGED <<lastId, sessions>>
    BY <1>8 DEF DeleteUser
  <2>2. \A n \in Names : users'[n].id \in {0, users[n].id}
    BY <1>8, <1>a DEF DeleteUser, NoAccount
  <2>3. Reply(t) \/ Goto(t, "drop")
    BY <1>8 DEF DeleteUser
  <2> QED BY <1>c, <1>d, <2>1, <2>2, <2>3, IdFrame DEF Pcs
<1>9. ASSUME NEW t \in Threads, RevokeSessions(t) \/ DropSession(t) PROVE IdInv'
  <2>1. UNCHANGED <<users, lastId>> /\ Reply(t)
    BY <1>9 DEF RevokeSessions, DropSession
  <2>2. /\ DOMAIN sessions' \subseteq DOMAIN sessions
        /\ \A j \in DOMAIN sessions' : sessions'[j] = sessions[j]
    BY <1>9, <1>f DEF RevokeSessions, DropSession
  <2> QED BY <1>d, <1>e, <2>1, <2>2, IdFrame
<1>10. ASSUME Tick \/ UNCHANGED vars PROVE IdInv'
  <2>1. UNCHANGED <<users, lastId, sessions, thread>>
    BY <1>10 DEF Tick, vars
  <2> QED BY <1>e, <2>1, IdFrame
<1>11. ASSUME Restart PROVE IdInv'
  <2>1. /\ UNCHANGED <<users, lastId>> /\ DOMAIN sessions' = {}
        /\ \A t \in Threads : thread'[t].pc = "idle"
    BY <1>11, IdleType DEF Restart
  <2> QED BY <1>e, <2>1, IdFrame
<1> QED
  BY <1>1, <1>2, <1>3, <1>4, <1>5, <1>6, <1>7, <1>8, <1>9, <1>10, <1>11 DEF Next, Step, Handle

\* The id in a session never comes to be the id of another user, whatever accounts
\* are deleted and created again (users.id is AUTOINCREMENT).
THEOREM IdsIdentify == Spec => []SessionIdentity
<1>1. IdInv => SessionIdentity
  BY DEF IdInv, OnlyOf, SessionIdentity
<1> QED BY TypeInit, TypeNext, IdInit, IdNext, <1>1, PTL DEF Spec

-----------------------------------------------------------------------------
(* One connection at a time                                                *)

\* What a thread that acts on an account knows of it, as nobody else acts.
AdminAccount(n) == Exists(n) /\ users[n].role = Admin
Entitled(st) ==
  /\ st.pc = "session" => st.row.id # 0 /\ st.row = users[st.name]
  /\ st.pc = "self" => st.target = st.name
  /\ st.pc = "delete" /\ AdminAccount(st.target) => st.name = Root
  /\ st.pc = "password" /\ AdminAccount(st.target) => st.name \in {st.target, Root}

\* A session agrees with its account, or is about to be revoked.
Revoking(st, n) == st.pc = "revoke" /\ st.target = n
Agrees(s, row) == row.id = s.id => row.role = s.role /\ row.password = s.password
Current(k) ==
  LET s == sessions[k]
  IN /\ s.id # 0
     /\ Agrees(s, users[s.name]) \/ \E t \in Threads : Revoking(thread[t], s.name)

SerialInv == (\A t \in Threads : Entitled(thread[t])) /\ \A k \in DOMAIN sessions : Current(k)

LEMMA IdleEntitled == Entitled(Idle) /\ ~ \E n : Revoking(Idle, n)
BY DEF Entitled, Revoking, Idle

\* Thread t comes to st and neither accounts nor sessions change.
LEMMA SerialMove ==
  ASSUME TypeOK, SerialInv, NEW t \in Threads, NEW st, Become(t, st), Entitled(st),
         UNCHANGED <<users, sessions>>, thread[t].pc # "revoke"
  PROVE  SerialInv'
<1>1. thread'[t] = st /\ \A u \in Threads \ {t} : thread'[u] = thread[u]
  BY DEF Become, TypeOK
<1>2. ASSUME NEW u \in Threads PROVE Entitled(thread[u])'
  BY <1>1 DEF SerialInv, Entitled, AdminAccount, Exists
<1>3. ASSUME NEW k \in DOMAIN sessions PROVE Current(k)'
  BY <1>1, <1>3 DEF SerialInv, Current, Agrees, Revoking
<1> QED BY <1>2, <1>3 DEF SerialInv

\* Thread t, the only one that is at work, comes to st.
LEMMA SerialAct ==
  ASSUME TypeOK, Alone, NEW t \in Threads, thread[t].pc # "idle", NEW st, Become(t, st),
         st.pc \in {"idle", "revoke", "drop"},
         \A k \in DOMAIN sessions' :
           /\ sessions'[k].id # 0
           /\ Agrees(sessions'[k], users'[sessions'[k].name]) \/ Revoking(st, sessions'[k].name)
  PROVE  SerialInv'
<1>1. thread'[t] = st /\ \A u \in Threads \ {t} : thread'[u] = Idle
  BY IdleType DEF Become, TypeOK, Alone
<1>2. ASSUME NEW u \in Threads PROVE Entitled(thread[u])'
  BY <1>1, IdleType DEF Entitled
<1>3. ASSUME NEW k \in DOMAIN sessions' PROVE Current(k)'
  BY <1>1, <1>3 DEF Current, Agrees, Revoking
<1> QED BY <1>2, <1>3 DEF SerialInv

LEMMA SerialNext ==
  TypeOK /\ RootInv /\ IdInv /\ SerialInv /\ Alone /\ [Next]_vars => SerialInv'
<1> SUFFICES ASSUME TypeOK, RootInv, IdInv, SerialInv, Alone, [Next]_vars PROVE SerialInv'
  OBVIOUS
<1>a. /\ thread \in [Threads -> ThreadState] /\ users \in [Names -> Account]
      /\ lastId \in Nat /\ users[Root].id = 1 /\ Root \in Names
      /\ \A t \in Threads : /\ thread[t] \in ThreadState /\ thread[t].target \in Names
                            /\ thread[t].name \in Names /\ Entitled(thread[t])
      /\ \A k \in DOMAIN sessions : sessions[k] \in Session /\ sessions[k].name \in Names /\ Current(k)
  BY AccountsAssumption DEF TypeOK, ThreadState, RootInv, RootProtected, SerialInv, Session
<1>b. ASSUME NEW t \in Threads, Reply(t), UNCHANGED <<users, sessions>>, thread[t].pc # "revoke"
      PROVE  SerialInv'
  BY <1>b, IdleEntitled, SerialMove DEF Reply
<1>c. ASSUME NEW t \in Threads, NEW pc, Goto(t, pc), UNCHANGED <<users, sessions>>,
             thread[t].pc \notin {"revoke", "session"}, pc \notin {"session", "self"},
             pc = "delete" /\ AdminAccount(thread[t].target) => thread[t].name = Root,
             pc = "password" /\ AdminAccount(thread[t].target) => thread[t].name \in {thread[t].target, Root}
      PROVE  SerialInv'
  <2> DEFINE st == [thread[t] EXCEPT !.pc = pc]
  <2>1. st.pc = pc /\ st.target = thread[t].target /\ st.name = thread[t].name /\ Become(t, st)
    BY <1>a, <1>c DEF ThreadState, Goto
  <2> HIDE DEF st
  <2>2. Entitled(st)
    BY <1>c, <2>1 DEF Entitled
  <2> QED BY <1>c, <2>1, <2>2, SerialMove
\* With nobody else at work every session agrees with its account.
<1>d. ASSUME NEW t \in Threads, thread[t].pc \notin {"idle", "revoke"}, NEW k \in DOMAIN sessions
      PROVE  sessions[k].id # 0 /\ Agrees(sessions[k], users[sessions[k].name])
  <2>1. \A u \in Threads : thread[u] = Idle \/ u = t
    BY <1>d, IdleType DEF Alone
  <2>2. \A u \in Threads : ~Revoking(thread[u], sessions[k].name)
    BY <1>d, <2>1, IdleEntitled DEF Revoking
  <2> QED BY <1>a, <2>2 DEF Current
<1>e. \A n \in Names : IsRootAdmin(n) => n = Root
  BY <1>a DEF IsRootAdmin, IdInv, OnlyOf, Exists
<1>f. ASSUME NEW tokens, sessions' = Without(tokens)
      PROVE  /\ DOMAIN sessions' = DOMAIN sessions \ tokens
             /\ \A k \in DOMAIN sessions' : sessions'[k] = sessions[k]
  BY <1>f DEF Without
<1>g. ASSUME UNCHANGED <<users, thread>>, DOMAIN sessions' \subseteq DOMAIN sessions,
             \A k \in DOMAIN sessions' : sessions'[k] = sessions[k]
      PROVE  SerialInv'
  <2>1. \A t \in Threads : Entitled(thread[t])'
    BY <1>a, <1>g DEF Entitled, AdminAccount, Exists
  <2>2. ASSUME NEW k \in DOMAIN sessions' PROVE Current(k)'
    <3>1. Current(k)
      BY <1>a, <1>g
    <3> QED BY <1>g, <3>1 DEF Current, Agrees, Revoking
  <2> QED BY <2>1, <2>2 DEF SerialInv
<1>1. ASSUME NEW t \in Threads, NEW n \in Names, NEW p \in Passwords, Authenticate(t, n, p)
      PROVE  SerialInv'
  <2> DEFINE st == [Idle EXCEPT !.pc = "session", !.name = n, !.row = users[n]]
  <2>1. UNCHANGED <<users, sessions>> /\ thread[t].pc = "idle"
    BY <1>1 DEF Authenticate, Arrive
  <2>2. CASE UNCHANGED thread
    BY <1>g, <2>1, <2>2
  <2>3. CASE Exists(n) /\ Become(t, st)
    <3>1. Entitled(st)
      BY <2>3 DEF Entitled, Exists, Idle
    <3> HIDE DEF st
    <3> QED BY <2>1, <2>3, <3>1, SerialMove
  <2> QED BY <1>1, <2>2, <2>3 DEF Authenticate
<1>2. ASSUME NEW t \in Threads, Request(t) PROVE SerialInv'
  <2>1. PICK k \in DOMAIN sessions, cmd \in Commands, n \in Names, r \in Roles,
             p \in Passwords, q \in Passwords :
          /\ Dispatch(t, k, cmd, n, r, p, q)
          /\ cmd \in {"change_password", "delete_account"} => n = sessions[k].name
    BY <1>2 DEF Request, Commands
  <2> DEFINE st == [Idle EXCEPT !.pc = FirstStep(cmd), !.cmd = cmd, !.tok = k,
                          !.name = sessions[k].name, !.role = sessions[k].role,
                          !.target = n, !.newRole = r, !.given = p, !.new = q]
  <2>2. UNCHANGED users /\ thread[t].pc = "idle"
    BY <2>1 DEF Dispatch, Arrive
  <2>3. CASE UNCHANGED thread /\ sessions' = Without({k})
    BY <1>f, <1>g, <2>2, <2>3
  <2>4. CASE Become(t, st) /\ UNCHANGED sessions
    <3>1. st.pc = FirstStep(cmd) /\ st.name = sessions[k].name /\ st.target = n
      BY DEF Idle
    <3>2. FirstStep(cmd) \in {"drop", "self", "perm"} /\ (FirstStep(cmd) = "self" => n = sessions[k].name)
      BY <2>1 DEF FirstStep, Commands
    <3> HIDE DEF st
    <3>3. Entitled(st)
      BY <3>1, <3>2 DEF Entitled
    <3> QED BY <2>2, <2>4, <3>3, SerialMove
  <2> QED BY <2>1, <2>3, <2>4 DEF Dispatch
<1>3. ASSUME NEW t \in Threads, OpenSession(t) PROVE SerialInv'
  <2> DEFINE st == thread[t]
             new == [name |-> st.name, id |-> st.row.id, role |-> st.row.role,
                     expires |-> now + TTL, password |-> st.row.password]
  <2>1. /\ st.pc = "session" /\ Become(t, Idle) /\ UNCHANGED users
        /\ \A k \in DOMAIN sessions' : sessions'[k] = new \/ (k \in DOMAIN sessions /\ sessions'[k] = sessions[k])
    BY <1>3 DEF OpenSession, Reply
  <2>2. st.row.id # 0 /\ st.row = users[st.name]
    BY <1>a, <2>1 DEF Entitled
  <2>3. new.id # 0 /\ Agrees(new, users[new.name])
    BY <2>2 DEF Agrees
  <2> HIDE DEF new, Idle
  <2>4. ASSUME NEW k \in DOMAIN sessions'
        PROVE  sessions'[k].id # 0 /\ Agrees(sessions'[k], users'[sessions'[k].name])
    BY <1>d, <2>1, <2>3 DEF Agrees
  <2> QED BY <2>1, <2>4, IdleType, SerialAct
<1>4. ASSUME NEW t \in Threads, CheckPermission(t) PROVE SerialInv'
  <2>1. thread[t].pc = "perm" /\ UNCHANGED <<users, sessions>>
        /\ (Reply(t) \/ Goto(t, "insert") \/ Goto(t, "target"))
    BY <1>4 DEF CheckPermission
  <2> QED BY <1>b, <1>c, <2>1
<1>5. ASSUME NEW t \in Threads, ReadTarget(t) PROVE SerialInv'
  <2> DEFINE row == users[thread[t].target]
             st(pc) == [[thread[t] EXCEPT !.row = row] EXCEPT !.pc = pc]
  <2>1. thread[t].pc = "target" /\ UNCHANGED <<users, sessions>>
    BY <1>5 DEF ReadTarget
  <2>2. ASSUME NEW pc \in {"root", "delete", "role", "password"}, Become(t, st(pc)),
               pc \in {"delete", "password"} => ~AdminAccount(thread[t].target)
        PROVE  SerialInv'
    <3> DEFINE new == st(pc)
    <3>1. new.pc = pc /\ new.target = thread[t].target
      BY <1>a DEF ThreadState
    <3> HIDE DEF new
    <3>2. Entitled(new)
      BY <2>2, <3>1 DEF Entitled
    <3> QED BY <2>1, <2>2, <3>2, SerialMove DEF new
  <2>3. \/ Reply(t) \/ Become(t, st("root")) \/ Become(t, st("role"))
        \/ Become(t, st("delete")) /\ ~AdminAccount(thread[t].target)
        \/ Become(t, st("password")) /\ ~AdminAccount(thread[t].target)
    BY <1>5 DEF ReadTarget, AdminAccount, Exists
  <2> HIDE DEF st
  <2> QED BY <1>b, <2>1, <2>2, <2>3
<1>6. ASSUME NEW t \in Threads, CheckRoot(t) PROVE SerialInv'
  <2>1. thread[t].pc = "root" /\ UNCHANGED <<users, sessions>>
        /\ (Reply(t) \/ (IsRootAdmin(thread[t].name) /\ (Goto(t, "delete") \/ Goto(t, "password"))))
    BY <1>6 DEF CheckRoot
  <2>2. IsRootAdmin(thread[t].name) => thread[t].name = Root
    BY <1>a, <1>e
  <2> QED BY <1>b, <1>c, <2>1, <2>2
<1>7. ASSUME NEW t \in Threads, ReadSelf(t) PROVE SerialInv'
  <2>1. /\ thread[t].pc = "self" /\ UNCHANGED <<users, sessions>> /\ thread[t].target = thread[t].name
        /\ \/ Reply(t) \/ Goto(t, "password")
           \/ ~AdminAccount(thread[t].name) /\ Goto(t, "delete")
    BY <1>7, <1>a DEF ReadSelf, Entitled, AdminAccount
  <2> QED BY <1>b, <1>c, <2>1
<1>8. ASSUME NEW t \in Threads, InsertUser(t) PROVE SerialInv'
  <2> DEFINE n == thread[t].target
  <2>1. thread[t].pc = "insert" /\ UNCHANGED sessions /\ Become(t, Idle)
        /\ \/ UNCHANGED users
           \/ users'[n].id = lastId + 1 /\ \A m \in Names \ {n} : users'[m] = users[m]
    BY <1>8, <1>a DEF InsertUser, Reply, NextId
  <2> HIDE DEF Idle
  <2>2. ASSUME NEW k \in DOMAIN sessions'
        PROVE  sessions'[k].id # 0 /\ Agrees(sessions'[k], users'[sessions'[k].name])
    <3>1. sessions[k].id # 0 /\ Agrees(sessions[k], users[sessions[k].name]) /\ sessions[k].name \in Names
      BY <1>a, <1>d, <2>1
    <3>2. sessions[k].id <= lastId /\ sessions[k].id \in Nat
      BY <1>a, <2>1 DEF IdInv, OnlyOf, Session
    <3>3. sessions[k].id # lastId + 1
      BY <1>a, <3>2
    <3> QED BY <2>1, <3>1, <3>3 DEF Agrees
  <2> QED BY <2>1, <2>2, IdleType, SerialAct
<1>9. ASSUME NEW t \in Threads, UpdateRole(t) \/ UpdatePassword(t) PROVE SerialInv'
  <2> DEFINE n == thread[t].target
             st == [thread[t] EXCEPT !.pc = "revoke"]
  <2>1. /\ thread[t].pc \in {"role", "password"} /\ UNCHANGED sessions
        /\ \A m \in Names \ {n} : users'[m] = users[m]
        /\ \/ Become(t, Idle) /\ UNCHANGED users
           \/ Become(t, st)
    BY <1>9, <1>a DEF UpdateRole, UpdatePassword, Reply, Goto
  <2>2. st.pc = "revoke" /\ st.target = n
    BY <1>a DEF ThreadState
  <2> HIDE DEF Idle, st, n
  <2>3. CASE Become(t, Idle) /\ UNCHANGED users
    BY <1>b, <2>1, <2>3 DEF Reply
  <2>4. CASE Become(t, st)
    <3>1. ASSUME NEW k \in DOMAIN sessions'
          PROVE  /\ sessions'[k].id # 0
                 /\ Agrees(sessions'[k], users'[sessions'[k].name]) \/ Revoking(st, sessions'[k].name)
      BY <1>a, <1>d, <2>1, <2>2 DEF Agrees, Revoking
    <3>2. thread[t].pc # "idle" /\ st.pc \in {"idle", "revoke", "drop"}
      BY <2>1, <2>2
    <3> QED BY <2>4, <3>1, <3>2, SerialAct
  <2> QED BY <2>1, <2>3, <2>4
<1>10. ASSUME NEW t \in Threads, DeleteUser(t) PROVE SerialInv'
  <2> DEFINE n == thread[t].target
             drop == [thread[t] EXCEPT !.pc = "drop"]
  <2>1. /\ thread[t].pc = "delete" /\ UNCHANGED sessions /\ (Become(t, Idle) \/ Become(t, drop))
        /\ users'[n].id = 0 /\ \A m \in Names \ {n} : users'[m] = users[m]
    BY <1>10, <1>a DEF DeleteUser, Reply, Goto, NoAccount
  <2>2. drop.pc = "drop"
    BY <1>a DEF ThreadState
  <2> HIDE DEF Idle, drop, n
  <2>3. ASSUME NEW k \in DOMAIN sessions'
        PROVE  sessions'[k].id # 0 /\ Agrees(sessions'[k], users'[sessions'[k].name])
    BY <1>a, <1>d, <2>1 DEF Agrees
  <2> QED BY <2>1, <2>2, <2>3, IdleType, SerialAct
<1>11. ASSUME NEW t \in Threads, RevokeSessions(t) \/ DropSession(t) PROVE SerialInv'
  <2> DEFINE gone == IF thread[t].pc = "revoke"
                     THEN {k \in DOMAIN sessions : sessions[k].name = thread[t].target}
                     ELSE {thread[t].tok}
  <2>1. /\ thread[t].pc \in {"revoke", "drop"} /\ UNCHANGED users /\ Become(t, Idle)
        /\ sessions' = Without(gone)
    BY <1>11 DEF RevokeSessions, DropSession, Reply
  <2>2. \A u \in Threads : thread[u] = Idle \/ u = t
    BY <2>1, IdleType DEF Alone
  <2> HIDE DEF Idle
  <2>3. ASSUME NEW k \in DOMAIN sessions'
        PROVE  sessions'[k].id # 0 /\ Agrees(sessions'[k], users'[sessions'[k].name])
    <3>1. k \in DOMAIN sessions /\ k \notin gone /\ sessions'[k] = sessions[k]
      BY <1>f, <2>1
    <3>2. \A u \in Threads : ~Revoking(thread[u], sessions[k].name)
      BY <2>1, <2>2, <3>1, IdleEntitled DEF Revoking
    <3> QED BY <1>a, <2>1, <3>1, <3>2 DEF Current
  <2> QED BY <2>1, <2>3, IdleType, SerialAct
<1>12. ASSUME Tick \/ UNCHANGED vars PROVE SerialInv'
  BY <1>12, <1>g DEF Tick, vars
<1>13. ASSUME Restart PROVE SerialInv'
  <2>1. DOMAIN sessions' = {} /\ \A t \in Threads : thread'[t] = Idle
    BY <1>13 DEF Restart
  <2> HIDE DEF Idle
  <2>2. \A t \in Threads : Entitled(thread[t])'
    BY <2>1, IdleType DEF Entitled
  <2> QED BY <2>1, <2>2 DEF SerialInv
<1> QED
  BY <1>1, <1>2, <1>3, <1>4, <1>5, <1>6, <1>7, <1>8, <1>9, <1>10, <1>11, <1>12, <1>13
     DEF Next, Step, Handle

\* Only who is entitled to takes an Admin's account or sets his password.
LEMMA AdminsStep ==
  TypeOK /\ SerialInv /\ [Next]_vars => AdminsDeletedByRoot /\ AdminsResetByRoot
<1> SUFFICES ASSUME TypeOK, SerialInv, [Next]_vars PROVE AdminsDeletedByRoot /\ AdminsResetByRoot
  OBVIOUS
<1>a. /\ users \in [Names -> Account]
      /\ \A t \in Threads : thread[t] \in ThreadState /\ Entitled(thread[t]) /\ thread[t].target \in Names
  BY DEF TypeOK, SerialInv, ThreadState
<1>1. CASE UNCHANGED users
  BY <1>1 DEF AdminsDeletedByRoot, AdminsResetByRoot, AdminDeletion, AdminReset, Exists
<1>2. CASE \E t \in Threads : InsertUser(t) \/ UpdateRole(t)
  <2>1. \A n \in Names : Exists(n) => users'[n].id = users[n].id /\ users'[n].password = users[n].password
    BY <1>2, <1>a DEF InsertUser, UpdateRole, Account
  <2> QED BY <2>1 DEF AdminsDeletedByRoot, AdminsResetByRoot, AdminDeletion, AdminReset, Exists
<1>3. ASSUME NEW t \in Threads, UpdatePassword(t)
      PROVE  AdminsDeletedByRoot /\ AdminsResetByRoot
  <2> DEFINE m == thread[t].target
  <2>1. /\ thread[t].pc = "password" /\ \A n \in Names : users'[n].id = users[n].id
        /\ \A n \in Names \ {m} : users'[n] = users[n]
    BY <1>3, <1>a DEF UpdatePassword, Account
  <2>2. thread'[t] # thread[t]
    <3>1. thread'[t].pc \in {"revoke", "idle"}
      BY <1>3, <1>a, IdleType DEF UpdatePassword, Goto, Reply, Become, TypeOK, ThreadState
    <3> QED BY <2>1, <3>1
  <2>3. AdminAccount(m) => thread[t].name \in {m, Root}
    BY <1>a, <2>1 DEF Entitled
  <2> QED BY <2>1, <2>2, <2>3 DEF AdminsDeletedByRoot, AdminsResetByRoot, AdminDeletion, AdminReset,
          AdminAccount, Exists
<1>4. ASSUME NEW t \in Threads, DeleteUser(t)
      PROVE  AdminsDeletedByRoot /\ AdminsResetByRoot
  <2> DEFINE m == thread[t].target
  <2>1. /\ thread[t].pc = "delete" /\ users'[m].id = 0 /\ \A n \in Names \ {m} : users'[n] = users[n]
    BY <1>4, <1>a DEF DeleteUser, NoAccount
  <2>2. thread'[t] # thread[t]
    <3>1. thread'[t].pc \in {"drop", "idle"}
      BY <1>4, <1>a, IdleType DEF DeleteUser, Goto, Reply, Become, TypeOK, ThreadState
    <3> QED BY <2>1, <3>1
  <2>3. AdminAccount(m) => thread[t].name = Root
    BY <1>a, <2>1 DEF Entitled
  <2> QED BY <2>1, <2>2, <2>3 DEF AdminsDeletedByRoot, AdminsResetByRoot, AdminDeletion, AdminReset,
          AdminAccount, Exists
<1>5. \/ UNCHANGED users \/ \E t \in Threads : InsertUser(t) \/ UpdateRole(t)
      \/ \E t \in Threads : UpdatePassword(t) \/ DeleteUser(t)
  <2>1. ASSUME NEW t \in Threads, Request(t) PROVE UNCHANGED users
    BY <2>1 DEF Request, Dispatch
  <2>2. ASSUME NEW t \in Threads,
               \/ \E n \in Names, p \in Passwords : Authenticate(t, n, p)
               \/ OpenSession(t) \/ CheckPermission(t) \/ ReadTarget(t) \/ CheckRoot(t) \/ ReadSelf(t)
               \/ RevokeSessions(t) \/ DropSession(t)
        PROVE  UNCHANGED users
    BY <2>2 DEF Authenticate, OpenSession, CheckPermission, ReadTarget, CheckRoot, ReadSelf,
       RevokeSessions, DropSession
  <2>3. Tick \/ Restart \/ UNCHANGED vars => UNCHANGED users
    BY DEF Tick, Restart, vars
  <2> QED BY <2>1, <2>2, <2>3 DEF Next, Step, Handle
<1> QED BY <1>1, <1>2, <1>3, <1>4, <1>5

SerialOK == TypeOK /\ RootInv /\ IdInv /\ SerialInv /\ Alone

LEMMA SerialInit == Init => SerialOK
<1> SUFFICES ASSUME Init PROVE SerialOK
  OBVIOUS
<1>1. sessions = <<>> /\ \A t \in Threads : thread[t] = Idle
  BY DEF Init
<1> HIDE DEF Idle
<1>2. Alone
  BY <1>1 DEF Alone
<1>3. SerialInv
  BY <1>1, NoSessions, IdleEntitled DEF SerialInv
<1> QED BY <1>2, <1>3, TypeInit, RootInit, IdInit DEF SerialOK

\* The two variables that MCSpec adds to Sessions: where all usernames are used, one
\* connection is served at a time.
MCOK == cast = Names => SerialOK

LEMMA MCInvariant == MCSpec => []MCOK
<1>1. MCInit => MCOK
  BY SerialInit DEF MCInit, MCOK
<1>2. MCOK /\ [MCNext]_<<vars, cast>> => MCOK'
  <2> SUFFICES ASSUME MCOK, [MCNext]_<<vars, cast>>, cast = Names PROVE SerialOK'
    BY DEF MCOK, MCNext
  <2>1. SerialOK
    BY DEF MCOK
  <2>2. CASE Next /\ Alone'
    BY <2>1, <2>2, TypeNext, RootNext, IdNext, SerialNext DEF SerialOK
  <2>3. CASE UNCHANGED vars
    <3>1. TypeOK' /\ RootInv' /\ IdInv' /\ SerialInv'
      BY <2>1, <2>3, TypeNext, RootNext, IdNext, SerialNext DEF SerialOK
    <3>2. Alone'
      BY <2>1, <2>3 DEF SerialOK, Alone, vars
    <3> QED BY <3>1, <3>2 DEF SerialOK
  <2> QED BY <2>2, <2>3 DEF MCNext
<1> QED BY <1>1, <1>2, PTL DEF MCSpec

\* With one connection at a time, and while no request is being handled, a session whose
\* user id is the one its account has now has the account's role and password: every
\* change of one is followed by a revocation of the sessions opened before it.  Sessions
\* that carry the id of an account that was removed are not spoken of.
THEOREM SessionsFollowAccounts == MCSpec => []SessionsCurrent
<1>1. MCOK => SessionsCurrent
  <2> SUFFICES ASSUME SerialInv, Quiet, NEW k \in DOMAIN sessions,
                      users[sessions[k].name].id = sessions[k].id
               PROVE  /\ users[sessions[k].name].role = sessions[k].role
                      /\ users[sessions[k].name].password = sessions[k].password
    BY DEF MCOK, SerialOK, SessionsCurrent, SessionRoleCurrent, SessionPasswordCurrent
  <2>1. \A t \in Threads : ~Revoking(thread[t], sessions[k].name)
    BY DEF Quiet, Revoking
  <2> QED BY <2>1 DEF SerialInv, Current, Agrees
<1> QED BY <1>1, MCInvariant, PTL

\* With one connection at a time an account that is an Admin's when it goes was deleted
\* by the root admin, and nobody else sets the password of another Admin.  Changes of an
\* Admin's role are not spoken of: assign_role asks for manage_users only.
THEOREM OnlyRootDeletesOrResetsAdmins == MCSpec => AdminsDeletedOrResetByRoot
<1>1. MCOK /\ [MCNext]_<<vars, cast>> => [cast = Names => AdminsDeletedByRoot /\ AdminsResetByRoot]_vars
  <2> SUFFICES ASSUME MCOK, [MCNext]_<<vars, cast>>, cast = Names
               PROVE  AdminsDeletedByRoot /\ AdminsResetByRoot
    OBVIOUS
  <2>1. SerialOK /\ [Next]_vars
    BY DEF MCOK, MCNext
  <2> QED BY <2>1, AdminsStep DEF SerialOK
<1> QED BY <1>1, MCInvariant, PTL DEF MCSpec, AdminsDeletedOrResetByRoot

=============================================================================
