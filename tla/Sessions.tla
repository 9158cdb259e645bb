------------------------------ MODULE Sessions ------------------------------
(***************************************************************************)
(* Accounts and login sessions of the EFS-TDM server.                      *)
(*                                                                         *)
(* Accounts are rows of the table users; sessions live in the memory of    *)
(* the server process.  Every connection has a thread, so the handlers of  *)
(* server_pkg/server/server.py run concurrently, and each reads and writes *)
(* the database in statements of their own: a check made by one statement  *)
(* may be out of date when the next one runs.  A step of a thread is one   *)
(* database statement or one critical section of _sessions_lock.           *)
(*                                                                         *)
(* Passwords are members of a small set (a hash verifies the password it   *)
(* was made from), tokens are numbers that are never drawn twice, and time *)
(* is a counter.  Writing the audit entries is the subject of AuditLog.    *)
(***************************************************************************)
EXTENDS Naturals, FiniteSets

CONSTANTS
  Threads,      \* connection threads
  Names,        \* usernames
  Root,         \* the username of the first account created
  Roles,        \* rows of the table roles
  ManageRoles,  \* the roles whose permissions include manage_users
  Passwords,    \* passwords that satisfy the policy
  TTL,          \* session.ttl_seconds
  InitialIds,   \* ids handed out before the server starts
  MaxRequests,  \* bound: requests of a behaviour
  MaxTime,      \* bound: the clock
  MaxCrashes    \* bound: restarts

Admin == "Admin"

ASSUME AccountsAssumption ==
  /\ Root \in Names /\ Admin \in Roles /\ ManageRoles \subseteq Roles /\ Passwords # {}
  /\ InitialIds \in Nat \ {0}

ASSUME SessionAssumption ==
  TTL \in Nat /\ MaxRequests \in Nat /\ MaxTime \in Nat /\ MaxCrashes \in Nat

VARIABLES
  users,     \* username -> row of the table users; id 0 where there is none
  lastId,    \* sqlite_sequence of users (AUTOINCREMENT)
  sessions,  \* _sessions: token -> record
  drawn,     \* number of tokens drawn
  now,       \* time.time()
  thread,    \* what each thread is doing
  requests, crashes  \* counters the bounds limit

counters == <<requests, crashes>>
vars == <<users, lastId, sessions, drawn, now, thread, counters>>

Account == [id: Nat, role: Roles, password: Passwords]
Exists(n) == users[n].id # 0

\* The password a session was opened with is a history component: the code does
\* not keep it.
Session == [name: Names, id: Nat, role: Roles, expires: Nat, password: Passwords]

Commands == {"login", "logout", "add_user", "remove_user", "assign_role",
             "change_password", "reset_password", "delete_account"}
Pcs == {"idle", "session", "perm", "target", "root", "self",
        "insert", "role", "password", "delete", "revoke", "drop"}

\* tok, name and role are the session's as _get_session returned it; target,
\* newRole, given and new are the request's fields; row is an account read.
ThreadState ==
  [pc: Pcs, cmd: Commands, tok: Nat, name: Names, role: Roles,
   target: Names, newRole: Roles, given: Passwords, new: Passwords, row: Account]

AnyPassword == CHOOSE p \in Passwords : TRUE
NoAccount == [id |-> 0, role |-> Admin, password |-> AnyPassword]
Idle == [pc |-> "idle", cmd |-> "login", tok |-> 0, name |-> Root, role |-> Admin,
         target |-> Root, newRole |-> Admin,
         given |-> AnyPassword, new |-> AnyPassword, row |-> NoAccount]

\* What the table, the dictionary _sessions and the handlers' local variables can
\* hold; every token in use has been drawn.
TypeOK ==
  /\ users \in [Names -> Account] /\ lastId \in Nat
  /\ DOMAIN sessions \subseteq 1 .. drawn
  /\ \A k \in DOMAIN sessions : sessions[k] \in Session
  /\ drawn \in Nat /\ now \in Nat
  /\ thread \in [Threads -> ThreadState]
  /\ requests \in Nat /\ crashes \in Nat

\* The database as the administrator left it: the first account, with id 1, is
\* an Admin (README, "Create the first admin"); others may exist.
Init ==
  /\ \E others \in SUBSET (Names \ {Root}) :
       \E id \in [others -> 2 .. InitialIds], role \in [others -> Roles] :
         /\ \A m, n \in others : id[m] = id[n] => m = n
         /\ users = [n \in Names |->
              IF n = Root THEN [NoAccount EXCEPT !.id = 1]
              ELSE IF n \in others THEN [NoAccount EXCEPT !.id = id[n], !.role = role[n]]
              ELSE NoAccount]
  /\ lastId = InitialIds
  /\ sessions = <<>> /\ drawn = 0 /\ now = 0
  /\ thread = [t \in Threads |-> Idle]
  /\ requests = 0 /\ crashes = 0

Become(t, st) == thread' = [thread EXCEPT ![t] = st]
Goto(t, pc) == Become(t, [thread[t] EXCEPT !.pc = pc])
Reply(t) == Become(t, Idle)

Without(tokens) == [k \in DOMAIN sessions \ tokens |-> sessions[k]]

Arrive(t) ==
  /\ thread[t].pc = "idle"
  /\ requests < MaxRequests /\ requests' = requests + 1
  /\ UNCHANGED crashes

-----------------------------------------------------------------------------
(* Login                                                                   *)

\* authenticate reads the row and verifies the password; a wrong password or an
\* unknown name is answered at once.
Authenticate(t, n, p) ==
  /\ Arrive(t)
  /\ IF Exists(n) /\ users[n].password = p
     THEN Become(t, [Idle EXCEPT !.pc = "session", !.name = n, !.row = users[n]])
     ELSE UNCHANGED thread
  /\ UNCHANGED <<users, lastId, sessions, drawn, now>>

Active(s) == s.expires > now

\* Mutant: the comparison is the wrong way round.
Stale_Expired(n) == {k \in DOMAIN sessions : sessions[k].name = n /\ ~Active(sessions[k])}

\* The sessions that a login of n replaces.
Stale(n) == {k \in DOMAIN sessions : sessions[k].name = n /\ Active(sessions[k])}

\* Mutant: the counter lags behind the tokens.
Token_Ahead == drawn + 2

\* secrets.token_urlsafe: never drawn before.
Token == drawn + 1

\* Under _sessions_lock: drop the active sessions of the name, add the new one
\* with the role and the id that authenticate read.
OpenSession(t) ==
  /\ thread[t].pc = "session"
  /\ LET st == thread[t]
         new == [name |-> st.name, id |-> st.row.id, role |-> st.row.role,
                 expires |-> now + TTL, password |-> st.row.password]
     IN sessions' = [k \in (DOMAIN sessions \ Stale(st.name)) \cup {Token} |->
                       IF k = Token THEN new ELSE sessions[k]]
  /\ drawn' = drawn + 1
  /\ Reply(t)
  /\ UNCHANGED <<users, lastId, now, counters>>

-----------------------------------------------------------------------------
(* Requests with a session                                                 *)

\* Where the handler of a command starts.
FirstStep(cmd) ==
  CASE cmd = "logout" -> "drop"
    [] cmd \in {"change_password", "delete_account"} -> "self"
    [] OTHER -> "perm"

\* _dispatch looks the token up; an expired session is removed and refused.
Dispatch(t, k, cmd, target, newRole, given, new) ==
  /\ Arrive(t)
  /\ k \in DOMAIN sessions
  /\ IF now > sessions[k].expires
     THEN sessions' = Without({k}) /\ UNCHANGED thread
     ELSE /\ Become(t, [Idle EXCEPT !.pc = FirstStep(cmd), !.cmd = cmd, !.tok = k,
                          !.name = sessions[k].name, !.role = sessions[k].role,
                          !.target = target, !.newRole = newRole,
                          !.given = given, !.new = new])
          /\ UNCHANGED sessions
  /\ UNCHANGED <<users, lastId, drawn, now>>

\* The fields a client sends with each command.
Request(t) ==
  \E k \in DOMAIN sessions, n \in Names, r \in Roles, p, q \in Passwords :
    \/ n = Root /\ r = Admin /\ p = AnyPassword /\ q = AnyPassword
       /\ Dispatch(t, k, "logout", n, r, p, q)
    \/ p = AnyPassword /\ Dispatch(t, k, "add_user", n, r, p, q)
    \/ p = AnyPassword /\ q = AnyPassword /\ Dispatch(t, k, "assign_role", n, r, p, q)
    \/ r = Admin /\ p = AnyPassword /\ q = AnyPassword
       /\ Dispatch(t, k, "remove_user", n, r, p, q)
    \/ r = Admin /\ p = AnyPassword /\ Dispatch(t, k, "reset_password", n, r, p, q)
    \/ n = sessions[k].name /\ r = Admin /\ Dispatch(t, k, "change_password", n, r, p, q)
    \/ n = sessions[k].name /\ r = Admin /\ q = AnyPassword
       /\ Dispatch(t, k, "delete_account", n, r, p, q)

\* check_permission(username, "manage_users") reads the caller's current role;
\* then the refusals that need no database: managing oneself, and granting Admin
\* from a session that is not an Admin's.
CheckPermission(t) ==
  /\ thread[t].pc = "perm"
  /\ LET st == thread[t]
         allowed == Exists(st.name) /\ users[st.name].role \in ManageRoles
         self == st.cmd \in {"remove_user", "reset_password"} /\ st.target = st.name
         grant == st.cmd = "assign_role" /\ st.newRole = Admin /\ st.role # Admin
     IN IF ~allowed \/ self \/ grant THEN Reply(t)
        ELSE Goto(t, IF st.cmd = "add_user" THEN "insert" ELSE "target")
  /\ UNCHANGED <<users, lastId, sessions, drawn, now, counters>>

\* Mutant: only a target that is not an Admin is looked at.
FirstAccount_NoAdmin(row) == row.id = 1 /\ row.role # Admin

\* The account that can neither be deleted nor get another role.
FirstAccount(row) == row.id = 1

\* get_user(target): what is known of the target from here on is this row.
ReadTarget(t) ==
  /\ thread[t].pc = "target"
  /\ LET st == thread[t]
         row == users[st.target]
         seen == [st EXCEPT !.row = row]
     IN \/ /\ st.cmd = "remove_user"
           /\ IF row.id = 0 THEN Reply(t)
              ELSE IF row.role = Admin THEN Become(t, [seen EXCEPT !.pc = "root"])
              ELSE IF FirstAccount(row) THEN Reply(t)
              ELSE Become(t, [seen EXCEPT !.pc = "delete"])
        \/ /\ st.cmd = "assign_role"
           /\ IF FirstAccount(row) THEN Reply(t) ELSE Become(t, [seen EXCEPT !.pc = "role"])
        \/ /\ st.cmd = "reset_password"
           /\ Become(t, [seen EXCEPT
                !.pc = IF row.id # 0 /\ row.role = Admin THEN "root" ELSE "password"])
  /\ UNCHANGED <<users, lastId, sessions, drawn, now, counters>>

\* Mutant: any Admin will do.
IsRootAdmin_AnyAdmin(n) == users[n].role = Admin

IsRootAdmin(n) == users[n].id = 1

\* _is_root_admin(username) for a target that was an Admin when it was read.
CheckRoot(t) ==
  /\ thread[t].pc = "root"
  /\ LET st == thread[t]
     IN IF ~IsRootAdmin(st.name) \/ (st.cmd = "remove_user" /\ FirstAccount(st.row))
        THEN Reply(t)
        ELSE Goto(t, IF st.cmd = "remove_user" THEN "delete" ELSE "password")
  /\ UNCHANGED <<users, lastId, sessions, drawn, now, counters>>

\* change_password and delete_account read the caller's row and verify the
\* password that the request gives.
ReadSelf(t) ==
  /\ thread[t].pc = "self"
  /\ LET st == thread[t]
         row == users[st.name]
         known == row.id # 0 /\ row.password = st.given
     IN \/ st.cmd = "change_password" /\ known /\ Goto(t, "password")
        \/ st.cmd = "delete_account" /\ known /\ row.role # Admin /\ Goto(t, "delete")
        \/ (~known \/ (st.cmd = "delete_account" /\ row.role = Admin)) /\ Reply(t)
  /\ UNCHANGED <<users, lastId, sessions, drawn, now, counters>>

-----------------------------------------------------------------------------
(* Writes                                                                  *)

\* Mutant: ids without AUTOINCREMENT, one more than the largest in the table.
NextId_Reused == CHOOSE i \in 1 .. lastId + 1 :
  /\ \A n \in Names : users[n].id < i
  /\ \E n \in Names : users[n].id = i - 1

NextId == lastId + 1

\* create_user: the name is UNIQUE, the id is the next of the sequence.
InsertUser(t) ==
  /\ thread[t].pc = "insert"
  /\ LET st == thread[t]
     IN IF Exists(st.target)
        THEN UNCHANGED <<users, lastId>>
        ELSE /\ lastId' = NextId
             /\ users' = [users EXCEPT ![st.target] =
                  [id |-> NextId, role |-> st.newRole, password |-> st.new]]
  /\ Reply(t)
  /\ UNCHANGED <<sessions, drawn, now, counters>>

\* Mutant: the sessions are not revoked.
UpdateRole_NoRevoke(t) ==
  /\ thread[t].pc = "role"
  /\ LET st == thread[t]
     IN users' = IF Exists(st.target)
                 THEN [users EXCEPT ![st.target].role = st.newRole] ELSE users
  /\ Reply(t)
  /\ UNCHANGED <<lastId, sessions, drawn, now, counters>>

\* update_user_role, by name; nothing to revoke when no row was updated.
UpdateRole(t) ==
  /\ thread[t].pc = "role"
  /\ LET st == thread[t]
     IN IF Exists(st.target)
        THEN users' = [users EXCEPT ![st.target].role = st.newRole] /\ Goto(t, "revoke")
        ELSE Reply(t) /\ UNCHANGED users
  /\ UNCHANGED <<lastId, sessions, drawn, now, counters>>

\* update_user_password, by name; change_password revokes whatever it returned.
UpdatePassword(t) ==
  /\ thread[t].pc = "password"
  /\ LET st == thread[t]
     IN /\ users' = IF Exists(st.target)
                    THEN [users EXCEPT ![st.target].password = st.new] ELSE users
        /\ IF Exists(st.target) \/ st.cmd = "change_password"
           THEN Goto(t, "revoke") ELSE Reply(t)
  /\ UNCHANGED <<lastId, sessions, drawn, now, counters>>

\* delete_user, by name; only delete_account goes on to drop a session.
DeleteUser(t) ==
  /\ thread[t].pc = "delete"
  /\ users' = [users EXCEPT ![thread[t].target] = NoAccount]
  /\ IF thread[t].cmd = "delete_account" THEN Goto(t, "drop") ELSE Reply(t)
  /\ UNCHANGED <<lastId, sessions, drawn, now, counters>>

\* _revoke_user_sessions(target).
RevokeSessions(t) ==
  /\ thread[t].pc = "revoke"
  /\ sessions' = Without({k \in DOMAIN sessions : sessions[k].name = thread[t].target})
  /\ Reply(t)
  /\ UNCHANGED <<users, lastId, drawn, now, counters>>

\* _delete_session of the request's own token.
DropSession(t) ==
  /\ thread[t].pc = "drop"
  /\ sessions' = Without({thread[t].tok})
  /\ Reply(t)
  /\ UNCHANGED <<users, lastId, drawn, now, counters>>

-----------------------------------------------------------------------------

Tick ==
  /\ now < MaxTime /\ now' = now + 1
  /\ UNCHANGED <<users, lastId, sessions, drawn, thread, counters>>

\* The process is restarted: sessions are gone, accounts stay.
Restart ==
  /\ crashes < MaxCrashes /\ crashes' = crashes + 1
  /\ sessions' = <<>>
  /\ thread' = [t \in Threads |-> Idle]
  /\ UNCHANGED <<users, lastId, drawn, now, requests>>

Handle(t) ==
  \/ OpenSession(t) \/ CheckPermission(t) \/ ReadTarget(t) \/ CheckRoot(t) \/ ReadSelf(t)
  \/ InsertUser(t) \/ UpdateRole(t) \/ UpdatePassword(t) \/ DeleteUser(t)
  \/ RevokeSessions(t) \/ DropSession(t)

Step(t) ==
  \/ \E n \in Names, p \in Passwords : Authenticate(t, n, p)
  \/ Request(t)
  \/ Handle(t)

Next == (\E t \in Threads : Step(t)) \/ Tick \/ Restart

Spec == Init /\ [][Next]_vars

-----------------------------------------------------------------------------
(* What accounts and sessions promise                                      *)

\* A second login revokes the first: at no time has a user two sessions that
\* have not expired (INTERNALS.md, "One-session-per-user").
OneActiveSession ==
  \A j, k \in DOMAIN sessions :
    sessions[j].name = sessions[k].name /\ Active(sessions[j]) /\ Active(sessions[k])
      => j = k

\* The first account is there, is an Admin and has id 1 whatever requests run
\* (INTERNALS.md, "cannot be deleted or demoted by anyone, including itself").
RootProtected == users[Root].id = 1 /\ users[Root].role = Admin

\* The user_id that a session carries never comes to mean another user: sessions
\* outlive accounts, so ids must not be reused (users.id is AUTOINCREMENT).
SessionIdentity ==
  \A k \in DOMAIN sessions, n \in Names :
    Exists(n) /\ users[n].id = sessions[k].id => n = sessions[k].name

\* When no request is being handled, a session of an account that still exists
\* has the account's role (INTERNALS.md, "assign-role immediately revokes all
\* active sessions for the target user").
Quiet == \A t \in Threads : thread[t].pc = "idle"
SessionRoleCurrent ==
  Quiet => \A k \in DOMAIN sessions :
             users[sessions[k].name].id = sessions[k].id =>
               users[sessions[k].name].role = sessions[k].role

\* Likewise a session was opened with the password that is in force
\* (INTERNALS.md, "change-password immediately revokes all sessions").
SessionPasswordCurrent ==
  Quiet => \A k \in DOMAIN sessions :
             users[sessions[k].name].id = sessions[k].id =>
               users[sessions[k].name].password = sessions[k].password

\* An account that is an Admin when it goes is deleted by the root admin
\* (INTERNALS.md, "Only the root admin can delete other admin accounts").
AdminDeletion(n) == Exists(n) /\ users[n].role = Admin /\ users'[n].id = 0
AdminsDeletedByRoot ==
  \A n \in Names : AdminDeletion(n) =>
    \E t \in Threads : /\ thread[t].pc = "delete" /\ thread'[t] # thread[t]
                       /\ thread[t].name = Root

\* The password of an Admin other than the caller's own is only reset by the
\* root admin (INTERNALS.md, "or reset another admin's password").
AdminReset(n) ==
  Exists(n) /\ users'[n].id = users[n].id /\ users[n].role = Admin
  /\ users'[n].password # users[n].password
AdminsResetByRoot ==
  \A n \in Names : AdminReset(n) =>
    \E t \in Threads : /\ thread[t].pc = "password" /\ thread'[t] # thread[t]
                       /\ thread[t].name \in {n, Root}

=============================================================================
