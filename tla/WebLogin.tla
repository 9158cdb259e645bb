------------------------------ MODULE WebLogin ------------------------------
(***************************************************************************)
(* Login of a user through the browser, and the client's session file.     *)
(*                                                                         *)
(* A client draws a key, registers it with the web server, opens a browser *)
(* with it and polls.  do_login logs the user in at the TLS server and     *)
(* leaves the token under the key of the browser's cookie; the poll that   *)
(* finds it takes it away.  The client writes the token to a file that all *)
(* clients of the user on that machine share, and opens a shell.           *)
(*                                                                         *)
(* All tokens here are of one user: a login replaces his session and no    *)
(* other (Sessions!OpenSession).  The limits that turn attempts away are   *)
(* the subject of RateLimit; here a submission is one that passed them.    *)
(***************************************************************************)
EXTENDS Naturals

CONSTANTS
  Clients,      \* client processes on one machine
  Browsers,     \* requests of do_login at one time
  PollTime,     \* deadline of the polling, 120 s
  PendingTTL,   \* _PENDING_TTL, 300 s
  SessionTTL,   \* session.ttl_seconds
  MaxKeys,      \* bound: polling keys drawn
  MaxTokens,    \* bound: logins
  MaxTime,      \* bound: the clock
  MaxFaults     \* bound: lost responses, broken connections, kills, stops of the server

WebLoginAssumption ==
  /\ {PollTime, PendingTTL, SessionTTL, MaxKeys, MaxTokens, MaxTime, MaxFaults} \subseteq Nat
  \* the values of web/app.py and client.py
  /\ PollTime < PendingTTL /\ PollTime > 0

VARIABLES
  up,        \* server.py runs; the web server is one of its threads
  sessions,  \* _sessions: token -> expiry
  tokens,    \* tokens drawn
  pending,   \* _pending: key -> token and expiry
  browser,   \* what each request of do_login is doing
  keys,      \* keys drawn
  file,      \* SESSION_FILE; NoToken where there is none
  client,    \* what each client is doing
  lost,      \* history: tokens that a failure, an expiry or a later login threw away
  stray,     \* history: tokens left under a key that nobody polled, or polled any longer
  taken,     \* history: how often a poll answered with each token
  alone,     \* history: no two clients ran and no two logins were made at one time
  now, faults

vars ==
  <<up, sessions, tokens, pending, browser, keys, file, client, lost, stray, taken, alone, now,
    faults>>

NoToken == 0
NoKey == 0   \* the cookie of a browser that opened the page by itself
Alive(t) == t \in DOMAIN sessions /\ now <= sessions[t]

Pcs == {"down", "register", "poll", "save", "start", "whoami", "prompt", "exit"}

\* token is the one of the process (of exit: the one it is revoking), polling says
\* that the shell runs inside the loop of web_login, linked that its connection
\* is alive.
ClientState == [pc : Pcs, key : Nat, deadline : Nat, token : Nat, polling : BOOLEAN, linked : BOOLEAN]
Down == [pc |-> "down", key |-> NoKey, deadline |-> 0, token |-> NoToken,
         polling |-> FALSE, linked |-> FALSE]
NoLogin == [pc |-> "idle", key |-> NoKey, token |-> NoToken]

\* What the dictionaries, the file and the processes can hold; the file and the
\* clients have tokens that were drawn, and a shell has one.
TypeOK ==
  /\ DOMAIN sessions \subseteq 1 .. tokens
  /\ \A k \in DOMAIN pending : k \in 0 .. keys /\ pending[k].token \in 1 .. tokens
  /\ \A b \in Browsers : browser[b].pc \in {"idle", "tls", "put"} /\ browser[b].token \in 0 .. tokens
  /\ file \in 0 .. tokens
  /\ \A c \in Clients : /\ client[c] \in ClientState /\ client[c].token \in 0 .. tokens
                        /\ client[c].pc \in {"whoami", "prompt"} => client[c].token # NoToken
                        /\ client[c].pc = "poll" => client[c].key # NoKey
  /\ lost \cup stray \subseteq 1 .. tokens /\ alone \in BOOLEAN /\ now \in Nat

\* The file may be there from a client that was killed; its session is gone with an
\* earlier run of the server.
Init ==
  /\ up = TRUE /\ sessions = <<>> /\ tokens = 1 /\ pending = <<>>
  /\ browser = [b \in Browsers |-> NoLogin]
  /\ keys = 0 /\ file \in {NoToken, 1}
  /\ client = [c \in Clients |-> Down]
  /\ lost = {} /\ stray = {} /\ taken = <<0>> /\ alone = TRUE /\ now = 0 /\ faults = 0

Become(c, st) == client' = [client EXCEPT ![c] = st]
Fault == faults < MaxFaults /\ faults' = faults + 1

-----------------------------------------------------------------------------
(* The web server                                                          *)

\* authenticate has accepted name and password: the request goes on to the TLS
\* server.
Submit(b, k) ==
  /\ up /\ browser[b].pc = "idle" /\ tokens < MaxTokens
  /\ browser' = [browser EXCEPT ![b] = [pc |-> "tls", key |-> k, token |-> NoToken]]
  /\ alone' = (alone /\ \A other \in Browsers : browser[other].pc = "idle")
  /\ UNCHANGED <<up, sessions, tokens, pending, keys, file, client, lost, stray, taken, now, faults>>

\* _tls_login: a new session in place of the user's old one.  The page says so when
\* the server is unreachable or the answer does not arrive.
TlsLogin(b) ==
  /\ browser[b].pc = "tls" /\ up /\ tokens < MaxTokens
  /\ tokens' = tokens + 1 /\ sessions' = [t \in {tokens'} |-> now + SessionTTL]
  /\ taken' = [t \in 1 .. tokens' |-> IF t \in DOMAIN taken THEN taken[t] ELSE 0]
  /\ \/ /\ browser' = [browser EXCEPT ![b] = [@ EXCEPT !.pc = "put", !.token = tokens']]
        /\ UNCHANGED <<lost, faults>>
     \/ /\ Fault /\ lost' = lost \cup {tokens'}
        /\ browser' = [browser EXCEPT ![b] = NoLogin]
  /\ UNCHANGED <<up, pending, keys, file, client, stray, alone, now>>

\* Mutant: the entry lasts as long as the page was open.
Expiry_Short == now + PollTime - 1

Expiry == now + PendingTTL

\* _purge_expired
Purged == {k \in DOMAIN pending : pending[k].expires < now}

\* The entries that stay beside the new one.
Kept(key) == DOMAIN pending \ (Purged \cup {key})

\* A client waits for the entry of a key, until it gives up.
Polled(key) == \E c \in Clients : client[c].pc = "poll" /\ client[c].key = key

\* Under _pending_lock, whether anybody polls the key or not.
PutPending(b) ==
  /\ browser[b].pc = "put"
  /\ LET key == browser[b].key
     IN /\ pending' = [k \in Kept(key) \cup {key} |->
                         IF k = key THEN [token |-> browser[b].token, expires |-> Expiry] ELSE pending[k]]
        /\ lost' = lost \cup {pending[k].token : k \in Purged \cup ({key} \cap DOMAIN pending)}
        /\ stray' = IF Polled(key) THEN stray ELSE stray \cup {browser[b].token}
  /\ browser' = [browser EXCEPT ![b] = NoLogin]
  /\ UNCHANGED <<up, sessions, tokens, keys, file, client, taken, alone, now, faults>>

\* Mutant: the entry stays.
Popped_Never(key) == pending

\* _pending.pop
Popped(key) == [k \in DOMAIN pending \ {key} |-> pending[k]]

Answered(t) == taken' = [taken EXCEPT ![t] = @ + 1]

\* The entry goes whether it has expired or not; the answer may not arrive.
Poll(c) ==
  /\ up /\ client[c].pc = "poll" /\ now < client[c].deadline
  /\ client[c].key \in DOMAIN pending
  /\ LET entry == pending[client[c].key]
     IN /\ pending' = Popped(client[c].key)
        /\ \/ /\ entry.expires > now /\ Answered(entry.token)
              /\ Become(c, [client[c] EXCEPT !.pc = "save", !.token = entry.token])
              /\ UNCHANGED <<lost, faults>>
           \/ /\ entry.expires <= now /\ lost' = lost \cup {entry.token}
              /\ UNCHANGED <<client, taken, faults>>
           \/ /\ Fault /\ lost' = lost \cup {entry.token}
              /\ UNCHANGED <<client, taken>>
  /\ UNCHANGED <<up, sessions, tokens, browser, keys, file, stray, alone, now>>

-----------------------------------------------------------------------------
(* The client: web_login                                                   *)

ServerSide == <<up, sessions, tokens, pending, browser, taken, now>>
World == <<ServerSide, alone, stray>>

\* Another client of the user is running.
Accompanied(c) == \E other \in Clients \ {c} : client[other].pc # "down"

\* With a session file the client goes straight to the shell.
RunWithFile(c) ==
  /\ client[c].pc = "down" /\ file # NoToken
  /\ Become(c, [Down EXCEPT !.pc = "start"])
  /\ alone' = (alone /\ ~Accompanied(c))
  /\ UNCHANGED <<ServerSide, keys, file, lost, stray, faults>>

Run(c) ==
  /\ client[c].pc = "down" /\ file = NoToken
  /\ Become(c, [Down EXCEPT !.pc = "register"])
  /\ alone' = (alone /\ ~Accompanied(c))
  /\ UNCHANGED <<ServerSide, keys, file, lost, stray, faults>>

\* A fresh key goes to the server with GET /?init=<key> and to the browser; then the
\* deadline is set.
Register(c) ==
  /\ client[c].pc = "register" /\ keys < MaxKeys
  /\ IF up THEN /\ keys' = keys + 1
                /\ Become(c, [client[c] EXCEPT !.pc = "poll", !.key = keys', !.deadline = now + PollTime])
     ELSE UNCHANGED keys /\ Become(c, Down)
  /\ UNCHANGED <<World, file, lost, faults>>

\* What would have come to client c: the token it is to save, or what lies under the key
\* that it polls.
Expected(c) ==
  CASE client[c].pc = "save" -> {client[c].token}
    [] client[c].pc = "poll" -> {pending[k].token : k \in {client[c].key} \cap DOMAIN pending}
    [] OTHER -> {}

\* Nobody tells the server that the client has given up.
TimeOut(c) ==
  /\ client[c].pc = "poll" /\ now >= client[c].deadline
  /\ Become(c, Down)
  /\ stray' = stray \cup Expected(c)
  /\ UNCHANGED <<ServerSide, alone, keys, file, lost, faults>>

SaveToken(c) ==
  /\ client[c].pc = "save"
  /\ file' = client[c].token
  /\ Become(c, [client[c] EXCEPT !.pc = "start", !.polling = TRUE])
  /\ UNCHANGED <<World, keys, lost, faults>>

-----------------------------------------------------------------------------
(* The client: cmd_shell                                                   *)

\* An exception that the shell does not handle ends the process, or is passed over
\* by the loop of web_login, which polls on.
Escape(st) == IF st.polling THEN [st EXCEPT !.pc = "poll", !.polling = FALSE, !.linked = FALSE] ELSE Down

\* Mutant: the file is not looked at again.
StartShell_Trusting(c) ==
  /\ client[c].pc = "start"
  /\ Become(c, [client[c] EXCEPT !.pc = "whoami", !.token = file, !.linked = TRUE]) /\ UNCHANGED file
  /\ UNCHANGED <<World, keys, lost, faults>>

\* A refused connection removes the file.
StartShell(c) ==
  /\ client[c].pc = "start"
  /\ IF file = NoToken THEN Become(c, Down) /\ UNCHANGED file
     ELSE IF up
     THEN Become(c, [client[c] EXCEPT !.pc = "whoami", !.token = file, !.linked = TRUE]) /\ UNCHANGED file
     ELSE Become(c, Down) /\ file' = NoToken
  /\ UNCHANGED <<World, keys, lost, faults>>

\* whoami; the file is written again, with the role.  SessionExpired and
\* ConnectionError are not handled.
WhoAmI(c) ==
  /\ client[c].pc = "whoami"
  /\ IF client[c].linked /\ Alive(client[c].token)
     THEN Become(c, [client[c] EXCEPT !.pc = "prompt"]) /\ file' = client[c].token
     ELSE Become(c, Escape(client[c])) /\ UNCHANGED file
  /\ UNCHANGED <<World, keys, lost, faults>>

\* _clear_session; without a connection the server keeps the session.
Forget(c, t) ==
  /\ file' = NoToken
  /\ lost' = IF client[c].linked THEN lost ELSE lost \cup {t}

\* A command other than cd is sent with the token of the file.
Command(c) ==
  /\ client[c].pc = "prompt"
  /\ IF file = NoToken THEN Become(c, Down) /\ UNCHANGED <<file, lost>>
     ELSE IF client[c].linked /\ Alive(file) THEN UNCHANGED <<client, file, lost>>
     ELSE Become(c, Down) /\ Forget(c, file)
  /\ UNCHANGED <<World, keys, faults>>

\* cd is sent with the token of the process, outside the try.
ChangeDirectory(c) ==
  /\ client[c].pc = "prompt"
  /\ Become(c, IF file = NoToken THEN Down
               ELSE IF client[c].linked /\ Alive(client[c].token) THEN client[c]
               ELSE Escape(client[c]))
  /\ UNCHANGED <<World, keys, file, lost, faults>>

\* exit, logout, the end of the input and Ctrl-C at the prompt.
Leave(c) ==
  /\ client[c].pc = "prompt"
  /\ Become(c, IF file = NoToken THEN Down ELSE [client[c] EXCEPT !.pc = "exit", !.token = file])
  /\ UNCHANGED <<World, keys, file, lost, faults>>

Without(t) == [k \in DOMAIN sessions \ {t} |-> sessions[k]]

\* Mutant: the file goes and the server is not told.
Logout_Local(c) ==
  /\ client[c].pc = "exit"
  /\ Forget(c, client[c].token) /\ Become(c, Down)
  /\ UNCHANGED <<World, keys, faults>>

\* _do_shell_logout: the server forgets the token if it can be told, and the file
\* goes.
Logout(c) ==
  /\ client[c].pc = "exit"
  /\ sessions' = IF client[c].linked THEN Without(client[c].token) ELSE sessions
  /\ Forget(c, client[c].token) /\ Become(c, Down)
  /\ UNCHANGED <<up, tokens, pending, browser, taken, stray, alone, now, keys, faults>>

-----------------------------------------------------------------------------
(* Failures and time                                                       *)

\* The process is killed; nobody calls _revoke_session_on_exit.
Kill(c) ==
  /\ client[c].pc # "down" /\ Fault
  /\ Become(c, Down)
  /\ lost' = lost \cup Expected(c)
  /\ UNCHANGED <<World, keys, file>>

BreakConnection(c) ==
  /\ client[c].linked /\ Fault
  /\ Become(c, [client[c] EXCEPT !.linked = FALSE])
  /\ UNCHANGED <<World, keys, file, lost>>

\* Sessions, pending entries and the requests of browsers are in its memory.
Stop ==
  /\ up /\ Fault
  /\ up' = FALSE /\ sessions' = <<>> /\ pending' = <<>>
  /\ browser' = [b \in Browsers |-> NoLogin]
  /\ client' = [c \in Clients |-> [client[c] EXCEPT !.linked = FALSE]]
  /\ UNCHANGED <<tokens, keys, file, lost, stray, taken, alone, now>>

StartServer ==
  /\ ~up /\ up' = TRUE
  /\ UNCHANGED <<sessions, tokens, pending, browser, keys, file, client, lost, stray, taken, alone, now,
                 faults>>

Tick ==
  /\ now < MaxTime /\ now' = now + 1
  /\ UNCHANGED <<up, sessions, tokens, pending, browser, keys, file, client, lost, stray, taken, alone, faults>>

-----------------------------------------------------------------------------

Step(c) ==
  \/ RunWithFile(c) \/ Run(c) \/ Register(c) \/ Poll(c) \/ TimeOut(c) \/ SaveToken(c)
  \/ StartShell(c) \/ WhoAmI(c)

Serve(b) == TlsLogin(b) \/ PutPending(b)

Next ==
  \/ \E b \in Browsers : Serve(b) \/ \E k \in {NoKey} \cup 1 .. keys : Submit(b, k)
  \/ \E c \in Clients : \/ Step(c) \/ Kill(c) \/ BreakConnection(c)
                        \/ Command(c) \/ ChangeDirectory(c) \/ Leave(c) \/ Logout(c)
  \/ Stop \/ StartServer \/ Tick

Spec == Init /\ [][Next]_vars

-----------------------------------------------------------------------------
(* Properties                                                              *)

\* The entry of a client that still polls has not expired: a login that was made
\* while the client waits is not thrown away by its poll or by the purge of
\* another login.
PendingOutlivesPolling ==
  \A c \in Clients :
    client[c].pc = "poll" /\ now < client[c].deadline /\ client[c].key \in DOMAIN pending
      => pending[client[c].key].expires > now

\* A token is handed out once, also when the shell fails and the client polls on.
TakenOnce == \A t \in 1 .. tokens : taken[t] <= 1

\* What the file, the clients and the requests of browsers have, and what a client is
\* still polling for.
Held ==
  {file} \cup {pending[k].token : k \in {l \in DOMAIN pending : Polled(l)}}
    \cup {browser[b].token : b \in Browsers} \cup {client[c].token : c \in Clients}

\* While there is one client and one login at a time, a session that lives on the
\* server is one that the user can reach, or that a failure, an expiry or a later
\* login has cost him, or whose login came when no client polled its key or the client
\* gave up before it had looked: what a client has collected it does not leave behind.
SessionsReachable ==
  alone => \A t \in DOMAIN sessions : Alive(t) => t \in Held \cup lost \cup stray

=============================================================================
