---------------------------- MODULE TablesProofs ----------------------------
(***************************************************************************)
(* The small components, for any number of clients, requests, tokens and   *)
(* limits: a token of the web login is handed out once, the entry of a     *)
(* client that polls outlives its polling, no session that a client has    *)
(* collected is left where its user cannot reach it, the token bucket of a *)
(* session lets no burst through and leaves no lasting debt, and the       *)
(* tables of addresses and of failed logins hold their limits.             *)
(***************************************************************************)
EXTENDS TablesMC, FiniteSetTheorems, TLAPS

-----------------------------------------------------------------------------
(* One component at a time                                                 *)

\* A step of all is a step of the component or leaves it alone.
LEMMA WebMoves == ASSUME [MCNext]_MCVars PROVE Web!Next \/ UNCHANGED webVars
BY DEF MCNext, MCVars, Others

-----------------------------------------------------------------------------
(* WebLogin: types                                                         *)

Entry(n) == [token : 1 .. n, expires : Nat \ {0}]

Request(k, n) ==
  {r \in [pc : {"idle", "tls", "put"}, key : 0 .. k, token : 0 .. n] :
     r.pc = "put" <=> r.token # 0}

Process(k, n, time) ==
  {st \in [pc : Web!Pcs, key : 0 .. k, deadline : Nat, token : 0 .. n,
           polling : BOOLEAN, linked : BOOLEAN] :
     /\ st.deadline <= time + PollTime
     /\ st.pc = "down" => st = Web!Down
     /\ st.pc \in {"save", "whoami", "prompt", "exit"} => st.token # 0
     /\ st.pc \in {"poll", "save"} => st.key # 0
     /\ st.polling => st.key # 0}

\* Only the newest session of the user lives, and none when the server does not run.
SessionsOK(ses, n, on) ==
  /\ DOMAIN ses \subseteq {n} /\ \A t \in DOMAIN ses : ses[t] \in Nat
  /\ ~on => DOMAIN ses = {}

PendingOK(pend, k, n) == DOMAIN pend \subseteq 0 .. k /\ \A l \in DOMAIN pend : pend[l] \in Entry(n)

WebTypes ==
  /\ serving \in BOOLEAN /\ tokens \in Nat \ {0} /\ keys \in Nat /\ webNow \in Nat
  /\ alone \in BOOLEAN
  /\ SessionsOK(sessions, tokens, serving)
  /\ PendingOK(pending, keys, tokens)
  /\ browser \in [Browsers -> Request(keys, tokens)]
  /\ client \in [Clients -> Process(keys, tokens, webNow)]
  /\ file \in 0 .. tokens /\ lost \cup stray \subseteq 1 .. tokens /\ taken \in [1 .. tokens -> Nat]

LEMMA WebNumbers == {PollTime, PendingTTL, SessionTTL, MaxTokens} \subseteq Nat
                    /\ PollTime < PendingTTL /\ PollTime > 0
BY ProcessAssumptions DEF Web!WebLoginAssumption

\* What has a type keeps it when keys and tokens are drawn and time passes.
LEMMA LaterTypes ==
  ASSUME NEW k \in Nat, NEW n \in Nat, NEW time \in Nat,
         NEW k2 \in Nat, NEW n2 \in Nat, NEW time2 \in Nat, k <= k2, n <= n2, time <= time2
  PROVE  /\ Entry(n) \subseteq Entry(n2) /\ Request(k, n) \subseteq Request(k2, n2)
         /\ Process(k, n, time) \subseteq Process(k2, n2, time2)
<1>1. 0 .. k \subseteq 0 .. k2 /\ 0 .. n \subseteq 0 .. n2 /\ 1 .. n \subseteq 1 .. n2
  OBVIOUS
<1>2. Entry(n) \subseteq Entry(n2)
  BY <1>1 DEF Entry
<1>3. Request(k, n) \subseteq Request(k2, n2)
  BY <1>1 DEF Request
<1>4. ASSUME NEW st \in Process(k, n, time) PROVE st \in Process(k2, n2, time2)
  <2>1. st.deadline \in Nat /\ st.deadline <= time + PollTime
    BY DEF Process
  <2>2. st.deadline <= time2 + PollTime
    BY <2>1, WebNumbers
  <2> QED BY <1>1, <2>2 DEF Process
<1> QED BY <1>2, <1>3, <1>4

LEMMA DownIs ==
  Web!Down = [pc |-> "down", key |-> 0, deadline |-> 0, token |-> 0, polling |-> FALSE, linked |-> FALSE]
BY DEF Web!Down, Web!NoKey, Web!NoToken

\* The states a client can be put into.
LEMMA ClientStates ==
  ASSUME NEW k \in Nat, NEW n \in Nat, NEW time \in Nat, NEW st \in Process(k, n, time)
  PROVE  /\ Web!Down \in Process(k, n, time)
         /\ [Web!Down EXCEPT !.pc = "start"] \in Process(k, n, time)
         /\ [Web!Down EXCEPT !.pc = "register"] \in Process(k, n, time)
         /\ Web!Escape(st) \in Process(k, n, time)
         /\ [st EXCEPT !.linked = FALSE] \in Process(k, n, time)
<1>1. Web!Down \in Process(k, n, time) /\ Web!Down.linked = FALSE
  BY WebNumbers, DownIs DEF Process, Web!Pcs
<1> DEFINE off == Web!Down
<1>2. /\ off \in Process(k, n, time) /\ off.token = 0 /\ off.polling = FALSE
      /\ off.pc = "down" /\ off.deadline = 0 /\ off.key = 0
  BY <1>1, DownIs
<1> HIDE DEF off
<1>3. ASSUME NEW pc \in {"start", "register"}
      PROVE  [off EXCEPT !.pc = pc] \in Process(k, n, time)
  BY <1>2 DEF Process, Web!Pcs
<1>4. [st EXCEPT !.linked = FALSE] \in Process(k, n, time)
  <2>1. CASE st.pc = "down"
    <3>1. st = Web!Down
      BY <2>1 DEF Process
    <3>2. [st EXCEPT !.linked = FALSE] = st
      BY <3>1, DownIs DEF Process
    <3> QED BY <3>2
  <2>2. CASE st.pc # "down"
    BY <2>2 DEF Process
  <2> QED BY <2>1, <2>2
<1>5. Web!Escape(st) \in Process(k, n, time)
  <2>1. CASE st.polling
    <3>1. Web!Escape(st) = [st EXCEPT !.pc = "poll", !.polling = FALSE, !.linked = FALSE]
      BY <2>1 DEF Web!Escape
    <3>2. st.key # 0
      BY <2>1 DEF Process
    <3> QED BY <3>1, <3>2 DEF Process, Web!Pcs
  <2>2. CASE ~st.polling
    BY <1>1, <2>2 DEF Web!Escape
  <2> QED BY <2>1, <2>2
<1> QED BY <1>1, <1>3, <1>4, <1>5 DEF off

-----------------------------------------------------------------------------
(* WebLogin: the inductive invariant                                       *)

Held(r) == r.pc = "put"

\* A token is with one request, in one entry or was handed out.
OnceInv ==
  /\ \A b, d \in Browsers :
       Held(browser[b]) /\ Held(browser[d]) /\ browser[b].token = browser[d].token => b = d
  /\ \A k, l \in DOMAIN pending : pending[k].token = pending[l].token => k = l
  /\ \A b \in Browsers :
       Held(browser[b]) => /\ taken[browser[b].token] = 0
                           /\ \A k \in DOMAIN pending : browser[b].token # pending[k].token
  /\ \A k \in DOMAIN pending : taken[pending[k].token] = 0
  /\ \A t \in 1 .. tokens : taken[t] <= 1

\* An entry is made after the client has drawn its key.
Outlives(st, pend) == st.key \in DOMAIN pend => pend[st.key].expires > st.deadline
OutliveInv == \A c \in Clients : Outlives(client[c], pending)

\* While a client is alone the file has its token, and what waits for it is newer.
Fits(st, f, pend) ==
  /\ st.pc \in {"register", "poll", "whoami", "prompt", "exit"} => f = st.token
  /\ st.pc = "save" => f <= st.token
  /\ st.pc = "start" /\ st.key = 0 => st.token = 0
  /\ st.pc = "start" /\ st.key # 0 => f = st.token /\ st.polling
  /\ st.key # 0 /\ st.key \in DOMAIN pend => st.token <= pend[st.key].token
  /\ st.pc = "register" => st.key = 0

OneRequest == \A b, d \in Browsers : browser[b].pc # "idle" /\ browser[d].pc # "idle" => b = d
OneClient == \A c, d \in Clients : client[c].pc # "down" /\ client[d].pc # "down" => c = d
NewestHeld == \A b \in Browsers : Held(browser[b]) => browser[b].token = tokens
Reachable == \A t \in DOMAIN sessions : Web!Alive(t) => t \in Web!Held \cup lost \cup stray

ReachInv ==
  alone => /\ OneRequest /\ OneClient /\ NewestHeld
           /\ \A c \in Clients : Fits(client[c], file, pending)
           /\ Reachable

WebInv == WebTypes /\ OnceInv /\ OutliveInv /\ ReachInv

LEMMA WebBegins == ASSUME Web!Init PROVE WebInv
<1> DEFINE off == Web!Down
           none == Web!NoLogin
<1>1. /\ serving = TRUE /\ DOMAIN sessions = {} /\ tokens = 1 /\ DOMAIN pending = {}
      /\ keys = 0 /\ file \in {0, 1} /\ lost = {} /\ stray = {} /\ taken = <<0>> /\ alone = TRUE /\ webNow = 0
  BY DEF Web!Init, Web!NoToken
<1>2. off \in Process(0, 1, 0) /\ off.pc = "down" /\ off.key = 0 /\ off.deadline = 0 /\ off.token = 0
  BY WebNumbers, DownIs DEF Process, Web!Pcs
<1>3. none \in Request(0, 1) /\ none.pc = "idle"
  BY DEF Web!NoLogin, Web!NoKey, Web!NoToken, Request
<1>4. client = [c \in Clients |-> off] /\ browser = [b \in Browsers |-> none]
  BY DEF Web!Init
<1> HIDE DEF off, none
<1>5. taken \in [1 .. 1 -> Nat] /\ taken[1] = 0
  BY <1>1
<1>6. WebTypes
  BY <1>1, <1>2, <1>3, <1>4, <1>5 DEF WebTypes, SessionsOK, PendingOK
<1>7. OnceInv
  BY <1>1, <1>3, <1>4, <1>5 DEF OnceInv, Held
<1>8. OutliveInv
  BY <1>1 DEF OutliveInv, Outlives
<1>9. ReachInv
  BY <1>1, <1>2, <1>3, <1>4 DEF ReachInv, OneRequest, OneClient, NewestHeld, Held, Fits, Reachable
<1> QED BY <1>6, <1>7, <1>8, <1>9 DEF WebInv

\* What holds of a client after a step in which another one moved.
LEMMA ClientMove ==
  ASSUME WebInv, NEW c \in Clients,
         keys' \in Nat, keys <= keys', NEW st \in Process(keys', tokens, webNow),
         Web!Become(c, st), UNCHANGED <<serving, tokens, pending, browser, taken, webNow>>,
         SessionsOK(sessions', tokens, serving),
         \A t \in DOMAIN sessions' : t \in DOMAIN sessions /\ sessions'[t] = sessions[t],
         file' \in 0 .. tokens, lost' \subseteq 1 .. tokens, lost \subseteq lost',
         stray \subseteq stray', stray' \subseteq stray \cup 1 .. tokens,
         client[c].pc = "poll" /\ client[c].key \in DOMAIN pending =>
           (st.pc = "poll" /\ st.key = client[c].key) \/ pending[client[c].key].token \in lost' \cup stray',
         alone' \in BOOLEAN, alone' => alone,
         Outlives(st, pending),
         alone' => \A d \in Clients \ {c} : client[d].pc = "down",
         alone' => Fits(st, file', pending),
         alone' => \A t \in {file, client[c].token} :
                     t \in DOMAIN sessions' /\ webNow <= sessions'[t] => t \in {file', st.token} \cup lost'
  PROVE  WebInv'
<1> DEFINE move == [client EXCEPT ![c] = st]
<1>a. WebTypes /\ OnceInv /\ OutliveInv /\ ReachInv
  BY DEF WebInv
<1>b. client' = move /\ move[c] = st /\ (\A d \in Clients \ {c} : move[d] = client[d]) /\ DOMAIN move = Clients
  BY <1>a DEF Web!Become, WebTypes
<1> HIDE DEF move
<1>1. WebTypes'
  <2>1. /\ Request(keys, tokens) \subseteq Request(keys', tokens)
        /\ Process(keys, tokens, webNow) \subseteq Process(keys', tokens, webNow)
    <3>1. /\ keys \in Nat /\ tokens \in Nat /\ webNow \in Nat /\ keys <= keys'
          /\ tokens <= tokens /\ webNow <= webNow
      BY <1>a DEF WebTypes
    <3> QED BY <3>1, LaterTypes
  <2>2. browser' \in [Browsers -> Request(keys', tokens)]
    BY <1>a, <2>1 DEF WebTypes
  <2>3. client' \in [Clients -> Process(keys', tokens, webNow)]
    BY <1>a, <1>b, <2>1 DEF WebTypes, Web!Become
  <2>4. PendingOK(pending, keys', tokens)
    BY <1>a DEF WebTypes, PendingOK
  <2> QED BY <1>a, <2>2, <2>3, <2>4 DEF WebTypes
<1>2. OnceInv'
  BY <1>a DEF OnceInv
<1>3. OutliveInv'
  BY <1>a, <1>b DEF OutliveInv
<1>4. ASSUME alone' PROVE (OneRequest /\ OneClient /\ NewestHeld)'
  BY <1>4, <1>a, <1>b DEF ReachInv, OneRequest, OneClient, NewestHeld
<1>5. ASSUME alone', NEW d \in Clients PROVE Fits(client'[d], file', pending')
  <2>1. CASE d = c
    BY <2>1, <1>5, <1>b
  <2>2. CASE d # c
    <3>1. client'[d] = Web!Down
      BY <2>2, <1>5, <1>a, <1>b DEF WebTypes, Process
    <3> QED BY <3>1, DownIs DEF Fits
  <2> QED BY <2>1, <2>2
<1>6. ASSUME alone', NEW t \in DOMAIN sessions', webNow <= sessions'[t]
      PROVE  t \in (Web!Held \cup lost \cup stray)'
  <2>1. t \in Web!Held \cup lost \cup stray /\ t # 0
    BY <1>6, <1>a DEF ReachInv, Reachable, Web!Alive, WebTypes, SessionsOK
  <2>2. CASE t \in lost \cup stray
    BY <2>2
  <2>3. CASE \E k \in DOMAIN pending : Web!Polled(k) /\ t = pending[k].token
    <3>1. PICK k \in DOMAIN pending : Web!Polled(k) /\ t = pending[k].token
      BY <2>3
    <3>2. client[c].pc = "poll" /\ client[c].key = k
      BY <1>6, <3>1 DEF Web!Polled
    <3>3. CASE st.pc = "poll" /\ st.key = k
      <4>1. Web!Polled(k)'
        BY <1>b, <3>3 DEF Web!Polled
      <4> QED BY <3>1, <4>1 DEF Web!Held
    <3> QED BY <3>1, <3>2, <3>3
  <2>4. CASE \E b \in Browsers : t = browser[b].token
    BY <2>4 DEF Web!Held
  <2>5. CASE t \in {file, client[c].token}
    <3>1. t \in {file', st.token} \cup lost'
      BY <2>5, <1>6
    <3> QED BY <3>1, <1>b DEF Web!Held
  <2>6. CASE \E d \in Clients \ {c} : t = client[d].token
    <3>1. PICK d \in Clients \ {c} : t = client[d].token
      BY <2>6
    <3>2. client[d] = Web!Down
      BY <1>6, <1>a DEF WebTypes, Process
    <3> QED BY <2>1, <3>1, <3>2, DownIs
  <2> QED BY <2>1, <2>2, <2>3, <2>4, <2>5, <2>6 DEF Web!Held
<1>7. ReachInv'
  BY <1>4, <1>5, <1>6 DEF ReachInv, Reachable, Web!Alive
<1> QED BY <1>1, <1>2, <1>3, <1>7 DEF WebInv

\* While there is one client, the others are down.
LEMMA OthersDown ==
  ASSUME WebInv, NEW c \in Clients, client[c].pc # "down", alone
  PROVE  \A d \in Clients \ {c} : client[d].pc = "down"
BY DEF WebInv, ReachInv, OneClient

\* A client that changes nothing else but the file.
LEMMA QuietMove ==
  ASSUME WebInv, NEW c \in Clients, client[c].pc # "down",
         NEW st \in Process(keys, tokens, webNow), Web!Become(c, st),
         UNCHANGED <<serving, tokens, pending, browser, taken, webNow, sessions, alone, keys>>,
         file' \in 0 .. tokens, lost' \subseteq 1 .. tokens, lost \subseteq lost',
         stray \subseteq stray', stray' \subseteq stray \cup 1 .. tokens,
         client[c].pc = "poll" /\ client[c].key \in DOMAIN pending =>
           (st.pc = "poll" /\ st.key = client[c].key) \/ pending[client[c].key].token \in lost' \cup stray',
         (st.key = client[c].key /\ st.deadline = client[c].deadline) \/ st = Web!Down,
         alone => Fits(st, file', pending),
         alone => \A t \in {file, client[c].token} :
                    Web!Alive(t) => t \in {file', st.token} \cup lost'
  PROVE  WebInv'
<1>a. WebTypes /\ OnceInv /\ OutliveInv /\ ReachInv
  BY DEF WebInv
<1>1. Outlives(st, pending)
  <2>1. CASE st = Web!Down
    <3>1. \A k \in DOMAIN pending : pending[k].expires > 0
      BY <1>a DEF WebTypes, PendingOK, Entry
    <3> QED BY <2>1, <3>1, DownIs DEF Outlives
  <2>2. CASE st.key = client[c].key /\ st.deadline = client[c].deadline
    BY <1>a, <2>2 DEF OutliveInv, Outlives
  <2> QED BY <2>1, <2>2
<1>2. /\ keys' \in Nat /\ keys <= keys' /\ st \in Process(keys', tokens, webNow)
      /\ SessionsOK(sessions', tokens, serving) /\ alone' \in BOOLEAN
  BY <1>a DEF WebTypes
<1> QED BY <1>1, <1>2, OthersDown, ClientMove DEF Web!Alive
-----------------------------------------------------------------------------
(* WebLogin: the steps of a client                                         *)

\* What a client and the file have.
LEMMA ClientTypes ==
  ASSUME WebInv, NEW c \in Clients
  PROVE  /\ keys \in Nat /\ tokens \in Nat \ {0} /\ webNow \in Nat /\ file \in 0 .. tokens
         /\ lost \subseteq 1 .. tokens /\ stray \subseteq 1 .. tokens
         /\ alone \in BOOLEAN /\ serving \in BOOLEAN
         /\ client[c] \in Process(keys, tokens, webNow)
         /\ client[c].token \in 0 .. tokens /\ client[c].key \in 0 .. keys
         /\ client[c].deadline \in Nat /\ client[c].pc \in Web!Pcs
         /\ client[c].polling => client[c].key # 0
         /\ client[c].pc \in {"poll", "save"} => client[c].key # 0
         /\ client[c].pc \in {"save", "whoami", "prompt", "exit"} => client[c].token # 0
         /\ client[c].pc = "down" => client[c] = Web!Down
         /\ alone => Fits(client[c], file, pending)
         /\ ~Web!Alive(0)
<1>1. client[c] \in Process(keys, tokens, webNow)
  BY DEF WebInv, WebTypes
<1>2. ~Web!Alive(0)
  BY DEF WebInv, WebTypes, SessionsOK, Web!Alive
<1> QED BY <1>1, <1>2 DEF WebInv, WebTypes, ReachInv, Process

\* The files do not matter to a client that is down.
LEMMA DownFits ==
  ASSUME NEW f, NEW pend PROVE Fits(Web!Down, f, pend) /\ Web!Down.token = 0 /\ Web!Down.pc = "down"
BY DownIs DEF Fits

LEMMA WebSaveToken == ASSUME WebInv, NEW c \in Clients, Web!SaveToken(c) PROVE WebInv'
<1> DEFINE was == client[c]
           st == [was EXCEPT !.pc = "start", !.polling = TRUE]
<1>1. /\ was.pc = "save" /\ file' = was.token /\ Web!Become(c, st)
      /\ UNCHANGED <<serving, sessions, tokens, pending, browser, taken, webNow, alone, keys, lost, stray>>
  BY DEF Web!SaveToken, Web!World, Web!ServerSide
<1>2. was \in Process(keys, tokens, webNow) /\ was.key # 0
  BY <1>1, ClientTypes
<1>3. /\ st \in Process(keys, tokens, webNow)
      /\ st.pc = "start" /\ st.polling = TRUE /\ st.key = was.key /\ st.token = was.token /\ st.deadline = was.deadline
  BY <1>2 DEF Process, Web!Pcs
<1>4. file' \in 0 .. tokens /\ (alone => Fits(was, file, pending)) /\ lost \subseteq 1 .. tokens
      /\ was.token \in 0 .. tokens /\ file \in 0 .. tokens /\ tokens \in Nat
  BY <1>1, ClientTypes
<1> HIDE DEF st
<1>5. ASSUME alone PROVE Fits(st, file', pending)
  BY <1>1, <1>2, <1>3, <1>4, <1>5 DEF Fits
<1>6. ASSUME alone, NEW t \in {file, was.token}, Web!Alive(t) PROVE t = st.token
  <2>1. t \in {tokens}
    BY <1>6 DEF WebInv, WebTypes, SessionsOK, Web!Alive
  <2>2. file <= was.token
    BY <1>1, <1>4, <1>6 DEF Fits
  <2>3. t = was.token
    BY <1>4, <1>6, <2>1, <2>2
  <2> QED BY <1>3, <2>3
<1>7. client[c].pc = "save" /\ st.key = client[c].key /\ st.deadline = client[c].deadline
  BY <1>1, <1>3
<1> HIDE DEF was
<1>8. \A t \in {file, client[c].token} : alone /\ Web!Alive(t) => t \in {file', st.token} \cup lost'
  BY <1>6 DEF was
<1> QED BY <1>1, <1>3, <1>4, <1>5, <1>7, <1>8, QuietMove

\* A client that leaves what it does, or ends, and leaves the file as it is.
LEMMA QuietEnd ==
  ASSUME WebInv, NEW c \in Clients, client[c].pc # "down",
         NEW st \in {Web!Down, Web!Escape(client[c])}, Web!Become(c, st),
         UNCHANGED <<serving, tokens, pending, browser, taken, webNow, sessions, alone, keys, file>>,
         lost' \subseteq 1 .. tokens, lost \subseteq lost',
         stray \subseteq stray', stray' \subseteq stray \cup 1 .. tokens,
         client[c].pc = "poll" /\ client[c].key \in DOMAIN pending =>
           pending[client[c].key].token \in lost' \cup stray',
         client[c].pc = "save" => st = Web!Down /\ client[c].token \in lost',
         st # Web!Down => client[c].pc \in {"whoami", "prompt"}
  PROVE  WebInv'
<1> DEFINE was == client[c]
<1>1. /\ was \in Process(keys, tokens, webNow) /\ file \in 0 .. tokens /\ (alone => Fits(was, file, pending))
      /\ ~Web!Alive(0) /\ was.pc \in Web!Pcs /\ (was.polling => was.key # 0)
  BY ClientTypes
<1>2. st \in Process(keys, tokens, webNow)
  <2>1. keys \in Nat /\ tokens \in Nat /\ webNow \in Nat
    BY ClientTypes
  <2> QED BY <1>1, <2>1, ClientStates
<1>3. \/ st = Web!Down
      \/ /\ st.pc = "poll" /\ st.key = was.key /\ st.deadline = was.deadline
         /\ st.token = was.token /\ was.polling
  BY <1>1 DEF Web!Escape, Process
<1>4. (st.key = was.key /\ st.deadline = was.deadline) \/ st = Web!Down
  BY <1>3
<1>5. ASSUME alone PROVE Fits(st, file, pending)
  BY <1>1, <1>3, <1>5, DownFits DEF Fits
<1>6. ASSUME alone, NEW t \in {file, was.token}, Web!Alive(t) PROVE t \in {file, st.token} \cup lost'
  <2>1. t # 0
    BY <1>1, <1>6
  <2>2. was.pc = "save" => was.token \in lost'
    OBVIOUS
  <2>3. CASE was.pc = "save"
    BY <1>6, <2>1, <2>3
  <2>4. CASE was.pc # "save"
    <3>1. was.token \in {file, 0}
      BY <1>1, <1>6, <2>4 DEF Fits, Web!Pcs
    <3> QED BY <2>1, <1>6, <3>1
  <2> QED BY <2>3, <2>4
<1>7. file' \in 0 .. tokens
  BY <1>1
<1> HIDE DEF was
<1>8. \A t \in {file, client[c].token} : alone /\ Web!Alive(t) => t \in {file', st.token} \cup lost'
  BY <1>6 DEF was
<1>9. (st.key = client[c].key /\ st.deadline = client[c].deadline) \/ st = Web!Down
  BY <1>4 DEF was
<1>10. alone => Fits(st, file', pending)
  BY <1>5
<1> QED BY <1>2, <1>7, <1>8, <1>9, <1>10, QuietMove

\* What a client waits for is a token that was drawn.
LEMMA ExpectedIs ==
  ASSUME WebInv, NEW c \in Clients
  PROVE  /\ Web!Expected(c) \subseteq 1 .. tokens
         /\ client[c].pc = "poll" /\ client[c].key \in DOMAIN pending =>
              pending[client[c].key].token \in Web!Expected(c)
         /\ client[c].pc = "save" => client[c].token \in Web!Expected(c)
<1>1. /\ client[c].token \in 0 .. tokens /\ tokens \in Nat
      /\ client[c].pc = "save" => client[c].token # 0
  BY ClientTypes
<1>2. \A k \in DOMAIN pending : pending[k].token \in 1 .. tokens
  BY DEF WebInv, WebTypes, PendingOK, Entry
<1> QED BY <1>1, <1>2 DEF Web!Expected

LEMMA WebTimeOut == ASSUME WebInv, NEW c \in Clients, Web!TimeOut(c) PROVE WebInv'
<1>1. /\ client[c].pc = "poll" /\ Web!Become(c, Web!Down) /\ stray' = stray \cup Web!Expected(c)
      /\ UNCHANGED <<serving, sessions, tokens, pending, browser, taken, webNow, alone, keys, lost, file>>
  BY DEF Web!TimeOut, Web!ServerSide
<1>2. lost' \subseteq 1 .. tokens
  BY <1>1, ClientTypes
<1> QED BY <1>1, <1>2, ExpectedIs, QuietEnd

LEMMA WebKill == ASSUME WebInv, NEW c \in Clients, Web!Kill(c) PROVE WebInv'
<1>1. /\ client[c].pc # "down" /\ Web!Become(c, Web!Down) /\ lost' = lost \cup Web!Expected(c)
      /\ UNCHANGED <<serving, sessions, tokens, pending, browser, taken, webNow, alone, keys, file, stray>>
  BY DEF Web!Kill, Web!World, Web!ServerSide
<1>2. lost \subseteq 1 .. tokens
  BY ClientTypes
<1> QED BY <1>1, <1>2, ExpectedIs, QuietEnd

LEMMA WebStartShell == ASSUME WebInv, NEW c \in Clients, Web!StartShell(c) PROVE WebInv'
<1> DEFINE was == client[c]
           st == [was EXCEPT !.pc = "whoami", !.token = file, !.linked = TRUE]
<1>1. /\ was.pc = "start"
      /\ UNCHANGED <<serving, sessions, tokens, pending, browser, taken, webNow, alone, keys, lost, stray>>
      /\ \/ file = 0 /\ Web!Become(c, Web!Down) /\ UNCHANGED file
         \/ file # 0 /\ serving /\ Web!Become(c, st) /\ UNCHANGED file
         \/ ~serving /\ Web!Become(c, Web!Down) /\ file' = 0
  BY DEF Web!StartShell, Web!World, Web!ServerSide, Web!NoToken
<1>2. /\ was \in Process(keys, tokens, webNow) /\ file \in 0 .. tokens /\ (alone => Fits(was, file, pending))
      /\ ~Web!Alive(0) /\ tokens \in Nat \ {0} /\ lost \subseteq 1 .. tokens
  BY ClientTypes
<1>3. CASE file # 0 /\ serving /\ Web!Become(c, st) /\ UNCHANGED file
  <2>1. /\ st \in Process(keys, tokens, webNow)
        /\ st.pc = "whoami" /\ st.polling = was.polling /\ st.key = was.key /\ st.token = file /\ st.deadline = was.deadline
    BY <1>1, <1>2, <1>3 DEF Process, Web!Pcs
  <2> HIDE DEF st
  <2>2. ASSUME alone, st.key # 0 PROVE st.key \in DOMAIN pending => st.token <= pending[st.key].token
    BY <1>1, <1>2, <2>1, <2>2 DEF Fits
  <2>3. alone => Fits(st, file', pending)
    BY <1>3, <2>1, <2>2 DEF Fits
  <2>4. alone => was.token \in {0, file}
    BY <1>1, <1>2 DEF Fits
  <2>5. client[c].pc \notin {"down", "poll"} /\ st.key = client[c].key /\ st.deadline = client[c].deadline /\ file' \in 0 .. tokens
    BY <1>1, <1>2, <1>3, <2>1
  <2> HIDE DEF was
  <2>6. \A t \in {file, client[c].token} : alone /\ Web!Alive(t) => t \in {file', st.token} \cup lost'
    BY <1>2, <1>3, <2>4 DEF was
  <2> QED BY <1>1, <1>2, <1>3, <2>1, <2>3, <2>5, <2>6, QuietMove
<1>4. CASE file = 0 /\ Web!Become(c, Web!Down) /\ UNCHANGED file
  BY <1>1, <1>2, <1>4, QuietEnd
<1>5. CASE ~serving /\ Web!Become(c, Web!Down) /\ file' = 0
  <2>1. \A t : ~Web!Alive(t)
    BY <1>5 DEF WebInv, WebTypes, SessionsOK, Web!Alive
  <2>2. Web!Down \in Process(keys, tokens, webNow)
    BY <1>2, ClientTypes, ClientStates
  <2>3. file' \in 0 .. tokens /\ Fits(Web!Down, file', pending)
    BY <1>2, <1>5, DownFits
  <2>4. client[c].pc \notin {"down", "poll"} /\ lost' \subseteq 1 .. tokens
    BY <1>1, <1>2
  <2> QED BY <1>1, <1>5, <2>1, <2>2, <2>3, <2>4, QuietMove
<1> HIDE DEF st
<1> QED BY <1>1, <1>3, <1>4, <1>5

LEMMA WebWhoAmI == ASSUME WebInv, NEW c \in Clients, Web!WhoAmI(c) PROVE WebInv'
<1> DEFINE was == client[c]
           st == [was EXCEPT !.pc = "prompt"]
<1>1. /\ was.pc = "whoami"
      /\ UNCHANGED <<serving, sessions, tokens, pending, browser, taken, webNow, alone, keys, lost, stray>>
      /\ \/ Web!Become(c, st) /\ file' = was.token
         \/ Web!Become(c, Web!Escape(was)) /\ UNCHANGED file
  BY DEF Web!WhoAmI, Web!World, Web!ServerSide
<1>2. /\ was \in Process(keys, tokens, webNow) /\ file \in 0 .. tokens /\ (alone => Fits(was, file, pending))
      /\ was.token \in 0 .. tokens /\ lost \subseteq 1 .. tokens
  BY ClientTypes
<1>3. CASE Web!Become(c, st) /\ file' = was.token
  <2>1. /\ st \in Process(keys, tokens, webNow)
        /\ st.pc = "prompt" /\ st.key = was.key /\ st.token = was.token /\ st.deadline = was.deadline
    BY <1>1, <1>2 DEF Process, Web!Pcs
  <2> HIDE DEF st
  <2>2. alone => Fits(st, file', pending)
    BY <1>1, <1>2, <1>3, <2>1 DEF Fits
  <2>3. alone => file = was.token
    BY <1>1, <1>2 DEF Fits
  <2>4. client[c].pc \notin {"down", "poll"} /\ st.key = client[c].key /\ st.deadline = client[c].deadline /\ file' \in 0 .. tokens
    BY <1>1, <1>2, <1>3, <2>1
  <2> HIDE DEF was
  <2>5. \A t \in {file, client[c].token} : alone /\ Web!Alive(t) => t \in {file', st.token} \cup lost'
    BY <1>3, <2>3 DEF was
  <2> QED BY <1>1, <1>2, <1>3, <2>1, <2>2, <2>4, <2>5, QuietMove
<1>4. CASE Web!Become(c, Web!Escape(was)) /\ UNCHANGED file
  BY <1>1, <1>2, <1>4, QuietEnd
<1> HIDE DEF st
<1> QED BY <1>1, <1>3, <1>4

LEMMA WebStutters ==
  ASSUME WebInv,
         UNCHANGED <<serving, sessions, tokens, pending, browser, keys, file, client, lost, stray, taken, alone,
                     webNow>>
  PROVE  WebInv'
<1>1. /\ WebTypes' /\ OnceInv' /\ OutliveInv'
  BY DEF WebInv, WebTypes, OnceInv, OutliveInv
<1>2. ReachInv'
  BY DEF WebInv, ReachInv, OneRequest, OneClient, NewestHeld, Reachable, Web!Alive, Web!Held, Web!Polled
<1> QED BY <1>1, <1>2 DEF WebInv

LEMMA WebCommand == ASSUME WebInv, NEW c \in Clients, Web!Command(c) PROVE WebInv'
<1>1. /\ client[c].pc = "prompt"
      /\ UNCHANGED <<serving, sessions, tokens, pending, browser, taken, webNow, alone, keys, stray>>
      /\ \/ Web!Become(c, Web!Down) /\ UNCHANGED <<file, lost>>
         \/ UNCHANGED <<client, file, lost>>
         \/ /\ ~(client[c].linked /\ Web!Alive(file)) /\ file # 0
            /\ Web!Become(c, Web!Down) /\ file' = 0
            /\ lost' = IF client[c].linked THEN lost ELSE lost \cup {file}
  BY DEF Web!Command, Web!World, Web!ServerSide, Web!Forget, Web!NoToken
<1>2. /\ file \in 0 .. tokens /\ (alone => Fits(client[c], file, pending)) /\ tokens \in Nat \ {0}
      /\ lost \subseteq 1 .. tokens /\ ~Web!Alive(0)
  BY ClientTypes
<1>3. CASE Web!Become(c, Web!Down) /\ UNCHANGED <<file, lost>>
  BY <1>1, <1>2, <1>3, QuietEnd
<1>4. CASE UNCHANGED <<client, file, lost>>
  BY <1>1, <1>4, WebStutters
<1>5. CASE /\ ~(client[c].linked /\ Web!Alive(file)) /\ file # 0
           /\ Web!Become(c, Web!Down) /\ file' = 0
           /\ lost' = IF client[c].linked THEN lost ELSE lost \cup {file}
  <2>1. Web!Down \in Process(keys, tokens, webNow)
    BY ClientTypes, ClientStates
  <2>2. lost' \subseteq 1 .. tokens /\ lost \subseteq lost' /\ file' \in 0 .. tokens
    <3>1. file \in 1 .. tokens
      BY <1>2, <1>5
    <3>2. lost' \subseteq lost \cup {file} /\ lost \subseteq lost'
      BY <1>5
    <3> QED BY <1>2, <1>5, <3>1, <3>2
  <2>3. ASSUME alone, NEW t \in {file, client[c].token}, Web!Alive(t) PROVE t \in lost'
    <3>1. t = file
      BY <1>1, <1>2, <2>3 DEF Fits
    <3> QED BY <1>5, <2>3, <3>1
  <2>4. client[c].pc \notin {"down", "poll"}
    BY <1>1
  <2> QED BY <1>1, <1>5, <2>1, <2>2, <2>3, <2>4, DownFits, QuietMove
<1> QED BY <1>1, <1>3, <1>4, <1>5

LEMMA WebChangeDirectory == ASSUME WebInv, NEW c \in Clients, Web!ChangeDirectory(c) PROVE WebInv'
<1>1. /\ client[c].pc = "prompt"
      /\ UNCHANGED <<serving, sessions, tokens, pending, browser, taken, webNow, alone, keys, file, lost, stray>>
      /\ \/ Web!Become(c, Web!Down)
         \/ Web!Become(c, client[c])
         \/ Web!Become(c, Web!Escape(client[c]))
  BY DEF Web!ChangeDirectory, Web!World, Web!ServerSide
<1>2. lost' \subseteq 1 .. tokens /\ client \in [Clients -> Process(keys, tokens, webNow)]
  BY <1>1, ClientTypes DEF WebInv, WebTypes
<1>3. CASE Web!Become(c, client[c])
  <2>1. client' = client
    BY <1>2, <1>3 DEF Web!Become
  <2> QED BY <1>1, <2>1, WebStutters
<1> QED BY <1>1, <1>2, <1>3, QuietEnd

LEMMA WebLeave == ASSUME WebInv, NEW c \in Clients, Web!Leave(c) PROVE WebInv'
<1> DEFINE was == client[c]
           st == [was EXCEPT !.pc = "exit", !.token = file]
<1>1. /\ was.pc = "prompt"
      /\ UNCHANGED <<serving, sessions, tokens, pending, browser, taken, webNow, alone, keys, file, lost, stray>>
      /\ \/ Web!Become(c, Web!Down)
         \/ file # 0 /\ Web!Become(c, st)
  BY DEF Web!Leave, Web!World, Web!ServerSide, Web!NoToken
<1>2. /\ was \in Process(keys, tokens, webNow) /\ file \in 0 .. tokens /\ (alone => Fits(was, file, pending))
      /\ lost \subseteq 1 .. tokens
  BY ClientTypes
<1>3. CASE Web!Become(c, Web!Down)
  BY <1>1, <1>2, <1>3, QuietEnd
<1>4. CASE file # 0 /\ Web!Become(c, st)
  <2>1. /\ st \in Process(keys, tokens, webNow)
        /\ st.pc = "exit" /\ st.key = was.key /\ st.token = file /\ st.deadline = was.deadline
    BY <1>1, <1>2, <1>4 DEF Process, Web!Pcs
  <2> HIDE DEF st
  <2>2. alone => file = was.token
    BY <1>1, <1>2 DEF Fits
  <2>3. alone => Fits(st, file', pending)
    BY <1>1, <1>2, <2>1, <2>2 DEF Fits
  <2>4. client[c].pc \notin {"down", "poll"} /\ st.key = client[c].key /\ st.deadline = client[c].deadline /\ file' \in 0 .. tokens
    BY <1>1, <1>2, <2>1
  <2> HIDE DEF was
  <2>5. \A t \in {file, client[c].token} : alone /\ Web!Alive(t) => t \in {file', st.token} \cup lost'
    BY <2>1, <2>2 DEF was
  <2> QED BY <1>1, <1>2, <1>4, <2>1, <2>3, <2>4, <2>5, QuietMove
<1> HIDE DEF st
<1> QED BY <1>1, <1>3, <1>4

LEMMA WebBreakConnection == ASSUME WebInv, NEW c \in Clients, Web!BreakConnection(c) PROVE WebInv'
<1> DEFINE was == client[c]
           st == [was EXCEPT !.linked = FALSE]
<1>1. /\ was.linked /\ Web!Become(c, st)
      /\ UNCHANGED <<serving, sessions, tokens, pending, browser, taken, webNow, alone, keys, file, lost, stray>>
  BY DEF Web!BreakConnection, Web!World, Web!ServerSide
<1>2. /\ was \in Process(keys, tokens, webNow) /\ file \in 0 .. tokens /\ (alone => Fits(was, file, pending))
      /\ lost \subseteq 1 .. tokens /\ (was.pc = "down" => was = Web!Down)
      /\ keys \in Nat /\ tokens \in Nat /\ webNow \in Nat
  BY ClientTypes
<1>3. was.pc # "down"
  BY <1>1, <1>2, DownIs
<1>4. st \in Process(keys, tokens, webNow)
  BY <1>2, ClientStates
<1>5. /\ st.pc = was.pc /\ st.key = was.key /\ st.token = was.token /\ st.deadline = was.deadline
      /\ st.polling = was.polling
  BY <1>2 DEF Process
<1> HIDE DEF st
<1>6. alone => Fits(st, file', pending)
  BY <1>1, <1>2, <1>5 DEF Fits
<1>7. client[c].pc # "down" /\ st.pc = client[c].pc /\ st.key = client[c].key /\ st.deadline = client[c].deadline
      /\ file' \in 0 .. tokens /\ st.token = client[c].token
  BY <1>1, <1>2, <1>3, <1>5
<1> HIDE DEF was
<1> QED BY <1>1, <1>2, <1>4, <1>6, <1>7, QuietMove

LEMMA WebLogout == ASSUME WebInv, NEW c \in Clients, Web!Logout(c) PROVE WebInv'
<1> DEFINE was == client[c]
<1>1. /\ was.pc = "exit" /\ Web!Become(c, Web!Down) /\ file' = 0
      /\ UNCHANGED <<serving, tokens, pending, browser, taken, webNow, alone, keys, stray>>
      /\ \/ was.linked /\ sessions' = Web!Without(was.token) /\ UNCHANGED lost
         \/ ~was.linked /\ UNCHANGED sessions /\ lost' = lost \cup {was.token}
  BY DEF Web!Logout, Web!Forget, Web!NoToken
<1>2. /\ file \in 0 .. tokens /\ (alone => Fits(was, file, pending)) /\ was.token \in 0 .. tokens
      /\ lost \subseteq 1 .. tokens /\ keys \in Nat /\ tokens \in Nat \ {0} /\ alone \in BOOLEAN
      /\ ~Web!Alive(0) /\ was \in Process(keys, tokens, webNow) /\ webNow \in Nat
  BY ClientTypes
<1>3. Web!Down \in Process(keys', tokens, webNow)
  BY <1>1, <1>2, ClientStates
<1>4. SessionsOK(sessions, tokens, serving)
  BY DEF WebInv, WebTypes
<1>5. SessionsOK(sessions', tokens, serving) /\ \A t \in DOMAIN sessions' : t \in DOMAIN sessions /\ sessions'[t] = sessions[t]
  BY <1>1, <1>4 DEF SessionsOK, Web!Without
<1>6. lost' \subseteq 1 .. tokens /\ lost \subseteq lost'
  <2>1. was.token \in 1 .. tokens
    BY <1>1, <1>2, ClientTypes
  <2> QED BY <1>1, <1>2, <2>1
<1>7. ASSUME alone, NEW t \in {file, was.token}, t \in DOMAIN sessions' PROVE t \in lost'
  <2>1. t = was.token
    BY <1>1, <1>2, <1>7 DEF Fits
  <2> QED BY <1>1, <1>7, <2>1 DEF Web!Without
<1>8. Outlives(Web!Down, pending)
  <2>1. \A k \in DOMAIN pending : pending[k].expires > 0
    BY DEF WebInv, WebTypes, PendingOK, Entry
  <2> QED BY <2>1, DownIs DEF Outlives
<1>9. alone' => \A d \in Clients \ {c} : client[d].pc = "down"
  BY <1>1, OthersDown
<1>10. /\ client[c].pc # "poll" /\ file' \in 0 .. tokens /\ keys' \in Nat /\ keys <= keys' /\ alone' \in BOOLEAN /\ (alone' => alone)
       /\ Fits(Web!Down, file', pending)
  BY <1>1, <1>2, DownFits
<1> HIDE DEF was
<1>11. \A t \in {file, client[c].token} : alone' /\ t \in DOMAIN sessions' => t \in lost'
  BY <1>1, <1>7 DEF was
<1> QED BY <1>1, <1>3, <1>5, <1>6, <1>8, <1>9, <1>10, <1>11, ClientMove

\* A client starts beside others, or alone.
LEMMA StartMove ==
  ASSUME WebInv, NEW c \in Clients, client[c].pc = "down",
         NEW pc \in {"start", "register"}, Web!Become(c, [Web!Down EXCEPT !.pc = pc]),
         pc = "register" => file = 0,
         UNCHANGED <<serving, sessions, tokens, pending, browser, keys, file, lost, stray, taken, webNow>>,
         alone' = (alone /\ ~Web!Accompanied(c))
  PROVE  WebInv'
<1> DEFINE off == Web!Down
           st == [off EXCEPT !.pc = pc]
<1>1. /\ file \in 0 .. tokens /\ keys \in Nat /\ tokens \in Nat \ {0} /\ webNow \in Nat /\ lost \subseteq 1 .. tokens
      /\ alone \in BOOLEAN /\ client[c] \in Process(keys, tokens, webNow) /\ client[c] = off /\ ~Web!Alive(0)
  BY ClientTypes
<1>2. st \in Process(keys, tokens, webNow)
  BY <1>1, ClientStates
<1>3. off \in Process(keys, tokens, webNow) /\ off.key = 0 /\ off.deadline = 0 /\ off.token = 0
  BY <1>1, ClientStates, DownIs
<1> HIDE DEF off
<1>4. st.pc = pc /\ st.key = 0 /\ st.deadline = 0 /\ st.token = 0
  BY <1>3 DEF Process
<1>5. Web!Become(c, st)
  BY DEF off
<1> HIDE DEF st
<1>6. Outlives(st, pending)
  <2>1. \A k \in DOMAIN pending : pending[k].expires > 0
    BY DEF WebInv, WebTypes, PendingOK, Entry
  <2> QED BY <1>4, <2>1 DEF Outlives
<1>7. Fits(st, file', pending)
  BY <1>4 DEF Fits
<1>8. alone' => \A d \in Clients \ {c} : client[d].pc = "down"
  BY DEF Web!Accompanied
<1>9. /\ SessionsOK(sessions', tokens, serving) /\ file' \in 0 .. tokens /\ keys' \in Nat /\ keys <= keys'
      /\ alone' \in BOOLEAN /\ (alone' => alone) /\ lost' \subseteq 1 .. tokens
      /\ st \in Process(keys', tokens, webNow)
  BY <1>1, <1>2 DEF WebInv, WebTypes
<1>10. client[c].token = 0 /\ 0 \notin DOMAIN sessions'
  BY <1>1, <1>3, <1>9 DEF SessionsOK
<1>11. \A t \in {file, client[c].token} :
         t \in DOMAIN sessions' => t \in {file', st.token} \cup lost'
  BY <1>10
<1> QED BY <1>5, <1>6, <1>7, <1>8, <1>9, <1>11, ClientMove

LEMMA WebRun == ASSUME WebInv, NEW c \in Clients, Web!Run(c) \/ Web!RunWithFile(c) PROVE WebInv'
<1>1. CASE Web!Run(c)
  BY <1>1, StartMove DEF Web!Run, Web!ServerSide, Web!NoToken
<1>2. CASE Web!RunWithFile(c)
  BY <1>2, StartMove DEF Web!RunWithFile, Web!ServerSide, Web!NoToken
<1> QED BY <1>1, <1>2

LEMMA WebRegister == ASSUME WebInv, NEW c \in Clients, Web!Register(c) PROVE WebInv'
<1> DEFINE was == client[c]
           st == [was EXCEPT !.pc = "poll", !.key = keys + 1, !.deadline = webNow + PollTime]
<1>1. /\ was.pc = "register"
      /\ UNCHANGED <<serving, sessions, tokens, pending, browser, taken, webNow, alone, file, lost, stray>>
      /\ \/ keys' = keys + 1 /\ Web!Become(c, st)
         \/ UNCHANGED keys /\ Web!Become(c, Web!Down)
  BY DEF Web!Register, Web!World, Web!ServerSide
<1>2. /\ was \in Process(keys, tokens, webNow) /\ file \in 0 .. tokens /\ (alone => Fits(was, file, pending))
      /\ lost \subseteq 1 .. tokens /\ keys \in Nat /\ tokens \in Nat /\ webNow \in Nat /\ alone \in BOOLEAN
  BY ClientTypes
<1>3. CASE keys' = keys + 1 /\ Web!Become(c, st)
  <2>1. was \in Process(keys', tokens, webNow)
    <3>1. keys <= keys' /\ keys' \in Nat /\ tokens <= tokens /\ webNow <= webNow
      BY <1>2, <1>3
    <3> QED BY <1>2, <3>1, LaterTypes
  <2>2. /\ keys + 1 \in 0 .. keys' /\ keys + 1 # 0
        /\ webNow + PollTime \in Nat /\ webNow + PollTime <= webNow + PollTime
    BY <1>2, <1>3, WebNumbers
  <2>3. /\ st \in Process(keys', tokens, webNow)
        /\ st.pc = "poll" /\ st.key = keys + 1 /\ st.token = was.token
    BY <2>1, <2>2 DEF Process, Web!Pcs
  <2> HIDE DEF st
  <2>4. keys + 1 \notin DOMAIN pending
    BY <1>2 DEF WebInv, WebTypes, PendingOK
  <2>5. Outlives(st, pending)
    BY <2>3, <2>4 DEF Outlives
  <2>6. alone => Fits(st, file, pending) /\ file = was.token
    BY <1>1, <1>2, <2>3, <2>4 DEF Fits
  <2>7. alone' => \A d \in Clients \ {c} : client[d].pc = "down"
    BY <1>1, OthersDown
  <2>8. /\ client[c].pc # "poll" /\ SessionsOK(sessions', tokens, serving) /\ file' \in 0 .. tokens /\ keys' \in Nat /\ keys <= keys'
        /\ alone' \in BOOLEAN /\ (alone' => alone) /\ lost' \subseteq 1 .. tokens
    BY <1>1, <1>2, <1>3 DEF WebInv, WebTypes
  <2> HIDE DEF was
  <2>9. \A t \in {file, client[c].token} : alone => t \in {file', st.token}
    BY <1>1, <2>6 DEF was
  <2>10. alone' => Fits(st, file', pending)
    BY <1>1, <2>6
  <2> QED BY <1>1, <1>3, <2>3, <2>5, <2>7, <2>8, <2>9, <2>10, ClientMove
<1>4. CASE UNCHANGED keys /\ Web!Become(c, Web!Down)
  BY <1>1, <1>2, <1>4, QuietEnd
<1> HIDE DEF st
<1> QED BY <1>1, <1>3, <1>4

\* The poll that finds an entry takes it away; the token goes to the client or is lost.
LEMMA WebPoll == ASSUME WebInv, NEW c \in Clients, Web!Poll(c) PROVE WebInv'
<1> DEFINE was == client[c]
           key == was.key
           entry == pending[key]
           st == [was EXCEPT !.pc = "save", !.token = entry.token]
<1>a. WebTypes /\ OnceInv /\ OutliveInv /\ ReachInv
  BY DEF WebInv
<1>1. /\ was.pc = "poll" /\ key \in DOMAIN pending
      /\ pending' = [k \in DOMAIN pending \ {key} |-> pending[k]]
      /\ UNCHANGED <<serving, sessions, tokens, browser, keys, file, stray, alone, webNow>>
      /\ \/ Web!Become(c, st) /\ taken' = [taken EXCEPT ![entry.token] = @ + 1] /\ UNCHANGED lost
         \/ UNCHANGED <<client, taken>> /\ lost' = lost \cup {entry.token}
  BY DEF Web!Poll, Web!Popped, Web!Answered
<1>2. /\ was \in Process(keys, tokens, webNow) /\ key # 0 /\ tokens \in Nat \ {0} /\ file \in 0 .. tokens
      /\ (alone => Fits(was, file, pending)) /\ lost \subseteq 1 .. tokens /\ keys \in Nat /\ alone \in BOOLEAN
  BY <1>1, ClientTypes
<1>3. entry.token \in 1 .. tokens
  BY <1>1, <1>a DEF WebTypes, PendingOK, Entry
<1>4. /\ st \in Process(keys, tokens, webNow)
      /\ st.pc = "save" /\ st.token = entry.token /\ st.key = key /\ st.deadline = was.deadline
  <2>1. entry.token \in 0 .. tokens /\ entry.token # 0
    BY <1>2, <1>3
  <2> HIDE DEF entry
  <2> QED BY <1>1, <1>2, <2>1 DEF Process, Web!Pcs
<1> HIDE DEF st
<1>5. DOMAIN pending' = DOMAIN pending \ {key} /\ \A k \in DOMAIN pending' : pending'[k] = pending[k]
  BY <1>1
<1>6. client' = client \/ client' = [client EXCEPT ![c] = st]
  BY <1>1 DEF Web!Become
<1>7. \A d \in Clients : client'[d] = client[d] \/ (d = c /\ client'[d] = st)
  BY <1>6, <1>a DEF WebTypes
<1>8. WebTypes'
  <2>1. client' \in [Clients -> Process(keys, tokens, webNow)]
    BY <1>4, <1>6, <1>a DEF WebTypes
  <2>2. PendingOK(pending', keys, tokens)
    BY <1>5, <1>a DEF WebTypes, PendingOK
  <2>3. lost' \subseteq 1 .. tokens /\ taken' \in [1 .. tokens -> Nat]
    <3>1. taken[entry.token] + 1 \in Nat
      BY <1>3, <1>a DEF WebTypes
    <3> HIDE DEF entry
    <3> QED BY <1>1, <1>2, <1>3, <1>a, <3>1 DEF WebTypes
  <2> QED BY <1>1, <1>a, <2>1, <2>2, <2>3 DEF WebTypes
<1>9. OnceInv'
  <2>1. \A t \in 1 .. tokens : taken'[t] = taken[t] \/ (t = entry.token /\ taken'[t] = 1)
    <3>1. taken[entry.token] = 0
      BY <1>1, <1>a DEF OnceInv
    <3> HIDE DEF entry
    <3> QED BY <1>1, <1>3, <1>a, <3>1 DEF WebTypes
  <2>2. ASSUME NEW b \in Browsers, Held(browser[b])
        PROVE  taken'[browser[b].token] = 0 /\ \A k \in DOMAIN pending' : browser[b].token # pending'[k].token
    <3>1. browser[b].token # entry.token /\ taken[browser[b].token] = 0
      BY <1>1, <1>a, <2>2 DEF OnceInv
    <3>2. browser[b].token \in 1 .. tokens
      BY <1>a, <2>2 DEF WebTypes, Request, Held
    <3> QED BY <1>5, <1>a, <2>1, <2>2, <3>1, <3>2 DEF OnceInv
  <2>3. ASSUME NEW k \in DOMAIN pending' PROVE taken'[pending'[k].token] = 0
    <3>1. pending'[k] = pending[k] /\ k \in DOMAIN pending /\ pending[k].token # entry.token
      BY <1>1, <1>5, <1>a, <2>3 DEF OnceInv
    <3>2. pending[k].token \in 1 .. tokens /\ taken[pending[k].token] = 0
      BY <1>a, <3>1 DEF WebTypes, PendingOK, Entry, OnceInv
    <3> QED BY <2>1, <3>1, <3>2
  <2>4. \A t \in 1 .. tokens : taken'[t] <= 1
    BY <1>a, <2>1 DEF OnceInv
  <2>5. \A k, l \in DOMAIN pending' : pending'[k].token = pending'[l].token => k = l
    BY <1>5, <1>a DEF OnceInv
  <2>6. \A b, d \in Browsers :
          Held(browser'[b]) /\ Held(browser'[d]) /\ browser'[b].token = browser'[d].token => b = d
    BY <1>1, <1>a DEF OnceInv
  <2> QED BY <1>1, <2>2, <2>3, <2>4, <2>5, <2>6 DEF OnceInv
<1>10. OutliveInv'
  BY <1>4, <1>5, <1>7, <1>a DEF OutliveInv, Outlives
<1>11. ASSUME alone PROVE ReachInv'
  <2>1. \A d \in Clients : client'[d].pc # "down" => client[d].pc # "down"
    BY <1>1, <1>7
  <2>2. (OneRequest /\ OneClient /\ NewestHeld)'
    BY <1>1, <1>11, <1>a, <2>1 DEF ReachInv, OneRequest, OneClient, NewestHeld
  <2>3. ASSUME NEW d \in Clients PROVE Fits(client'[d], file, pending')
    <3>1. CASE client'[d] = client[d]
      BY <1>5, <1>11, <1>a, <3>1 DEF ReachInv, Fits
    <3>2. CASE client'[d] = st
      <4>1. file = was.token /\ was.token <= entry.token
        BY <1>1, <1>2, <1>11 DEF Fits
      <4> QED BY <1>4, <1>5, <3>2, <4>1 DEF Fits
    <3> QED BY <1>7, <3>1, <3>2
  <2>4. ASSUME NEW t \in DOMAIN sessions, Web!Alive(t) PROVE t \in (Web!Held \cup lost \cup stray)'
    <3>1. t \in Web!Held \cup lost \cup stray
      BY <1>11, <1>a, <2>4 DEF ReachInv, Reachable
    <3>2. CASE t \in lost \cup stray \/ t = file \/ \E b \in Browsers : t = browser[b].token
      BY <1>1, <3>2 DEF Web!Held
    <3>3. CASE \E k \in DOMAIN pending \ {key} : Web!Polled(k) /\ t = pending[k].token
      <4>1. PICK k \in DOMAIN pending \ {key} : Web!Polled(k) /\ t = pending[k].token
        BY <3>3
      <4>2. Web!Polled(k)'
        BY <1>7, <4>1 DEF Web!Polled
      <4> QED BY <1>5, <4>1, <4>2 DEF Web!Held
    <3>4. CASE t = entry.token
      <4>1. t \in lost' \/ client'[c] = st
        BY <1>1, <1>7, <1>a, <3>4 DEF Web!Become, WebTypes
      <4> QED BY <1>4, <3>4, <4>1 DEF Web!Held
    <3>5. CASE \E d \in Clients : t = client[d].token
      <4>1. PICK d \in Clients : t = client[d].token
        BY <3>5
      <4>2. d = c => t = file
        BY <1>1, <1>2, <1>11, <4>1 DEF Fits
      <4>3. d # c => client'[d] = client[d]
        BY <1>7
      <4> QED BY <1>1, <4>1, <4>2, <4>3 DEF Web!Held
    <3> QED BY <1>1, <3>1, <3>2, <3>3, <3>4, <3>5 DEF Web!Held
  <2> QED BY <1>1, <2>2, <2>3, <2>4 DEF ReachInv, Reachable, Web!Alive
<1>12. ReachInv'
  BY <1>1, <1>11 DEF ReachInv
<1> QED BY <1>8, <1>9, <1>10, <1>12 DEF WebInv

-----------------------------------------------------------------------------
(* WebLogin: the steps of the server                                       *)

LEMMA NoLoginIs ==
  ASSUME NEW k \in Nat, NEW n \in Nat
  PROVE  Web!NoLogin \in Request(k, n) /\ Web!NoLogin.pc = "idle" /\ Web!NoLogin.token = 0
BY DEF Web!NoLogin, Web!NoKey, Web!NoToken, Request

LEMMA WebSubmit ==
  ASSUME WebInv, NEW b \in Browsers, NEW k \in {0} \cup 1 .. keys, Web!Submit(b, k)
  PROVE  WebInv'
<1> DEFINE new == [pc |-> "tls", key |-> k, token |-> 0]
<1>a. WebTypes /\ OnceInv /\ OutliveInv /\ ReachInv
  BY DEF WebInv
<1>1. /\ browser[b].pc = "idle" /\ browser' = [browser EXCEPT ![b] = new]
      /\ alone' = (alone /\ \A other \in Browsers : browser[other].pc = "idle")
      /\ UNCHANGED <<serving, sessions, tokens, pending, keys, file, client, lost, stray, taken, webNow>>
  BY DEF Web!Submit, Web!NoToken
<1>2. new \in Request(keys, tokens) /\ new.pc = "tls" /\ ~Held(new)
  BY <1>a DEF WebTypes, Request, Held
<1> HIDE DEF new
<1>3. /\ \A d \in Browsers \ {b} : browser'[d] = browser[d]
      /\ browser'[b] = new
  BY <1>1, <1>a DEF WebTypes
<1>4. browser[b].token = 0
  BY <1>1, <1>a DEF WebTypes, Request
<1>5. WebTypes'
  <2>1. browser' \in [Browsers -> Request(keys, tokens)]
    BY <1>1, <1>2, <1>a DEF WebTypes
  <2> QED BY <1>1, <1>a, <2>1 DEF WebTypes
<1>6. OnceInv'
  BY <1>1, <1>2, <1>3, <1>a DEF OnceInv
<1>7. OutliveInv'
  BY <1>1, <1>a DEF OutliveInv
<1>8. ASSUME alone' PROVE ReachInv'
  <2>1. alone /\ \A d \in Browsers \ {b} : browser'[d].pc = "idle"
    BY <1>1, <1>3, <1>8
  <2>2. (OneRequest /\ OneClient /\ NewestHeld)'
    BY <1>1, <1>2, <1>3, <1>a, <2>1 DEF ReachInv, OneRequest, OneClient, NewestHeld
  <2>3. Reachable'
    <3>1. ASSUME NEW t \in DOMAIN sessions, Web!Alive(t) PROVE t \in (Web!Held \cup lost \cup stray)'
      <4>1. t \in Web!Held \cup lost \cup stray /\ t # 0
        BY <1>a, <2>1, <3>1 DEF ReachInv, Reachable, WebTypes, SessionsOK
      <4> QED BY <1>1, <1>3, <1>4, <4>1 DEF Web!Held, Web!Polled
    <3> QED BY <1>1, <3>1 DEF Reachable, Web!Alive
  <2> QED BY <1>1, <1>a, <2>1, <2>2, <2>3 DEF ReachInv
<1>9. ReachInv'
  BY <1>8 DEF ReachInv
<1> QED BY <1>5, <1>6, <1>7, <1>9 DEF WebInv

\* A new token is in no other place.
LEMMA WebTlsLogin == ASSUME WebInv, NEW b \in Browsers, Web!TlsLogin(b) PROVE WebInv'
<1> DEFINE new == tokens + 1
           got == [browser[b] EXCEPT !.pc = "put", !.token = new]
           none == Web!NoLogin
<1>a. WebTypes /\ OnceInv /\ OutliveInv /\ ReachInv
  BY DEF WebInv
<1>1. /\ browser[b].pc = "tls" /\ serving /\ tokens' = new /\ sessions' = [t \in {new} |-> webNow + SessionTTL]
      /\ taken' = [t \in 1 .. new |-> IF t \in DOMAIN taken THEN taken[t] ELSE 0]
      /\ \/ browser' = [browser EXCEPT ![b] = got] /\ UNCHANGED lost
         \/ browser' = [browser EXCEPT ![b] = none] /\ lost' = lost \cup {new}
      /\ UNCHANGED <<serving, pending, keys, file, client, stray, alone, webNow>>
  BY DEF Web!TlsLogin
<1>2. /\ tokens \in Nat \ {0} /\ keys \in Nat /\ webNow \in Nat /\ new \in Nat \ {0} /\ tokens <= new
      /\ webNow + SessionTTL \in Nat
  BY <1>a, WebNumbers DEF WebTypes
<1>3. /\ Entry(tokens) \subseteq Entry(new) /\ Request(keys, tokens) \subseteq Request(keys, new)
      /\ Process(keys, tokens, webNow) \subseteq Process(keys, new, webNow)
      /\ 1 .. tokens \subseteq 1 .. new /\ 0 .. tokens \subseteq 0 .. new /\ new \in 1 .. new /\ new \notin 1 .. tokens
  <2>1. keys <= keys /\ webNow <= webNow
    BY <1>2
  <2>2. /\ Entry(tokens) \subseteq Entry(new) /\ Request(keys, tokens) \subseteq Request(keys, new)
        /\ Process(keys, tokens, webNow) \subseteq Process(keys, new, webNow)
    BY <1>2, <2>1, LaterTypes
  <2> QED BY <1>2, <2>2
<1>4. browser[b] \in Request(keys, new)
  BY <1>3, <1>a DEF WebTypes
<1>5. got \in Request(keys, new) /\ got.pc = "put" /\ got.token = new
  <2>1. new \in 0 .. new /\ new # 0
    BY <1>2
  <2> HIDE DEF new
  <2> QED BY <1>4, <2>1 DEF Request
<1>6. none \in Request(keys, new) /\ none.pc = "idle" /\ none.token = 0
  BY <1>2, NoLoginIs
<1> HIDE DEF got, none, new
<1>7. /\ \A d \in Browsers \ {b} : browser'[d] = browser[d]
      /\ \/ browser'[b] = got /\ lost' = lost
         \/ browser'[b] = none /\ lost' = lost \cup {new}
  BY <1>1, <1>a DEF WebTypes
<1>8. /\ \A t \in 1 .. tokens : taken'[t] = taken[t] /\ t # new
      /\ taken'[new] = 0 /\ taken' \in [1 .. new -> Nat]
  BY <1>1, <1>3, <1>a DEF WebTypes
<1>9. WebTypes'
  <2>1. browser' \in [Browsers -> Request(keys, new)]
    BY <1>1, <1>3, <1>5, <1>6, <1>a DEF WebTypes
  <2>2. client \in [Clients -> Process(keys, new, webNow)]
    BY <1>3, <1>a DEF WebTypes
  <2>3. PendingOK(pending, keys, new)
    BY <1>3, <1>a DEF WebTypes, PendingOK
  <2>4. SessionsOK(sessions', new, serving)
    BY <1>1, <1>2 DEF SessionsOK
  <2>5. file \in 0 .. new /\ lost' \cup stray \subseteq 1 .. new
    BY <1>1, <1>3, <1>a DEF WebTypes
  <2> QED BY <1>1, <1>2, <1>8, <1>a, <2>1, <2>2, <2>3, <2>4, <2>5 DEF WebTypes
<1>10. \A k \in DOMAIN pending : pending[k].token \in 1 .. tokens
  BY <1>a DEF WebTypes, PendingOK, Entry
<1>11. \A d \in Browsers : Held(browser[d]) => browser[d].token \in 1 .. tokens
  BY <1>a DEF WebTypes, Request, Held
<1>12. OnceInv'
  <2>1. ASSUME NEW d \in Browsers, Held(browser'[d])
        PROVE  \/ d # b /\ Held(browser[d]) /\ browser'[d] = browser[d]
               \/ d = b /\ browser'[d].token = new
    BY <1>5, <1>6, <1>7, <2>1 DEF Held
  <2>2. \A d \in Browsers : Held(browser'[d]) =>
          /\ taken'[browser'[d].token] = 0
          /\ \A k \in DOMAIN pending' : browser'[d].token # pending'[k].token
    BY <1>1, <1>3, <1>8, <1>10, <1>11, <1>a, <2>1 DEF OnceInv
  <2>3. \A d, e \in Browsers :
          Held(browser'[d]) /\ Held(browser'[e]) /\ browser'[d].token = browser'[e].token => d = e
    BY <1>3, <1>11, <1>a, <2>1 DEF OnceInv
  <2>4. \A k \in DOMAIN pending' : taken'[pending'[k].token] = 0
    BY <1>1, <1>8, <1>10, <1>a DEF OnceInv
  <2>5. \A t \in 1 .. new : taken'[t] <= 1
    <3>1. \A t \in 1 .. new : t \in 1 .. tokens \/ t = new
      BY <1>2 DEF new
    <3> QED BY <1>8, <1>a, <3>1 DEF OnceInv
  <2> QED BY <1>1, <1>a, <2>2, <2>3, <2>4, <2>5 DEF OnceInv
<1>13. OutliveInv'
  BY <1>1, <1>a DEF OutliveInv
<1>14. ASSUME alone PROVE ReachInv'
  <2>1. \A d \in Browsers \ {b} : browser'[d].pc = "idle"
    <3>1. \A d \in Browsers : browser[d].pc \in {"idle", "tls", "put"}
      BY <1>a DEF WebTypes, Request
    <3> QED BY <1>1, <1>7, <1>14, <1>a, <3>1 DEF ReachInv, OneRequest
  <2>2. (OneRequest /\ OneClient /\ NewestHeld)'
    BY <1>1, <1>5, <1>6, <1>7, <1>14, <1>a, <2>1 DEF ReachInv, OneRequest, OneClient, NewestHeld, Held
  <2>3. Reachable'
    <3>1. \A t \in DOMAIN sessions' : t = new
      BY <1>1
    <3>2. new \in (Web!Held \cup lost \cup stray)'
      BY <1>5, <1>7 DEF Web!Held
    <3> QED BY <3>1, <3>2 DEF Reachable
  <2> QED BY <1>1, <1>14, <1>a, <2>2, <2>3 DEF ReachInv
<1>15. ReachInv'
  BY <1>1, <1>14 DEF ReachInv
<1> QED BY <1>9, <1>12, <1>13, <1>15 DEF WebInv

\* An entry that is made now outlives every polling that has begun.
LEMMA WebPutPending == ASSUME WebInv, NEW b \in Browsers, Web!PutPending(b) PROVE WebInv'
<1> DEFINE key == browser[b].key
           token == browser[b].token
           entry == [token |-> token, expires |-> webNow + PendingTTL]
           kept == Web!Kept(key)
           none == Web!NoLogin
<1>a. WebTypes /\ OnceInv /\ OutliveInv /\ ReachInv
  BY DEF WebInv
<1>1. /\ browser[b].pc = "put"
      /\ pending' = [k \in kept \cup {key} |-> IF k = key THEN entry ELSE pending[k]]
      /\ lost' = lost \cup {pending[k].token : k \in Web!Purged \cup ({key} \cap DOMAIN pending)}
      /\ stray' = IF Web!Polled(key) THEN stray ELSE stray \cup {token}
      /\ browser' = [browser EXCEPT ![b] = none]
      /\ UNCHANGED <<serving, sessions, tokens, keys, file, client, taken, alone, webNow>>
  BY DEF Web!PutPending, Web!Expiry
<1>2. /\ keys \in Nat /\ tokens \in Nat \ {0} /\ webNow \in Nat /\ key \in 0 .. keys /\ token \in 0 .. tokens /\ token # 0
      /\ Held(browser[b])
  BY <1>1, <1>a DEF WebTypes, Request, Held
<1>3. none \in Request(keys, tokens) /\ none.pc = "idle" /\ none.token = 0 /\ ~Held(none)
  BY <1>2, NoLoginIs DEF Held
<1>4. kept \subseteq DOMAIN pending /\ key \notin kept /\ Web!Purged \subseteq DOMAIN pending
  BY DEF Web!Kept, Web!Purged
<1>5. \A k \in DOMAIN pending : k \in kept \/ (pending[k].token \in lost')
  BY <1>1 DEF Web!Kept
<1>6. entry \in Entry(tokens) /\ entry.token = token /\ entry.expires = webNow + PendingTTL
  BY <1>2, WebNumbers DEF Entry
<1> HIDE DEF none, kept, entry
<1>7. /\ DOMAIN pending' = kept \cup {key} /\ pending'[key] = entry
      /\ \A k \in kept : pending'[k] = pending[k]
  BY <1>1, <1>4
<1>8. browser'[b] = none /\ \A d \in Browsers \ {b} : browser'[d] = browser[d]
  BY <1>1, <1>a DEF WebTypes
<1>9. WebTypes'
  <2>1. browser' \in [Browsers -> Request(keys, tokens)]
    BY <1>1, <1>3, <1>a DEF WebTypes
  <2>2. PendingOK(pending', keys, tokens)
    BY <1>2, <1>4, <1>6, <1>7, <1>a DEF WebTypes, PendingOK
  <2>3. lost' \subseteq 1 .. tokens /\ stray' \subseteq 1 .. tokens
    BY <1>1, <1>2, <1>4, <1>a DEF WebTypes, PendingOK, Entry
  <2> QED BY <1>1, <1>a, <2>1, <2>2, <2>3 DEF WebTypes
<1>10. \A k \in kept : pending'[k].token # token
  BY <1>2, <1>4, <1>7, <1>a DEF OnceInv
<1>11. OnceInv'
  <2>1. \A d \in Browsers : Held(browser'[d]) => d # b /\ Held(browser[d]) /\ browser'[d] = browser[d]
    BY <1>3, <1>8
  <2>2. \A d, e \in Browsers :
          Held(browser'[d]) /\ Held(browser'[e]) /\ browser'[d].token = browser'[e].token => d = e
    BY <1>a, <2>1 DEF OnceInv
  <2>3. ASSUME NEW d \in Browsers, Held(browser'[d])
        PROVE  /\ taken'[browser'[d].token] = 0
               /\ \A k \in DOMAIN pending' : browser'[d].token # pending'[k].token
    <3>1. browser'[d] = browser[d] /\ Held(browser[d]) /\ browser[d].token # token
      BY <1>2, <1>a, <2>1, <2>3 DEF OnceInv
    <3> QED BY <1>1, <1>4, <1>6, <1>7, <1>a, <3>1 DEF OnceInv
  <2>4. \A k \in DOMAIN pending' : taken'[pending'[k].token] = 0
    BY <1>1, <1>2, <1>4, <1>6, <1>7, <1>a DEF OnceInv
  <2>5. \A k, l \in DOMAIN pending' : pending'[k].token = pending'[l].token => k = l
    BY <1>4, <1>6, <1>7, <1>10, <1>a DEF OnceInv
  <2> QED BY <1>1, <1>a, <2>2, <2>3, <2>4, <2>5 DEF OnceInv
<1>12. ASSUME NEW c \in Clients PROVE Outlives(client[c], pending')
  <2>1. client[c].deadline \in Nat /\ client[c].deadline <= webNow + PollTime
    BY <1>a DEF WebTypes, Process
  <2>2. entry.expires > client[c].deadline
    BY <1>2, <1>6, <2>1, WebNumbers
  <2> QED BY <1>4, <1>7, <1>a, <2>2 DEF OutliveInv, Outlives
<1>13. OutliveInv'
  BY <1>1, <1>12 DEF OutliveInv
<1>14. ASSUME alone PROVE ReachInv'
  <2>1. (OneRequest /\ OneClient /\ NewestHeld)'
    BY <1>1, <1>3, <1>8, <1>14, <1>a DEF ReachInv, OneRequest, OneClient, NewestHeld
  <2>2. ASSUME NEW c \in Clients PROVE Fits(client[c], file, pending')
    <3>1. Fits(client[c], file, pending) /\ client[c].token \in 0 .. tokens
      BY <1>14, <1>a DEF ReachInv, WebTypes, Process
    <3>2. token = tokens
      BY <1>2, <1>14, <1>a DEF ReachInv, NewestHeld
    <3> QED BY <1>2, <1>4, <1>6, <1>7, <3>1, <3>2 DEF Fits
  <2>3. Reachable'
    <3>1. ASSUME NEW t \in DOMAIN sessions, Web!Alive(t) PROVE t \in (Web!Held \cup lost \cup stray)'
      <4>1. t \in Web!Held \cup lost \cup stray
        BY <1>14, <1>a, <3>1 DEF ReachInv, Reachable
      <4>2. CASE t \in lost \cup stray \/ t = file \/ \E c \in Clients : t = client[c].token
        BY <1>1, <4>2 DEF Web!Held
      <4>3. CASE \E k \in DOMAIN pending : Web!Polled(k) /\ t = pending[k].token
        BY <1>1, <1>5, <1>7, <4>3 DEF Web!Held, Web!Polled
      <4>4. CASE \E d \in Browsers : t = browser[d].token
        <5>1. CASE t = token
          <6>1. CASE Web!Polled(key)
            BY <1>1, <1>6, <1>7, <5>1, <6>1 DEF Web!Held, Web!Polled
          <6>2. CASE ~Web!Polled(key)
            BY <1>1, <5>1, <6>2
          <6> QED BY <6>1, <6>2
        <5>2. CASE \E d \in Browsers \ {b} : t = browser[d].token
          BY <1>8, <5>2 DEF Web!Held
        <5> QED BY <4>4, <5>1, <5>2
      <4> QED BY <4>1, <4>2, <4>3, <4>4 DEF Web!Held
    <3> QED BY <1>1, <3>1 DEF Reachable, Web!Alive
  <2> QED BY <1>1, <2>1, <2>2, <2>3 DEF ReachInv
<1>15. ReachInv'
  BY <1>1, <1>14 DEF ReachInv
<1> QED BY <1>9, <1>11, <1>13, <1>15 DEF WebInv

LEMMA WebStop == ASSUME WebInv, Web!Stop PROVE WebInv'
<1> DEFINE none == Web!NoLogin
           unlinked(st) == [st EXCEPT !.linked = FALSE]
<1>a. WebTypes /\ OnceInv /\ OutliveInv /\ ReachInv
  BY DEF WebInv
<1>1. /\ serving' = FALSE /\ DOMAIN sessions' = {} /\ DOMAIN pending' = {}
      /\ browser' = [b \in Browsers |-> none] /\ client' = [c \in Clients |-> unlinked(client[c])]
      /\ UNCHANGED <<tokens, keys, file, lost, stray, taken, alone, webNow>>
  BY DEF Web!Stop
<1>2. keys \in Nat /\ tokens \in Nat /\ webNow \in Nat
  BY <1>a DEF WebTypes
<1>3. none \in Request(keys, tokens) /\ none.pc = "idle" /\ ~Held(none)
  BY <1>2, NoLoginIs DEF Held
<1> HIDE DEF none
<1>4. ASSUME NEW c \in Clients
      PROVE  /\ client'[c] \in Process(keys, tokens, webNow) /\ client'[c].pc = client[c].pc
             /\ client'[c].key = client[c].key /\ client'[c].token = client[c].token
             /\ client'[c].polling = client[c].polling
  <2> DEFINE was == client[c]
             st == unlinked(was)
  <2>1. client'[c] = st
    BY <1>1
  <2>2. was \in Process(keys, tokens, webNow)
    BY <1>a DEF WebTypes
  <2>3. st \in Process(keys, tokens, webNow)
    BY <1>2, <2>2, ClientStates
  <2>4. st.pc = was.pc /\ st.key = was.key /\ st.token = was.token /\ st.polling = was.polling
    BY <2>2 DEF Process
  <2> QED BY <2>1, <2>3, <2>4
<1>5. DOMAIN client' = Clients /\ DOMAIN browser' = Browsers /\ \A b \in Browsers : browser'[b] = none
  BY <1>1
<1> HIDE DEF unlinked
<1>6. WebTypes'
  <2>1. client' \in [Clients -> Process(keys, tokens, webNow)] /\ browser' \in [Browsers -> Request(keys, tokens)]
    BY <1>1, <1>3, <1>4
  <2> QED BY <1>1, <1>a, <2>1 DEF WebTypes, SessionsOK, PendingOK
<1>7. OnceInv'
  BY <1>1, <1>3, <1>5, <1>a DEF OnceInv
<1>8. OutliveInv'
  BY <1>1 DEF OutliveInv, Outlives
<1>9. ReachInv'
  BY <1>1, <1>3, <1>4, <1>5, <1>a DEF ReachInv, OneRequest, OneClient, NewestHeld, Fits, Reachable
<1> QED BY <1>6, <1>7, <1>8, <1>9 DEF WebInv

LEMMA WebStartServer == ASSUME WebInv, Web!StartServer PROVE WebInv'
<1>a. WebTypes /\ OnceInv /\ OutliveInv /\ ReachInv
  BY DEF WebInv
<1>1. /\ serving' = TRUE
      /\ UNCHANGED <<sessions, tokens, pending, browser, keys, file, client, lost, stray, taken, alone, webNow>>
  BY DEF Web!StartServer
<1>2. WebTypes'
  BY <1>1, <1>a DEF WebTypes, SessionsOK
<1>3. OnceInv' /\ OutliveInv'
  BY <1>1, <1>a DEF OnceInv, OutliveInv
<1>4. ReachInv'
  BY <1>1, <1>a DEF ReachInv, OneRequest, OneClient, NewestHeld, Reachable, Web!Alive, Web!Held, Web!Polled
<1> QED BY <1>2, <1>3, <1>4 DEF WebInv

LEMMA WebTick == ASSUME WebInv, Web!Tick PROVE WebInv'
<1>a. WebTypes /\ OnceInv /\ OutliveInv /\ ReachInv
  BY DEF WebInv
<1>1. /\ webNow' = webNow + 1
      /\ UNCHANGED <<serving, sessions, tokens, pending, browser, keys, file, client, lost, stray, taken, alone>>
  BY DEF Web!Tick
<1>2. /\ keys \in Nat /\ tokens \in Nat /\ webNow \in Nat /\ webNow' \in Nat
      /\ keys <= keys /\ tokens <= tokens /\ webNow <= webNow'
  BY <1>1, <1>a DEF WebTypes
<1>3. Process(keys, tokens, webNow) \subseteq Process(keys, tokens, webNow')
  BY <1>2, LaterTypes
<1>4. WebTypes'
  <2>1. client' \in [Clients -> Process(keys, tokens, webNow')]
    BY <1>1, <1>3, <1>a DEF WebTypes
  <2> QED BY <1>1, <1>2, <1>a, <2>1 DEF WebTypes
<1>5. OnceInv' /\ OutliveInv'
  BY <1>1, <1>a DEF OnceInv, OutliveInv
<1>6. \A t \in DOMAIN sessions : webNow' <= sessions[t] => webNow <= sessions[t]
  BY <1>1, <1>2, <1>a DEF WebTypes, SessionsOK
<1>7. ReachInv'
  BY <1>1, <1>6, <1>a DEF ReachInv, OneRequest, OneClient, NewestHeld, Reachable, Web!Alive, Web!Held, Web!Polled
<1> QED BY <1>4, <1>5, <1>7 DEF WebInv

-----------------------------------------------------------------------------
(* WebLogin: theorems                                                      *)

LEMMA WebKeeps == ASSUME WebInv, [MCNext]_MCVars PROVE WebInv'
<1>1. CASE UNCHANGED webVars
  BY <1>1, WebStutters DEF webVars
<1>2. CASE Web!Next
  <2>1. ASSUME NEW c \in Clients, Web!Step(c) PROVE WebInv'
    BY <2>1, WebRun, WebRegister, WebPoll, WebTimeOut, WebSaveToken, WebStartShell, WebWhoAmI
       DEF Web!Step
  <2>2. ASSUME NEW c \in Clients,
               \/ Web!Kill(c) \/ Web!BreakConnection(c) \/ Web!Command(c)
               \/ Web!ChangeDirectory(c) \/ Web!Leave(c) \/ Web!Logout(c)
        PROVE  WebInv'
    BY <2>2, WebKill, WebBreakConnection, WebCommand, WebChangeDirectory, WebLeave, WebLogout
  <2>3. ASSUME NEW b \in Browsers, Web!Serve(b) PROVE WebInv'
    BY <2>3, WebTlsLogin, WebPutPending DEF Web!Serve
  <2>4. ASSUME NEW b \in Browsers, NEW k \in {Web!NoKey} \cup 1 .. keys, Web!Submit(b, k) PROVE WebInv'
    BY <2>4, WebSubmit DEF Web!NoKey
  <2> QED BY <1>2, <2>1, <2>2, <2>3, <2>4, WebStop, WebStartServer, WebTick DEF Web!Next
<1> QED BY <1>1, <1>2, WebMoves

LEMMA WebInvariant == MCSpec => []WebInv
<1>1. MCInit => WebInv
  BY WebBegins DEF MCInit
<1> QED BY <1>1, WebKeeps, PTL DEF MCSpec

\* A poll hands out a token once, also when an answer is lost, the shell fails and the
\* client polls on (poll_token).
THEOREM TokensTakenOnce == MCSpec => []TakenOnce
<1>1. WebInv => TakenOnce
  BY DEF WebInv, OnceInv, TakenOnce, Web!TakenOnce
<1> QED BY <1>1, WebInvariant, PTL

\* The entry of a client that polls is in force as long as it polls (_put_pending).
THEOREM EntriesOutlivePolling == MCSpec => []PendingOutlivesPolling
<1>1. ASSUME WebInv PROVE PendingOutlivesPolling
  <2>1. ASSUME NEW c \in Clients, client[c].pc = "poll", webNow < client[c].deadline,
               client[c].key \in DOMAIN pending
        PROVE  pending[client[c].key].expires > webNow
    <3>1. pending[client[c].key].expires > client[c].deadline
      BY <1>1, <2>1 DEF WebInv, OutliveInv, Outlives
    <3>2. /\ pending[client[c].key].expires \in Nat /\ client[c].deadline \in Nat /\ webNow \in Nat
      BY <1>1, <2>1 DEF WebInv, WebTypes, PendingOK, Entry, Process
    <3> QED BY <2>1, <3>1, <3>2
  <2> QED BY <2>1 DEF PendingOutlivesPolling, Web!PendingOutlivesPolling
<1> QED BY <1>1, WebInvariant, PTL

\* With one client and one login at a time no session is left that its user cannot
\* reach, unless a failure, an expiry or a later login took it from him, or it was made
\* for a key that no client polled or was given up on before it was collected
\* (web_login).
THEOREM NoSessionIsStranded == MCSpec => []SessionsReachable
<1>1. WebInv => SessionsReachable
  BY DEF WebInv, ReachInv, Reachable, SessionsReachable, Web!SessionsReachable
<1> QED BY <1>1, WebInvariant, PTL

-----------------------------------------------------------------------------
(* VfsBucket                                                               *)

LEMMA BucketMoves == ASSUME [MCNext]_MCVars PROVE Bucket!Next \/ UNCHANGED bucketVars
BY DEF MCNext, MCVars, Others

LEMMA BucketNumbers == Capacity \in Nat \ {0} /\ RefillRate \in Nat
BY LimitsAssumptions DEF Bucket!BucketAssumption

\* What is refilled from one clock to another, which may be before it.
Gain(from, to) == (to - from) * RefillRate

LEMMA GainIsInt ==
  ASSUME NEW a, NEW b, a \in Int, b \in Int
  PROVE  Gain(a, b) \in Int /\ (a <= b => Gain(a, b) >= 0) /\ Gain(a, a) = 0
BY BucketNumbers DEF Gain

LEMMA GainsAdd ==
  ASSUME NEW a, NEW b, NEW c, a \in Int, b \in Int, c \in Int
  PROVE  Gain(a, b) + Gain(b, c) = Gain(a, c)
BY BucketNumbers DEF Gain

\* What was allowed since the i-th request and what is left do not exceed what the
\* bucket holds and was refilled since.
Level(bkt, grants) ==
  \A i \in DOMAIN grants :
    Len(grants) - i + 1 + bkt.tokens <= Capacity + Gain(grants[i], bkt.last)

NoDebt(bkt, time) == bkt.tokens + Gain(bkt.last, time) >= 0

Bursts(grants) ==
  \A i, j \in DOMAIN grants : i < j => j - i + 1 <= Capacity + Gain(grants[i], grants[j])

BucketInv ==
  /\ bucketNow \in Nat /\ command \in [Threads -> {-1} \cup 0 .. bucketNow]
  /\ bucket \in [tokens : Int, last : Int] /\ granted \in Seq(0 .. bucketNow)
  /\ Bursts(granted)
  /\ bucket = Bucket!NoBucket => granted = <<>>
  /\ bucket # Bucket!NoBucket =>
       /\ bucket.last \in 0 .. bucketNow /\ bucket.tokens <= Capacity - 1
       /\ NoDebt(bucket, bucketNow) /\ Level(bucket, granted)

LEMMA BucketBegins == ASSUME Bucket!Init PROVE BucketInv
BY DEF Bucket!Init, BucketInv, Bucket!NoBucket, Bucket!NoTime, Bursts

\* What a refill may add to what has been taken and is left.
LEMMA RefillFits ==
  ASSUME NEW n, NEW i, NEW left, NEW full, NEW before, NEW since, NEW all, NEW cap,
         n \in Int, i \in Int, left \in Int, full \in Int, before \in Int, since \in Int,
         all \in Int, cap \in Int, before + since = all,
         n - i + 1 + left <= cap + before, full <= left + since
  PROVE  n - i + 1 + full <= cap + all
OBVIOUS

LEMMA BucketTakes == ASSUME BucketInv, NEW t \in Threads, Bucket!TakeToken(t) PROVE BucketInv'
<1> DEFINE time == command[t]
           sum == bucket.tokens + Gain(bucket.last, time)
           full == Bucket!Refilled(time)
<1>a. time \in 0 .. bucketNow /\ bucketNow \in Nat /\ bucket.last \in Int
  BY DEF BucketInv, Bucket!TakeToken, Bucket!NoTime
<1>b. time \in Int /\ bucketNow \in Int
  BY <1>a
<1>1. /\ time \in 0 .. bucketNow /\ bucketNow' = bucketNow /\ bucketNow \in Nat
      /\ bucket.tokens \in Int /\ bucket.last \in Int /\ granted \in Seq(0 .. bucketNow)
      /\ Capacity \in Nat \ {0} /\ sum \in Int
  BY <1>a, <1>b, GainIsInt, BucketNumbers DEF BucketInv, Bucket!TakeToken
<1>2. command' \in [Threads -> {-1} \cup 0 .. bucketNow]
  BY DEF BucketInv, Bucket!TakeToken, Bucket!NoTime
<1>3. full = IF sum < Capacity THEN sum ELSE Capacity
  BY DEF Bucket!Refilled, Gain
<1> HIDE DEF full, sum
<1>4. full \in Int /\ full <= Capacity /\ full <= sum
  BY <1>1, <1>3
<1>5. CASE bucket = Bucket!NoBucket
  <2>1. bucket' = [tokens |-> Capacity - 1, last |-> time] /\ granted' = <<time>>
    BY <1>5 DEF Bucket!TakeToken
  <2>2. Gain(time, time) = 0 /\ Gain(time, bucketNow) >= 0 /\ Gain(time, bucketNow) \in Int
    BY <1>a, <1>b, GainIsInt, GainsAdd
  <2>3. NoDebt(bucket', bucketNow) /\ Level(bucket', granted') /\ Bursts(granted')
    BY <1>1, <2>1, <2>2 DEF NoDebt, Level, Bursts
  <2> QED BY <1>1, <1>2, <2>1, <2>3 DEF BucketInv, Bucket!NoBucket, Bucket!NoTime
<1>6. CASE bucket # Bucket!NoBucket
  <2>1. /\ bucket.last \in 0 .. bucketNow /\ bucket.tokens <= Capacity - 1
        /\ NoDebt(bucket, bucketNow) /\ Level(bucket, granted) /\ Bursts(granted)
    BY <1>6 DEF BucketInv
  \* The bucket is refilled for the time since its last clock, at most.
  <2>2. \A i \in DOMAIN granted : Len(granted) - i + 1 + full <= Capacity + Gain(granted[i], time)
    <3>1. ASSUME NEW i \in DOMAIN granted
          PROVE  Len(granted) - i + 1 + full <= Capacity + Gain(granted[i], time)
      <4>1. granted[i] \in Int /\ i \in Nat /\ Len(granted) \in Nat
        BY <1>1
      <4>2. Gain(granted[i], bucket.last) + Gain(bucket.last, time) = Gain(granted[i], time)
        BY <1>a, <1>b, <4>1, GainIsInt, GainsAdd
      <4>3. /\ Gain(bucket.last, time) \in Int /\ Gain(granted[i], bucket.last) \in Int
            /\ Gain(granted[i], time) \in Int
        BY <1>a, <1>b, <4>1, GainIsInt, GainsAdd
      <4>4. Len(granted) - i + 1 + bucket.tokens <= Capacity + Gain(granted[i], bucket.last)
        BY <2>1 DEF Level
      <4>5. full <= bucket.tokens + Gain(bucket.last, time)
        BY <1>4 DEF sum
      <4> HIDE DEF Gain
      <4>6. Len(granted) \in Int /\ i \in Int /\ Capacity \in Int /\ bucket.tokens \in Int
        BY <1>1, <4>1
      <4> DEFINE n == Len(granted)
                 left == bucket.tokens
                 before == Gain(granted[i], bucket.last)
                 since == Gain(bucket.last, time)
                 all == Gain(granted[i], time)
      <4>7. /\ n \in Int /\ i \in Int /\ left \in Int /\ full \in Int /\ before \in Int /\ since \in Int
            /\ all \in Int /\ Capacity \in Int /\ before + since = all
            /\ n - i + 1 + left <= Capacity + before /\ full <= left + since
        BY <1>4, <4>2, <4>3, <4>4, <4>5, <4>6
      <4> HIDE DEF n, left, before, since, all
      <4>8. n - i + 1 + full <= Capacity + all
        BY <4>7, RefillFits
      <4> QED BY <4>8 DEF n, all
    <3> QED BY <3>1
  <2>3. CASE full >= 1
    <3>1. bucket' = [tokens |-> full - 1, last |-> time] /\ granted' = Append(granted, time)
      BY <1>6, <2>3 DEF Bucket!TakeToken, full
    <3>2. /\ granted' \in Seq(0 .. bucketNow) /\ Len(granted') = Len(granted) + 1 /\ Len(granted) \in Nat
          /\ \A i \in DOMAIN granted : granted'[i] = granted[i] /\ i \in DOMAIN granted'
          /\ granted'[Len(granted')] = time
          /\ \A i \in DOMAIN granted' : i \in DOMAIN granted \/ i = Len(granted')
      BY <1>1, <3>1
    <3>3. ASSUME NEW i \in DOMAIN granted'
          PROVE  Len(granted') - i + full <= Capacity + Gain(granted'[i], time)
      <4>1. Len(granted) \in Nat /\ Gain(time, time) = 0
        BY <1>a, <1>b, GainIsInt, GainsAdd
      <4>2. CASE i = Len(granted')
        BY <1>1, <1>4, <3>2, <4>1, <4>2
      <4>3. CASE i \in DOMAIN granted
        <5>1. Len(granted) - i + 1 + full <= Capacity + Gain(granted[i], time)
          BY <2>2, <4>3
        <5> QED BY <1>1, <3>2, <4>3, <5>1
      <4> QED BY <3>2, <4>2, <4>3
    <3>4. Level(bucket', granted')
      <4>1. \A i \in DOMAIN granted' : i \in Nat /\ Len(granted') \in Nat
        BY <1>1, <3>2
      <4>2. bucket'.tokens = full - 1 /\ bucket'.last = time
        BY <3>1
      <4>3. \A i \in DOMAIN granted' : Len(granted') - i + 1 + (full - 1) = Len(granted') - i + full
        BY <1>4, <4>1
      <4> QED BY <3>3, <4>2, <4>3 DEF Level
    <3>5. Bursts(granted')
      <4>1. ASSUME NEW i \in DOMAIN granted', NEW j \in DOMAIN granted', i < j
            PROVE  j - i + 1 <= Capacity + Gain(granted'[i], granted'[j])
        <5>1. i \in DOMAIN granted
          BY <1>1, <3>2, <4>1
        <5>2. CASE j \in DOMAIN granted
          BY <2>1, <3>2, <4>1, <5>1, <5>2 DEF Bursts
        <5>3. CASE j = Len(granted')
          <6>1. Len(granted) - i + 1 + full <= Capacity + Gain(granted[i], time)
            BY <2>2, <5>1
          <6>2. Gain(granted[i], time) \in Int /\ i \in Nat
            <7>1. granted[i] \in Int /\ i \in Nat
              BY <1>1, <5>1
            <7> QED BY <1>b, <7>1, GainIsInt
          <6>3. granted'[i] = granted[i] /\ granted'[j] = time /\ j = Len(granted) + 1
            BY <1>1, <2>3, <3>2, <5>1, <5>3
          <6> DEFINE k == Len(granted)
                     g == Gain(granted[i], time)
                     cap == Capacity
          <6>4. /\ k - i + 1 + full <= cap + g /\ g \in Int /\ i \in Nat /\ k \in Nat /\ j = k + 1
                /\ cap \in Nat /\ full \in Int
            BY <1>1, <1>4, <6>1, <6>2, <6>3
          <6> HIDE DEF k, g, cap
          <6>5. j - i + 1 <= cap + g
            BY <2>3, <6>4
          <6> QED BY <6>3, <6>5 DEF g, cap
        <5> QED BY <3>2, <5>2, <5>3
      <4> QED BY <4>1 DEF Bursts
    <3>6. NoDebt(bucket', bucketNow)
      <4>1. Gain(time, bucketNow) >= 0 /\ Gain(time, bucketNow) \in Int
        BY <1>a, <1>b, GainIsInt, GainsAdd
      <4> QED BY <1>4, <2>3, <3>1, <4>1 DEF NoDebt
    <3> QED BY <1>1, <1>2, <1>4, <3>1, <3>2, <3>4, <3>5, <3>6 DEF BucketInv, Bucket!NoBucket, Bucket!NoTime
  <2>4. CASE ~(full >= 1)
    <3>1. bucket' = [tokens |-> full, last |-> time] /\ granted' = granted
      BY <1>6, <2>4 DEF Bucket!TakeToken, full
    <3>2. full = sum
      BY <1>1, <1>3, <2>4
    <3>3. NoDebt(bucket', bucketNow)
      <4>1. Gain(time, bucketNow) + Gain(bucket.last, time) = Gain(bucket.last, bucketNow)
        BY <1>a, <1>b, GainIsInt, GainsAdd
      <4>2. /\ Gain(time, bucketNow) \in Int /\ Gain(bucket.last, time) \in Int
            /\ Gain(bucket.last, bucketNow) \in Int
        BY <1>a, <1>b, GainIsInt, GainsAdd
      <4> QED BY <1>1, <2>1, <3>1, <3>2, <4>1, <4>2 DEF NoDebt, sum
    <3>4. Level(bucket', granted')
      BY <2>2, <3>1 DEF Level
    <3>5. full <= Capacity - 1
      BY <1>1, <1>4, <2>4
    <3> QED BY <1>1, <1>2, <1>4, <2>1, <3>1, <3>3, <3>4, <3>5 DEF BucketInv, Bucket!NoBucket, Bucket!NoTime
  <2> QED BY <2>3, <2>4
<1> QED BY <1>5, <1>6

LEMMA BucketKeeps == ASSUME BucketInv, [MCNext]_MCVars PROVE BucketInv'
<1>1. CASE UNCHANGED bucketVars
  BY <1>1 DEF bucketVars, BucketInv
<1>2. ASSUME NEW t \in Threads, Bucket!ReadClock(t) PROVE BucketInv'
  <2>1. UNCHANGED <<bucket, granted, bucketNow>> /\ command' = [command EXCEPT ![t] = bucketNow] /\ bucketNow \in Nat
    BY <1>2 DEF Bucket!ReadClock, BucketInv
  <2>2. command' \in [Threads -> {-1} \cup 0 .. bucketNow]
    BY <2>1 DEF BucketInv
  <2> QED BY <2>1, <2>2 DEF BucketInv
<1>3. ASSUME Bucket!ClearBucket PROVE BucketInv'
  BY <1>3 DEF Bucket!ClearBucket, BucketInv, Bucket!NoBucket, Bucket!NoTime, Bursts
<1>4. ASSUME Bucket!Tick PROVE BucketInv'
  <2>1. UNCHANGED <<bucket, granted, command>> /\ bucketNow' = bucketNow + 1 /\ bucketNow \in Nat
    BY <1>4 DEF Bucket!Tick, BucketInv
  <2>2. 0 .. bucketNow \subseteq 0 .. bucketNow'
    BY <2>1
  <2>3. command' \in [Threads -> {-1} \cup 0 .. bucketNow'] /\ granted' \in Seq(0 .. bucketNow')
    BY <2>1, <2>2 DEF BucketInv
  <2>4. ASSUME bucket # Bucket!NoBucket PROVE NoDebt(bucket, bucketNow') /\ bucket.last \in 0 .. bucketNow'
    <3>1. bucket.tokens \in Int /\ bucket.last \in 0 .. bucketNow /\ NoDebt(bucket, bucketNow)
      BY <2>4 DEF BucketInv
    <3>a. bucket.last \in Int /\ bucketNow \in Int /\ bucketNow' \in Int /\ bucketNow <= bucketNow'
      BY <2>1, <3>1
    <3>2. Gain(bucketNow, bucketNow') + Gain(bucket.last, bucketNow) = Gain(bucket.last, bucketNow')
      BY <3>a, GainIsInt, GainsAdd
    <3>3. /\ Gain(bucketNow, bucketNow') \in Int /\ Gain(bucket.last, bucketNow) \in Int
          /\ Gain(bucketNow, bucketNow') >= 0 /\ Gain(bucket.last, bucketNow') \in Int
      BY <3>a, GainIsInt, GainsAdd
    <3> QED BY <2>2, <3>1, <3>2, <3>3 DEF NoDebt
  <2> QED BY <2>1, <2>3, <2>4 DEF BucketInv
<1> QED BY <1>1, <1>2, <1>3, <1>4, BucketTakes, BucketMoves DEF Bucket!Next

LEMMA BucketInvariant == MCSpec => []BucketInv
<1>1. MCInit => BucketInv
  BY BucketBegins DEF MCInit
<1> QED BY <1>1, BucketKeeps, PTL DEF MCSpec

\* Whatever the order in which threads get the lock, a session gets no more than its
\* bucket gives, and what late clocks take comes back with time (_vfs_rate_check).
THEOREM BucketIsFair == MCSpec => []BucketHolds
<1>1. ASSUME BucketInv PROVE BucketHolds
  <2>1. Bucket!BurstBounded
    <3>1. ASSUME NEW i \in DOMAIN granted, NEW j \in DOMAIN granted, i < j
          PROVE  j - i + 1 <= Capacity + RefillRate * (granted[j] - granted[i])
      <4>1. j - i + 1 <= Capacity + Gain(granted[i], granted[j])
        BY <1>1, <3>1 DEF BucketInv, Bursts
      <4>2. granted[i] \in Int /\ granted[j] \in Int /\ RefillRate \in Int
        BY <1>1, BucketNumbers DEF BucketInv
      <4>3. Gain(granted[i], granted[j]) = RefillRate * (granted[j] - granted[i])
        BY <4>2 DEF Gain
      <4> QED BY <4>1, <4>3
    <3> QED BY <3>1 DEF Bucket!BurstBounded
  <2>2. Bucket!NoLastingDebt
    BY <1>1 DEF BucketInv, NoDebt, Gain, Bucket!NoLastingDebt
  <2> QED BY <2>1, <2>2 DEF BucketHolds
<1> QED BY <1>1, BucketInvariant, PTL

-----------------------------------------------------------------------------
(* RateLimit: what a window covers                                         *)

LEMMA LimitMoves == ASSUME [MCNext]_MCVars PROVE Limits!Next \/ UNCHANGED loginVars
BY DEF MCNext, MCVars, Others

LEMMA LimitNumbers ==
  /\ {IpWindow, IpMax, AcctMax, AcctLockout, LoginWindow, LoginMaxFails} \subseteq Nat \ {0}
  /\ MaxDelay \in Nat /\ IsFiniteSet(Threads)
BY LimitsAssumptions DEF Limits!LimitAssumption, Limits!IsFiniteSet, IsFiniteSet

LEMMA SameCount == ASSUME NEW S PROVE Limits!Cardinality(S) = Cardinality(S)
BY DEF Limits!Cardinality, Cardinality

LEMMA Fewer ==
  ASSUME NEW T, IsFiniteSet(T), NEW S, S \subseteq T
  PROVE  /\ IsFiniteSet(S) /\ Cardinality(S) \in Nat /\ Cardinality(T) \in Nat
         /\ Cardinality(S) <= Cardinality(T)
BY FS_Subset, FS_CardinalityType

LEMMA OneMore ==
  ASSUME NEW T, IsFiniteSet(T), NEW e, NEW S, S \subseteq T \cup {e}
  PROVE  /\ IsFiniteSet(S) /\ Cardinality(S) \in Nat /\ Cardinality(T) \in Nat
         /\ Cardinality(S) <= Cardinality(T) + 1
<1>1. IsFiniteSet(T \cup {e}) /\ Cardinality(T \cup {e}) \in {Cardinality(T), Cardinality(T) + 1}
  BY FS_AddElement
<1>2. /\ IsFiniteSet(S) /\ Cardinality(S) \in Nat /\ Cardinality(T) \in Nat
      /\ Cardinality(S) <= Cardinality(T \cup {e})
  BY <1>1, FS_Subset, FS_CardinalityType
<1> DEFINE n == Cardinality(T \cup {e})
<1>3. n \in {Cardinality(T), Cardinality(T) + 1} /\ Cardinality(S) <= n
  BY <1>1, <1>2
<1> HIDE DEF n
<1> QED BY <1>2, <1>3

Times(n) == [time : 0 .. n, nth : Nat]

\* A list of n entries leaves one of the numbers from 1 to n + 1.
LEMMA EntryIs ==
  ASSUME NEW n \in Nat, NEW list, IsFiniteSet(list), NEW time \in 0 .. n
  PROVE  Limits!Entry(list, time) \in Times(n) /\ Limits!Entry(list, time).time = time
<1> DEFINE free(k) == \A e \in list : e.nth # k
           numbers == {e.nth : e \in list}
           N == 1 .. Cardinality(list) + 1
           k == CHOOSE i \in N : free(i)
<1>1. Cardinality(list) \in Nat
  BY FS_CardinalityType
<1>2. IsFiniteSet(numbers) /\ Cardinality(numbers) <= Cardinality(list) /\ Cardinality(numbers) \in Nat
  <2> DEFINE f == [e \in list |-> e.nth]
  <2>1. f \in Surjection(list, numbers)
    BY DEF Surjection
  <2> HIDE DEF f, numbers
  <2>2. IsFiniteSet(numbers) /\ Cardinality(numbers) <= Cardinality(list)
    BY <2>1, FS_Surjection
  <2> QED BY <2>2, FS_CardinalityType
<1>3. Cardinality(N) = Cardinality(list) + 1
  <2> DEFINE c == Cardinality(list) + 1
  <2>1. c \in Int /\ 1 \in Int /\ c >= 1
    BY <1>1
  <2> HIDE DEF c
  <2>2. Cardinality(1 .. c) = IF 1 > c THEN 0 ELSE c - 1 + 1
    BY <2>1, FS_Interval
  <2> QED BY <2>1, <2>2 DEF c
<1>4. ~(N \subseteq numbers)
  <2>1. N \subseteq numbers => Cardinality(N) <= Cardinality(numbers)
    BY <1>2, FS_Subset
  <2> QED BY <1>1, <1>2, <1>3, <2>1
<1>5. \E i \in N : free(i)
  BY <1>4
<1>6. k \in N
  <2> HIDE DEF free, N
  <2> QED BY <1>5
<1>7. k \in Nat
  BY <1>1, <1>6
<1>8. Limits!Entry(list, time) = [time |-> time, nth |-> k]
  BY SameCount DEF Limits!Entry
<1> HIDE DEF k
<1> QED BY <1>7, <1>8 DEF Times

-----------------------------------------------------------------------------
(* RateLimit: the requests that run in parallel                            *)

LoginsOK(requests, time) ==
  /\ requests \in [Threads -> [pc : Limits!Pcs, clock : -1 .. time]]
  /\ \A t \in Threads : requests[t].clock # -1 => time - requests[t].clock <= MaxDelay

Busy(pcs) == {t \in Threads : login[t].pc \in pcs}
Count(pcs) == Cardinality(Busy(pcs))

LEMMA BusyIs ==
  ASSUME NEW pcs PROVE Count(pcs) \in Nat /\ Count(pcs) <= Cardinality(Threads) /\ Cardinality(Threads) \in Nat
<1>1. Busy(pcs) \subseteq Threads
  BY DEF Busy
<1> QED BY <1>1, LimitNumbers, Fewer DEF Count

\* Where a request goes, and without a time.
LEMMA GotoIs ==
  ASSUME NEW n \in Nat, LoginsOK(login, n), NEW t \in Threads, NEW pc \in Limits!Pcs, Limits!Goto(t, pc)
  PROVE  /\ LoginsOK(login', n) /\ login'[t].pc = pc
         /\ \A u \in Threads \ {t} : login'[u] = login[u]
<1> DEFINE to == [pc |-> pc, clock |-> -1]
<1>1. login' = [login EXCEPT ![t] = to] /\ to.pc = pc /\ to.clock = -1
  BY DEF Limits!Goto, Limits!NoTime
<1>2. to \in [pc : Limits!Pcs, clock : -1 .. n]
  OBVIOUS
<1> HIDE DEF to
<1> QED BY <1>1, <1>2 DEF LoginsOK

\* What a step of one request does to the number of those that are about to do something.
LEMMA BusyMoves ==
  ASSUME NEW n \in Nat, LoginsOK(login, n), NEW t \in Threads, NEW pc \in Limits!Pcs, Limits!Goto(t, pc),
         NEW pcs
  PROVE  /\ (login[t].pc \in pcs) = (pc \in pcs) => Count(pcs)' = Count(pcs)
         /\ login[t].pc \in pcs /\ pc \notin pcs => Count(pcs)' = Count(pcs) - 1
         /\ pc \notin pcs => Count(pcs)' <= Cardinality(Threads) - 1
         /\ Count(pcs)' \in Nat /\ Count(pcs)' <= Cardinality(Threads)
<1>1. \A u \in Threads : login'[u].pc = IF u = t THEN pc ELSE login[u].pc
  BY GotoIs
<1>2. ASSUME (login[t].pc \in pcs) = (pc \in pcs) PROVE Count(pcs)' = Count(pcs)
  <2>1. Busy(pcs)' = Busy(pcs)
    BY <1>1, <1>2 DEF Busy
  <2> QED BY <2>1 DEF Count
<1>3. ASSUME login[t].pc \in pcs, pc \notin pcs PROVE Count(pcs)' = Count(pcs) - 1
  <2>1. Busy(pcs)' = Busy(pcs) \ {t} /\ t \in Busy(pcs) /\ Busy(pcs) \subseteq Threads
    BY <1>1, <1>3 DEF Busy
  <2>2. IsFiniteSet(Busy(pcs))
    BY <2>1, LimitNumbers, FS_Subset
  <2> QED BY <2>1, <2>2, FS_RemoveElement DEF Count
<1>4. ASSUME pc \notin pcs PROVE Count(pcs)' <= Cardinality(Threads) - 1
  <2>1. Busy(pcs)' \subseteq Threads \ {t}
    BY <1>1, <1>4 DEF Busy
  <2>2. IsFiniteSet(Threads \ {t}) /\ Cardinality(Threads \ {t}) = Cardinality(Threads) - 1
    BY LimitNumbers, FS_RemoveElement
  <2> QED BY <2>1, <2>2, FS_Subset DEF Count
<1>5. Count(pcs)' \in Nat /\ Count(pcs)' <= Cardinality(Threads)
  <2>1. Busy(pcs)' \subseteq Threads
    BY DEF Busy
  <2> QED BY <2>1, LimitNumbers, FS_Subset, FS_CardinalityType DEF Count
<1> QED BY <1>2, <1>3, <1>4, <1>5

-----------------------------------------------------------------------------
(* RateLimit: the inductive invariant                                      *)

\* The attempts that come within IpWindow from a time on, less the delay.
Within(from) == {a \in admitted : from <= a.time /\ a.time + MaxDelay < from + IpWindow}

\* An attempt that was let in is a hit until it is out of the window.
HitsInv ==
  /\ hits \subseteq admitted
  /\ \A a \in admitted \ hits : a.time + IpWindow <= loginNow
  /\ \A from \in Nat : Cardinality(Within(from)) <= IpMax

\* A failure in the window, and whoever may still fail.
InWindow == {e \in loginFails : loginNow - e.time < LoginWindow}
FailBound ==
  Cardinality(InWindow) + Count({"login_auth", "login_fail"}) <= LoginMaxFails + Cardinality(Threads) - 1
LockBound ==
  lockUntil > loginNow => Cardinality(acctFails) + Count({"auth", "web_fail"}) <= Cardinality(Threads) - 1

ListOK(list) == list \subseteq Times(loginNow) /\ IsFiniteSet(list)

LimitTypes ==
  /\ loginNow \in Nat /\ logins \in Nat /\ LoginsOK(login, loginNow)
  /\ lockUntil \in 0 .. loginNow + AcctLockout
  /\ ListOK(hits) /\ ListOK(acctFails) /\ ListOK(loginFails) /\ ListOK(admitted)

LimitInv == LimitTypes /\ HitsInv /\ FailBound /\ LockBound

LEMMA LimitBegins == ASSUME Limits!Init PROVE LimitInv
<1> DEFINE none == [pc |-> "idle", clock |-> -1]
<1>1. /\ hits = {} /\ acctFails = {} /\ loginFails = {} /\ admitted = {} /\ lockUntil = 0
      /\ loginNow = 0 /\ logins = 0 /\ login = [t \in Threads |-> none]
  BY DEF Limits!Init, Limits!NoTime
<1>2. none \in [pc : Limits!Pcs, clock : -1 .. 0] /\ none.clock = -1 /\ none.pc = "idle"
  BY DEF Limits!Pcs
<1> HIDE DEF none
<1>3. IsFiniteSet({}) /\ Cardinality({}) = 0
  BY FS_EmptySet
<1>4. LimitTypes
  BY <1>1, <1>2, <1>3, LimitNumbers DEF LimitTypes, LoginsOK, ListOK
<1>5. HitsInv
  <2>1. \A from \in Nat : Within(from) = {}
    BY <1>1 DEF Within
  <2> QED BY <1>1, <1>3, <2>1, LimitNumbers DEF HitsInv
<1>6. LockBound
  BY <1>1 DEF LockBound
<1>7. FailBound
  <2>1. Busy({"login_auth", "login_fail"}) = {} /\ InWindow = {}
    BY <1>1, <1>2 DEF Busy, InWindow
  <2>2. Count({"login_auth", "login_fail"}) = 0 /\ Cardinality(InWindow) = 0
    BY <1>3, <2>1 DEF Count
  <2> QED BY <2>2, LimitNumbers, BusyIs DEF FailBound
<1> QED BY <1>4, <1>5, <1>6, <1>7 DEF LimitInv

-----------------------------------------------------------------------------
(* RateLimit: the steps of a request                                       *)

AtWeb == {"auth", "web_fail"}
AtTls == {"login_auth", "login_fail"}

\* What is known before a step of a request, and after it of what it leaves alone.
LEMMA RequestStep ==
  ASSUME LimitInv, NEW t \in Threads, NEW pc \in Limits!Pcs, Limits!Goto(t, pc), UNCHANGED loginNow
  PROVE  /\ LoginsOK(login', loginNow') /\ loginNow' \in Nat /\ loginNow \in Nat /\ logins \in Nat
         /\ ListOK(hits) /\ ListOK(acctFails) /\ ListOK(loginFails) /\ ListOK(admitted)
         /\ UNCHANGED hits => ListOK(hits)'
         /\ UNCHANGED acctFails => ListOK(acctFails)'
         /\ UNCHANGED loginFails => ListOK(loginFails)'
         /\ UNCHANGED admitted => ListOK(admitted)'
         /\ lockUntil \in 0 .. loginNow' + AcctLockout
         /\ UNCHANGED <<hits, admitted>> => HitsInv'
         /\ UNCHANGED loginFails /\ (pc \in AtTls => login[t].pc \in AtTls) => FailBound'
         /\ UNCHANGED <<acctFails, lockUntil>> /\ (pc \in AtWeb => login[t].pc \in AtWeb) => LockBound'
<1>a. LimitTypes /\ HitsInv /\ FailBound /\ LockBound
  BY DEF LimitInv
<1>1. LoginsOK(login', loginNow')
  BY <1>a, GotoIs DEF LimitTypes
<1>2. ASSUME NEW pcs, pc \in pcs => login[t].pc \in pcs
      PROVE  Count(pcs)' <= Count(pcs) /\ Count(pcs)' \in Int /\ Count(pcs) \in Int
  <2>1. Count(pcs)' \in {Count(pcs), Count(pcs) - 1} /\ Count(pcs) \in Nat
    BY <1>2, <1>a, BusyMoves, BusyIs DEF LimitTypes
  <2> QED BY <2>1
<1>3. ASSUME UNCHANGED <<hits, admitted>> PROVE HitsInv'
  BY <1>3, <1>a DEF HitsInv, Within
<1>4. ASSUME UNCHANGED loginFails, pc \in AtTls => login[t].pc \in AtTls PROVE FailBound'
  <2>1. InWindow' = InWindow
    BY <1>4 DEF InWindow
  <2>2. Cardinality(InWindow) \in Nat
    BY <1>a, Fewer DEF LimitTypes, InWindow, ListOK
  <2>3. Count(AtTls)' <= Count(AtTls) /\ Count(AtTls)' \in Int /\ Count(AtTls) \in Int
    BY <1>4, <1>2
  <2> QED BY <1>a, <2>1, <2>2, <2>3, BusyIs, LimitNumbers DEF FailBound, AtTls
<1>5. ASSUME UNCHANGED <<acctFails, lockUntil>>, pc \in AtWeb => login[t].pc \in AtWeb PROVE LockBound'
  <2>1. Count(AtWeb)' <= Count(AtWeb) /\ Count(AtWeb)' \in Int /\ Count(AtWeb) \in Int
    BY <1>5, <1>2
  <2>2. Cardinality(acctFails) \in Nat
    BY <1>a, Fewer DEF LimitTypes, ListOK
  <2> QED BY <1>a, <1>5, <2>1, <2>2, BusyIs DEF LockBound, AtWeb
<1> QED BY <1>a, <1>1, <1>3, <1>4, <1>5 DEF LimitTypes, ListOK

\* The time that a request has read is not after now, and not long before.
LEMMA ClockIs ==
  ASSUME LimitInv, NEW t \in Threads, NEW pc, Limits!Locked(t, pc)
  PROVE  /\ login[t].pc = pc /\ login[t].clock \in 0 .. loginNow
         /\ loginNow - login[t].clock <= MaxDelay /\ loginNow \in Nat
BY DEF LimitInv, LimitTypes, LoginsOK, Limits!Locked, Limits!NoTime

LEMMA LimitArrives == ASSUME LimitInv, NEW t \in Threads, NEW pc, Limits!Arrive(t, pc) PROVE LimitInv'
<1>1. /\ pc \in {"hit", "check"} /\ Limits!Goto(t, pc) /\ logins' = logins + 1
      /\ UNCHANGED <<hits, acctFails, lockUntil, loginFails, admitted, loginNow>>
  BY DEF Limits!Arrive, Limits!Lists
<1>2. pc \in Limits!Pcs /\ pc \notin AtTls /\ pc \notin AtWeb
  BY <1>1 DEF Limits!Pcs, Limits!Timed, AtTls, AtWeb
<1> QED BY <1>1, <1>2, RequestStep DEF LimitInv, LimitTypes

LEMMA LimitReadsClock == ASSUME LimitInv, NEW t \in Threads, Limits!ReadClock(t) PROVE LimitInv'
<1>1. /\ login' = [login EXCEPT ![t].clock = loginNow]
      /\ UNCHANGED <<hits, acctFails, lockUntil, loginFails, admitted, loginNow, logins>>
  BY DEF Limits!ReadClock, Limits!Lists
<1>a. LimitTypes /\ HitsInv /\ FailBound /\ LockBound
  BY DEF LimitInv
<1>2. \A u \in Threads : login'[u].pc = login[u].pc /\ login'[u].clock \in {login[u].clock, loginNow}
  BY <1>1, <1>a DEF LimitTypes, LoginsOK
<1>3. LoginsOK(login', loginNow')
  <2>1. login' \in [Threads -> [pc : Limits!Pcs, clock : -1 .. loginNow]]
    BY <1>1, <1>a DEF LimitTypes, LoginsOK
  <2>2. \A u \in Threads : login'[u].clock # -1 => loginNow - login'[u].clock <= MaxDelay
    BY <1>2, <1>a, LimitNumbers DEF LimitTypes, LoginsOK
  <2> QED BY <1>1, <2>1, <2>2 DEF LoginsOK
<1>4. ASSUME NEW pcs PROVE Count(pcs)' = Count(pcs)
  <2>1. Busy(pcs)' = Busy(pcs)
    BY <1>2 DEF Busy
  <2> QED BY <2>1 DEF Count
<1>5. LimitTypes'
  BY <1>1, <1>3, <1>a DEF LimitTypes, ListOK
<1>6. HitsInv'
  BY <1>1, <1>a DEF HitsInv, Within
<1>7. FailBound' /\ LockBound'
  <2>1. InWindow' = InWindow
    BY <1>1 DEF InWindow
  <2> QED BY <1>1, <1>4, <1>a, <2>1 DEF FailBound, LockBound
<1> QED BY <1>5, <1>6, <1>7 DEF LimitInv

LEMMA LimitAuthenticates ==
  ASSUME LimitInv, NEW t \in Threads,
         Limits!Authenticate(t, "auth", "web_fail", "web_clear")
           \/ Limits!Authenticate(t, "login_auth", "login_fail", "login_clear")
  PROVE  LimitInv'
<1>1. UNCHANGED <<hits, acctFails, lockUntil, loginFails, admitted, loginNow, logins>>
  BY DEF Limits!Authenticate, Limits!Lists
<1>2. PICK to \in {"web_fail", "web_clear", "login_fail", "login_clear"} :
        /\ Limits!Goto(t, to)
        /\ (to \in AtTls => login[t].pc \in AtTls) /\ (to \in AtWeb => login[t].pc \in AtWeb)
  BY DEF Limits!Authenticate, AtTls, AtWeb
<1>3. to \in Limits!Pcs
  BY DEF Limits!Pcs, Limits!Timed
<1> QED BY <1>1, <1>2, <1>3, RequestStep DEF LimitInv, LimitTypes

\* Whoever comes within a window of a request's clock, less the delay, is still a hit
\* when the request has the lock.
LEMMA LimitIpHit == ASSUME LimitInv, NEW t \in Threads, Limits!IpHit(t) PROVE LimitInv'
<1> DEFINE clock == login[t].clock
           recent == Limits!Recent(hits, IpWindow, clock)
           hit == Limits!Entry(admitted, clock)
<1>1. Limits!Locked(t, "hit") /\ UNCHANGED <<acctFails, lockUntil, loginFails, loginNow, logins>>
  BY DEF Limits!IpHit
<1>2. PICK pc \in {"idle", "lock"} : Limits!Goto(t, pc)
  BY DEF Limits!IpHit
<1>3. pc \in Limits!Pcs /\ pc \notin AtTls /\ pc \notin AtWeb
  BY DEF Limits!Pcs, Limits!Timed, AtTls, AtWeb
<1>4. /\ LoginsOK(login', loginNow') /\ loginNow \in Nat /\ logins \in Nat /\ ListOK(hits) /\ ListOK(admitted)
      /\ ListOK(acctFails)' /\ ListOK(loginFails)' /\ lockUntil \in 0 .. loginNow' + AcctLockout
      /\ FailBound' /\ LockBound'
  BY <1>1, <1>2, <1>3, RequestStep
<1>5. IpWindow \in Nat \ {0} /\ IpMax \in Nat \ {0} /\ MaxDelay \in Nat
  BY LimitNumbers
<1>6. clock \in 0 .. loginNow /\ loginNow - clock <= MaxDelay
  BY <1>1, ClockIs
<1>7. hit \in Times(loginNow) /\ hit.time = clock
  BY <1>4, <1>6, EntryIs DEF ListOK
<1>8. recent \subseteq hits /\ \A a \in hits : a \in recent \/ a.time + IpWindow <= clock
  <2>1. \A a \in hits : a.time \in Nat
    BY <1>4 DEF ListOK, Times
  <2> QED BY <1>5, <1>6, <2>1 DEF Limits!Recent
<1>9. HitsInv
  BY DEF LimitInv
<1>10. \A a \in admitted : a.time \in 0 .. loginNow
  BY <1>4 DEF ListOK, Times
<1> HIDE DEF hit, recent, clock
<1>11. \A a \in admitted \ recent : a.time + IpWindow <= loginNow
  <2>1. \A a \in admitted \ hits : a.time + IpWindow <= loginNow
    BY <1>9 DEF HitsInv
  <2>2. \A a \in hits \ recent : a.time + IpWindow <= loginNow
    BY <1>4, <1>5, <1>6, <1>8, <1>9, <1>10 DEF HitsInv
  <2> QED BY <2>1, <2>2
<1>12. IsFiniteSet(recent) /\ Cardinality(recent) \in Nat /\ recent \subseteq admitted
  BY <1>4, <1>8, <1>9, Fewer DEF ListOK, HitsInv
<1>13. CASE Limits!Full(recent, IpMax)
  <2>1. hits' = recent /\ admitted' = admitted
    BY <1>13 DEF Limits!IpHit, recent, clock
  <2>2. HitsInv'
    BY <1>1, <1>9, <1>11, <1>12, <2>1 DEF HitsInv, Within
  <2>3. ListOK(hits)' /\ ListOK(admitted)'
    BY <1>1, <1>4, <1>12, <2>1 DEF ListOK
  <2> QED BY <1>1, <1>4, <2>2, <2>3 DEF LimitInv, LimitTypes
<1>14. CASE ~Limits!Full(recent, IpMax)
  <2>1. hits' = recent \cup {hit} /\ admitted' = admitted \cup {hit}
    BY <1>14 DEF Limits!IpHit, recent, clock, hit
  <2>2. Cardinality(recent) < IpMax
    BY <1>5, <1>12, <1>14, SameCount DEF Limits!Full
  <2>3. ListOK(hits)' /\ ListOK(admitted)'
    <3>1. hits' \subseteq Times(loginNow) /\ admitted' \subseteq Times(loginNow)
      BY <1>4, <1>7, <1>12, <2>1 DEF ListOK
    <3>2. IsFiniteSet(hits') /\ IsFiniteSet(admitted')
      BY <1>4, <1>12, <2>1, OneMore DEF ListOK
    <3> QED BY <1>1, <3>1, <3>2 DEF ListOK
  <2>4. \A a \in admitted' \ hits' : a.time + IpWindow <= loginNow
    BY <1>11, <2>1
  <2>5. ASSUME NEW from \in Nat PROVE Cardinality(Within(from)') <= IpMax
    <3>1. Within(from)' \subseteq Within(from) \cup {hit}
      BY <2>1 DEF Within
    <3>2. CASE from <= clock /\ clock + MaxDelay < from + IpWindow
      <4>1. ASSUME NEW a \in Within(from) PROVE a \in recent
        <5>1. a \in admitted /\ a.time \in 0 .. loginNow /\ from <= a.time
          BY <1>10 DEF Within
        <5>2. ~(a.time + IpWindow <= loginNow)
          BY <1>4, <1>5, <1>6, <3>2, <5>1
        <5> QED BY <1>11, <5>1, <5>2
      <4>2. Within(from)' \subseteq recent \cup {hit}
        BY <3>1, <4>1
      <4>3. Cardinality(Within(from)') <= Cardinality(recent) + 1 /\ Cardinality(Within(from)') \in Nat
        BY <1>12, <4>2, OneMore
      <4> QED BY <1>5, <1>12, <2>2, <4>3
    <3>3. CASE ~(from <= clock /\ clock + MaxDelay < from + IpWindow)
      <4>1. Within(from)' = Within(from)
        BY <1>7, <2>1, <3>3 DEF Within
      <4> QED BY <1>9, <4>1 DEF HitsInv
    <3> QED BY <3>2, <3>3
  <2>6. HitsInv'
    BY <1>1, <1>12, <2>1, <2>4, <2>5 DEF HitsInv
  <2> QED BY <1>1, <1>4, <2>3, <2>6 DEF LimitInv, LimitTypes
<1> QED BY <1>13, <1>14

LEMMA LimitAccountLocked == ASSUME LimitInv, NEW t \in Threads, Limits!AccountLocked(t) PROVE LimitInv'
<1>1. UNCHANGED <<hits, loginFails, admitted, loginNow, logins>>
  BY DEF Limits!AccountLocked
<1>2. CASE Limits!Goto(t, "idle") /\ UNCHANGED <<acctFails, lockUntil>>
  <2>1. "idle" \in Limits!Pcs /\ "idle" \notin AtTls /\ "idle" \notin AtWeb
    BY DEF Limits!Pcs, AtTls, AtWeb
  <2> QED BY <1>1, <1>2, <2>1, RequestStep DEF LimitInv, LimitTypes
<1>3. CASE Limits!Goto(t, "auth") /\ lockUntil' = 0 /\ acctFails' \in {{}, acctFails}
  <2>1. "auth" \in Limits!Pcs /\ "auth" \notin AtTls
    BY DEF Limits!Pcs, AtTls
  <2>2. /\ LoginsOK(login', loginNow') /\ loginNow \in Nat /\ logins \in Nat /\ ListOK(acctFails)
        /\ ListOK(hits)' /\ ListOK(loginFails)' /\ ListOK(admitted)' /\ HitsInv' /\ FailBound'
    BY <1>1, <1>3, <2>1, RequestStep
  <2>3. ListOK(acctFails)'
    BY <1>1, <1>3, <2>2, FS_EmptySet DEF ListOK
  <2>4. LockBound' /\ lockUntil' \in 0 .. loginNow' + AcctLockout
    BY <1>1, <1>3, <2>2, LimitNumbers DEF LockBound
  <2> QED BY <1>1, <2>2, <2>3, <2>4 DEF LimitInv, LimitTypes
<1> QED BY <1>2, <1>3 DEF Limits!AccountLocked

LEMMA LimitRecordsAccountFailure ==
  ASSUME LimitInv, NEW t \in Threads, Limits!RecordAccountFailure(t) PROVE LimitInv'
<1> DEFINE clock == login[t].clock
           recent == Limits!Recent(acctFails, AcctLockout, clock)
           failure == Limits!Entry(recent, clock)
           fails == recent \cup {failure}
<1>1. Limits!Locked(t, "web_fail") /\ Limits!Goto(t, "idle") /\ UNCHANGED <<hits, loginFails, admitted, loginNow, logins>>
  BY DEF Limits!RecordAccountFailure
<1>2. clock \in 0 .. loginNow /\ login[t].pc = "web_fail"
  BY <1>1, ClockIs
<1>3. "idle" \in Limits!Pcs /\ "idle" \notin AtTls /\ "idle" \notin AtWeb /\ login[t].pc \in AtWeb
  BY <1>2 DEF Limits!Pcs, AtTls, AtWeb
<1>4. /\ LoginsOK(login', loginNow') /\ loginNow \in Nat /\ logins \in Nat /\ ListOK(acctFails)
      /\ ListOK(hits)' /\ ListOK(loginFails)' /\ ListOK(admitted)' /\ HitsInv' /\ FailBound'
      /\ lockUntil \in 0 .. loginNow' + AcctLockout
  BY <1>1, <1>3, RequestStep
<1>5. /\ Count(AtWeb)' = Count(AtWeb) - 1 /\ Count(AtWeb)' <= Cardinality(Threads) - 1
      /\ Count(AtWeb) \in Nat /\ Cardinality(Threads) \in Nat
  BY <1>1, <1>3, BusyMoves, BusyIs DEF LimitInv, LimitTypes
<1>6. recent \subseteq acctFails /\ IsFiniteSet(recent)
  <2>1. recent \subseteq acctFails
    BY DEF Limits!Recent
  <2> QED BY <1>4, <2>1, Fewer DEF ListOK
<1>7. failure \in Times(loginNow)
  BY <1>2, <1>4, <1>6, EntryIs
<1>8. \/ lockUntil' = clock + AcctLockout /\ acctFails' = {}
      \/ lockUntil' = lockUntil /\ acctFails' = fails
  BY DEF Limits!RecordAccountFailure
<1> HIDE DEF clock, recent, failure
<1>9. /\ fails \subseteq Times(loginNow) /\ IsFiniteSet(fails) /\ Cardinality(fails) \in Nat
      /\ Cardinality(fails) <= Cardinality(acctFails) + 1 /\ Cardinality(acctFails) \in Nat
  BY <1>4, <1>6, <1>7, OneMore DEF ListOK
<1> HIDE DEF fails
<1>10. CASE lockUntil' = clock + AcctLockout /\ acctFails' = {}
  <2>1. Cardinality(acctFails') = 0 /\ ListOK(acctFails)'
    BY <1>10, FS_EmptySet DEF ListOK
  <2>2. LockBound'
    BY <1>5, <2>1 DEF LockBound, AtWeb
  <2>3. lockUntil' \in 0 .. loginNow' + AcctLockout
    BY <1>1, <1>2, <1>4, <1>10, LimitNumbers
  <2> QED BY <1>1, <1>4, <2>1, <2>2, <2>3 DEF LimitInv, LimitTypes
<1>11. CASE lockUntil' = lockUntil /\ acctFails' = fails
  <2>1. ListOK(acctFails)'
    BY <1>1, <1>9, <1>11 DEF ListOK
  <2>2. LockBound'
    BY <1>1, <1>5, <1>9, <1>11 DEF LimitInv, LockBound, AtWeb
  <2> QED BY <1>1, <1>4, <1>11, <2>1, <2>2 DEF LimitInv, LimitTypes
<1> QED BY <1>8, <1>10, <1>11

LEMMA LimitClearsAccountFailures ==
  ASSUME LimitInv, NEW t \in Threads, Limits!ClearAccountFailures(t) PROVE LimitInv'
<1>1. /\ acctFails' = {} /\ lockUntil' = 0 /\ Limits!Goto(t, "check")
      /\ UNCHANGED <<hits, loginFails, admitted, loginNow, logins>>
  BY DEF Limits!ClearAccountFailures
<1>2. "check" \in Limits!Pcs /\ "check" \notin AtTls
  BY DEF Limits!Pcs, Limits!Timed, AtTls
<1>3. /\ LoginsOK(login', loginNow') /\ loginNow \in Nat /\ logins \in Nat
      /\ ListOK(hits)' /\ ListOK(loginFails)' /\ ListOK(admitted)' /\ HitsInv' /\ FailBound'
  BY <1>1, <1>2, RequestStep
<1>4. ListOK(acctFails)'
  BY <1>1, FS_EmptySet DEF ListOK
<1>5. LockBound' /\ lockUntil' \in 0 .. loginNow' + AcctLockout
  BY <1>1, <1>3, LimitNumbers DEF LockBound
<1> QED BY <1>1, <1>3, <1>4, <1>5 DEF LimitInv, LimitTypes

LEMMA LimitChecksRate == ASSUME LimitInv, NEW t \in Threads, Limits!CheckRateLimit(t) PROVE LimitInv'
<1> DEFINE clock == login[t].clock
           list == Limits!Recent(loginFails, LoginWindow, clock)
<1>1. /\ Limits!Locked(t, "check") /\ loginFails' = list
      /\ UNCHANGED <<hits, acctFails, lockUntil, admitted, loginNow, logins>>
  BY DEF Limits!CheckRateLimit
<1>2. PICK pc \in {"idle", "login_auth"} :
        Limits!Goto(t, pc) /\ (pc = "login_auth" => ~Limits!Full(list, LoginMaxFails))
  BY <1>1 DEF Limits!CheckRateLimit
<1>3. pc \in Limits!Pcs /\ pc \notin AtWeb
  BY DEF Limits!Pcs, AtWeb
<1>4. /\ LoginsOK(login', loginNow') /\ loginNow \in Nat /\ logins \in Nat /\ ListOK(loginFails)
      /\ ListOK(hits)' /\ ListOK(acctFails)' /\ ListOK(admitted)' /\ HitsInv' /\ LockBound'
      /\ lockUntil \in 0 .. loginNow' + AcctLockout
  BY <1>1, <1>2, <1>3, RequestStep
<1>5. LoginWindow \in Nat \ {0} /\ LoginMaxFails \in Nat \ {0}
  BY LimitNumbers
<1>6. login[t].pc = "check" /\ clock \in 0 .. loginNow
  BY <1>1, ClockIs
<1>7. list \subseteq loginFails /\ InWindow' \subseteq InWindow
  BY <1>1 DEF Limits!Recent, InWindow
<1>8. /\ ListOK(loginFails)' /\ Cardinality(list) \in Nat
      /\ Cardinality(InWindow') \in Nat /\ Cardinality(InWindow) \in Nat
      /\ Cardinality(InWindow') <= Cardinality(InWindow) /\ Cardinality(InWindow') <= Cardinality(list)
  <2>1. IsFiniteSet(list) /\ Cardinality(list) \in Nat /\ list \subseteq Times(loginNow)
    BY <1>4, <1>7, Fewer DEF ListOK
  <2>2. InWindow \subseteq loginFails /\ InWindow' \subseteq list
    BY <1>1 DEF InWindow
  <2>3. IsFiniteSet(InWindow)
    BY <1>4, <2>2, Fewer DEF ListOK
  <2> HIDE DEF list
  <2>4. ListOK(loginFails)'
    BY <1>1, <2>1 DEF ListOK
  <2> QED BY <1>7, <2>1, <2>2, <2>3, <2>4, Fewer
<1>9. /\ Count(AtTls)' <= Cardinality(Threads) /\ Count(AtTls)' \in Nat /\ Cardinality(Threads) \in Nat
      /\ pc = "idle" => Count(AtTls)' = Count(AtTls)
      /\ Count(AtTls) \in Nat
  <2>1. Count(AtTls)' <= Cardinality(Threads) /\ Count(AtTls)' \in Nat
    BY <1>2, <1>3, BusyMoves DEF LimitInv, LimitTypes
  <2>2. login[t].pc \notin AtTls /\ "idle" \notin AtTls
    BY <1>6 DEF AtTls
  <2> QED BY <1>2, <1>3, <2>1, <2>2, BusyIs, BusyMoves DEF LimitInv, LimitTypes
<1> HIDE DEF list, clock
<1>10. FailBound'
  <2>1. Cardinality(InWindow) + Count(AtTls) <= LoginMaxFails + Cardinality(Threads) - 1
    BY DEF LimitInv, FailBound, AtTls
  <2>2. CASE pc = "idle"
    BY <1>5, <1>8, <1>9, <2>1, <2>2 DEF FailBound, AtTls
  <2>3. CASE pc = "login_auth"
    <3>1. Cardinality(list) < LoginMaxFails
      BY <1>2, <1>5, <1>8, <2>3, SameCount DEF Limits!Full
    <3> QED BY <1>5, <1>8, <1>9, <3>1 DEF FailBound, AtTls
  <2> QED BY <2>2, <2>3
<1> QED BY <1>1, <1>4, <1>8, <1>10 DEF LimitInv, LimitTypes

LEMMA LimitRecordsLoginFailure ==
  ASSUME LimitInv, NEW t \in Threads, Limits!RecordLoginFailure(t) PROVE LimitInv'
<1> DEFINE failure == Limits!Entry(loginFails, login[t].clock)
<1>1. /\ Limits!Locked(t, "login_fail") /\ loginFails' = loginFails \cup {failure} /\ Limits!Goto(t, "idle")
      /\ UNCHANGED <<hits, acctFails, lockUntil, admitted, loginNow, logins>>
  BY DEF Limits!RecordLoginFailure
<1>2. login[t].pc = "login_fail" /\ login[t].clock \in 0 .. loginNow
  BY <1>1, ClockIs
<1>3. "idle" \in Limits!Pcs /\ "idle" \notin AtTls /\ "idle" \notin AtWeb /\ login[t].pc \in AtTls
  BY <1>2 DEF Limits!Pcs, AtTls, AtWeb
<1>4. /\ LoginsOK(login', loginNow') /\ loginNow \in Nat /\ logins \in Nat /\ ListOK(loginFails)
      /\ ListOK(hits)' /\ ListOK(acctFails)' /\ ListOK(admitted)' /\ HitsInv' /\ LockBound'
      /\ lockUntil \in 0 .. loginNow' + AcctLockout
  BY <1>1, <1>3, RequestStep
<1>5. failure \in Times(loginNow)
  BY <1>2, <1>4, EntryIs DEF ListOK
<1> HIDE DEF failure
<1>6. ListOK(loginFails)'
  <2>1. IsFiniteSet(loginFails \cup {failure})
    BY <1>4, OneMore DEF ListOK
  <2> QED BY <1>1, <1>4, <1>5, <2>1 DEF ListOK
<1>7. /\ Cardinality(InWindow') <= Cardinality(InWindow) + 1
      /\ Cardinality(InWindow') \in Nat /\ Cardinality(InWindow) \in Nat
  <2>1. InWindow' \subseteq InWindow \cup {failure} /\ InWindow \subseteq loginFails
    BY <1>1 DEF InWindow
  <2>2. IsFiniteSet(InWindow)
    BY <1>4, <2>1, Fewer DEF ListOK
  <2> QED BY <2>1, <2>2, OneMore
<1>8. /\ Count(AtTls)' = Count(AtTls) - 1 /\ Count(AtTls) \in Nat /\ Cardinality(Threads) \in Nat
  BY <1>1, <1>3, BusyMoves, BusyIs DEF LimitInv, LimitTypes
<1>9. FailBound'
  BY <1>7, <1>8, LimitNumbers DEF LimitInv, FailBound, AtTls
<1> QED BY <1>1, <1>4, <1>6, <1>9 DEF LimitInv, LimitTypes

LEMMA LimitClearsLoginFailures ==
  ASSUME LimitInv, NEW t \in Threads, Limits!ClearLoginFailures(t) PROVE LimitInv'
<1>1. /\ loginFails' = {} /\ Limits!Goto(t, "idle")
      /\ UNCHANGED <<hits, acctFails, lockUntil, admitted, loginNow, logins>>
  BY DEF Limits!ClearLoginFailures
<1>2. "idle" \in Limits!Pcs /\ "idle" \notin AtTls /\ "idle" \notin AtWeb
  BY DEF Limits!Pcs, AtTls, AtWeb
<1>3. /\ LoginsOK(login', loginNow') /\ loginNow \in Nat /\ logins \in Nat
      /\ ListOK(hits)' /\ ListOK(acctFails)' /\ ListOK(admitted)' /\ HitsInv' /\ LockBound'
      /\ lockUntil \in 0 .. loginNow' + AcctLockout
  BY <1>1, <1>2, RequestStep
<1>4. Count(AtTls)' <= Cardinality(Threads) - 1 /\ Count(AtTls)' \in Nat /\ Cardinality(Threads) \in Nat
  BY <1>1, <1>2, BusyMoves, BusyIs DEF LimitInv, LimitTypes
<1>5. Cardinality(InWindow') = 0 /\ ListOK(loginFails)'
  <2>1. InWindow' = {}
    BY <1>1 DEF InWindow
  <2> QED BY <1>1, <2>1, FS_EmptySet DEF ListOK
<1>6. FailBound'
  BY <1>4, <1>5, LimitNumbers DEF FailBound, AtTls
<1> QED BY <1>1, <1>3, <1>5, <1>6 DEF LimitInv, LimitTypes

LEMMA LimitTicks == ASSUME LimitInv, Limits!Tick PROVE LimitInv'
<1>a. LimitTypes /\ HitsInv /\ FailBound /\ LockBound
  BY DEF LimitInv
<1>1. /\ loginNow' = loginNow + 1
      /\ UNCHANGED <<hits, acctFails, lockUntil, loginFails, admitted, login, logins>>
      /\ \A t \in Threads : login[t].clock # -1 => loginNow' - login[t].clock <= MaxDelay
      /\ loginNow \in Nat
  BY <1>a DEF Limits!Tick, Limits!Lists, Limits!NoTime, LimitTypes
<1>2. LimitTypes'
  <2>1. Times(loginNow) \subseteq Times(loginNow')
    <3>1. 0 .. loginNow \subseteq 0 .. loginNow'
      BY <1>1
    <3> QED BY <3>1 DEF Times
  <2>2. LoginsOK(login', loginNow')
    <3>1. -1 .. loginNow \subseteq -1 .. loginNow'
      BY <1>1
    <3> QED BY <1>1, <1>a, <3>1 DEF LimitTypes, LoginsOK
  <2>3. lockUntil' \in 0 .. loginNow' + AcctLockout
    BY <1>1, <1>a, LimitNumbers DEF LimitTypes
  <2> QED BY <1>1, <1>a, <2>1, <2>2, <2>3 DEF LimitTypes, ListOK
<1>3. HitsInv'
  <2>1. ASSUME NEW a \in admitted \ hits PROVE a.time + IpWindow <= loginNow'
    BY <1>1, <1>a, LimitNumbers DEF HitsInv, LimitTypes, ListOK, Times
  <2>2. \A from \in Nat : Within(from)' = Within(from)
    BY <1>1 DEF Within
  <2> QED BY <1>1, <1>a, <2>1, <2>2 DEF HitsInv
<1>4. ASSUME NEW pcs PROVE Count(pcs)' = Count(pcs)
  BY <1>1 DEF Count, Busy
<1>5. LockBound'
  BY <1>1, <1>4, <1>a DEF LimitTypes, LockBound
<1>6. FailBound'
  <2>1. \A e \in loginFails : e.time \in Nat
    BY <1>a DEF LimitTypes, ListOK, Times
  <2>2. InWindow' \subseteq InWindow
    BY <1>1, <2>1, LimitNumbers DEF InWindow
  <2>3. IsFiniteSet(InWindow)
    BY <1>a, Fewer DEF LimitTypes, ListOK, InWindow
  <2>4. Cardinality(InWindow') <= Cardinality(InWindow) /\ Cardinality(InWindow') \in Nat /\ Cardinality(InWindow) \in Nat
    BY <2>2, <2>3, Fewer
  <2> QED BY <1>4, <1>a, <2>4, BusyIs, LimitNumbers DEF FailBound
<1> QED BY <1>2, <1>3, <1>5, <1>6 DEF LimitInv

LEMMA LimitStutters == ASSUME LimitInv, UNCHANGED loginVars PROVE LimitInv'
<1>1. UNCHANGED <<hits, acctFails, lockUntil, loginFails, login, admitted, loginNow, logins>>
  BY DEF loginVars
<1>2. ASSUME NEW pcs PROVE Count(pcs)' = Count(pcs)
  BY <1>1 DEF Count, Busy
<1>3. LimitTypes'
  BY <1>1 DEF LimitInv, LimitTypes, ListOK
<1>4. HitsInv'
  BY <1>1 DEF LimitInv, HitsInv, Within
<1>5. FailBound' /\ LockBound'
  <2>1. InWindow' = InWindow
    BY <1>1 DEF InWindow
  <2> QED BY <1>1, <1>2, <2>1 DEF LimitInv, FailBound, LockBound
<1> QED BY <1>3, <1>4, <1>5 DEF LimitInv

LEMMA LimitKeeps == ASSUME LimitInv, [MCNext]_MCVars PROVE LimitInv'
BY LimitMoves, LimitStutters, LimitArrives, LimitReadsClock, LimitAuthenticates, LimitIpHit,
   LimitAccountLocked, LimitRecordsAccountFailure, LimitClearsAccountFailures, LimitChecksRate,
   LimitRecordsLoginFailure, LimitClearsLoginFailures, LimitTicks
   DEF Limits!Next

LEMMA LimitInvariant == MCSpec => []LimitInv
<1>1. MCInit => LimitInv
  BY LimitBegins DEF MCInit
<1> QED BY <1>1, LimitKeeps, PTL DEF MCSpec

\* Whatever number of requests runs in parallel, each with a clock that it has read up
\* to MaxDelay before it gets its lock, the web server lets no more than IpMax attempts
\* of an address in whose clocks are within IpWindow - MaxDelay, and the failures of an
\* address and of a locked account exceed their limit by no more than the other requests
\* that had passed the check (_ip_rate_limited, _check_rate_limit,
\* _record_account_failure).
THEOREM LimitsAreHeld == MCSpec => []LimitsHold
<1>1. ASSUME LimitInv PROVE LimitsHold
  <2>1. LimitTypes /\ HitsInv /\ FailBound /\ LockBound
    BY <1>1 DEF LimitInv
  <2>2. Limits!IpAttemptsBounded
    <3>1. \A from \in 0 .. loginNow : Cardinality(Within(from)) <= IpMax
      BY <2>1 DEF HitsInv, LimitTypes
    <3> QED BY <3>1, SameCount DEF Within, Limits!IpAttemptsBounded
  <2>3. Limits!InParallel = Cardinality(Threads) - 1 /\ Cardinality(Threads) \in Nat
    BY SameCount, BusyIs DEF Limits!InParallel
  <2>4. Cardinality(acctFails) \in Nat /\ Cardinality(InWindow) \in Nat
    BY <2>1, Fewer DEF LimitTypes, ListOK, InWindow
  <2>5. Limits!LoginFailuresBounded
    <3>1. Limits!Recent(loginFails, LoginWindow, loginNow) = InWindow
      BY DEF Limits!Recent, InWindow
    <3>2. Cardinality(InWindow) <= LoginMaxFails + Limits!InParallel
      BY <2>1, <2>3, <2>4, BusyIs, LimitNumbers DEF FailBound
    <3> QED BY <3>1, <3>2, SameCount DEF Limits!LoginFailuresBounded
  <2>6. Limits!LockHolds
    BY <2>1, <2>3, <2>4, BusyIs, SameCount DEF LockBound, Limits!LockHolds
  <2> QED BY <2>2, <2>5, <2>6 DEF LimitsHold
<1> QED BY <1>1, LimitInvariant, PTL

=============================================================================
