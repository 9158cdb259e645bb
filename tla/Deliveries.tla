----------------------------- MODULE Deliveries -----------------------------
(***************************************************************************)
(* Files that the administrator sends to a user (send-to).                 *)
(*                                                                         *)
(* A row of the table deliveries waits until the recipient's next request; *)
(* after the handler of that request the server collects what is pending,  *)
(* decrypts and masks it for the role of the session, marks the row, and   *)
(* lets the files ride on the response.  The client saves them in a folder *)
(* that all shells of its installation share, whoever works in them, under *)
(* a name that was free.  The shells of the model share one installation.  *)
(*                                                                         *)
(* A step is one statement of the database, one file operation, one        *)
(* response, or one operation of a client on its folder; the shells, the   *)
(* sender, changes of accounts and of files interleave.  The               *)
(* sender is the first Admin, whom nobody demotes (Sessions!RootProtected).*)
(***************************************************************************)
EXTENDS Naturals, Sequences, SequencesExt, FiniteSetsExt

CONSTANTS
  Shells,         \* shells of the recipients
  Names,          \* usernames
  Root,           \* the sender, the only one with manage_users
  Owner,          \* shell -> the username it logs in with
  Files,          \* files that have an inode at the start
  Roles,          \* rows of the table roles
  EligibleRoles,  \* _DELIVERY_ELIGIBLE_ROLES
  MaxDeliveries,  \* bound: rows of deliveries
  MaxBlobs,       \* bound: blobs written
  MaxChanges,     \* bound: changes of accounts
  MaxFaults       \* bound: exceptions, broken connections and restarts

NoRole == "no account"

ASSUME DeliveryAssumption ==
  /\ Root \in Names /\ Owner \in [Shells -> Names \ {Root}]
  /\ EligibleRoles \subseteq Roles /\ NoRole \notin Roles
  /\ IsFiniteSet(Shells) /\ IsFiniteSet(Files) /\ Files # {}
  /\ Cardinality(Files) <= MaxBlobs
  /\ {MaxDeliveries, MaxBlobs, MaxChanges, MaxFaults} \subseteq Nat /\ MaxDeliveries > 0

VARIABLES
  open,        \* the shells that are open
  role,        \* role of each account; NoRole where there is none
  session,     \* role in the record of the user's session; NoRole without one
  inode,       \* files that have a row of inodes
  meta,        \* file_meta.blob_name; 0 where there is no row
  blobs,       \* files in data_enc
  written,     \* blobs written so far
  deliveries,  \* the table, in the order of the ids
  sender,      \* the request of the sender
  shell,       \* the request of each shell, on the server and in the client
  downloads,   \* the folder: name -> what the file came from
  saved,       \* history: the deliveries each shell has saved
  dropped,     \* history: deliveries whose files a failure threw away
  changes, faults  \* counters the bounds limit

accounts == <<role, session, changes>>
vfs == <<inode, meta, blobs, written>>
client == <<downloads, saved>>
vars == <<open, accounts, vfs, deliveries, sender, shell, client, dropped, faults>>

Ids == 1 .. MaxDeliveries
Statuses == {"pending", "delivered", "skipped", "failed"}
Delivery == [to : Names, file : Files, unmasked : BOOLEAN, status : Statuses]

\* A file in a response or in the folder: plain, or masked for a role.
Copy == [id : Ids, plain : BOOLEAN, role : Roles]

ServerPcs == {"select", "inode", "meta", "open", "mark", "log", "fail", "reply"}
ClientPcs == {"ask", "name", "write"}

\* role is the session's when the request arrived, todo what the SELECT returned,
\* outcome the status to write, copy the file being prepared, results the files
\* of the response, counter the number in the name the client has chosen.
ShellState ==
  [pc : ServerPcs \cup ClientPcs, role : Roles \cup {NoRole}, todo : Seq(Ids), blob : Nat,
   outcome : Statuses, copy : Copy, results : Seq(Copy), counter : Nat]

AnyCopy == [id |-> 1, plain |-> FALSE, role |-> CHOOSE r \in Roles : TRUE]
Waiting == [pc |-> "ask", role |-> NoRole, todo |-> <<>>, blob |-> 0, outcome |-> "pending",
            copy |-> AnyCopy, results |-> <<>>, counter |-> 0]
NoSend == [pc |-> "idle", to |-> Root, file |-> CHOOSE f \in Files : TRUE]

\* What the tables, the folder and the local variables can hold; a request on the
\* server has a session's role, and no more files travel than there are rows.
TypeOK ==
  /\ open \subseteq Shells
  /\ role \in [Names -> Roles \cup {NoRole}] /\ session \in [Names -> Roles \cup {NoRole}]
  /\ inode \subseteq Files /\ meta \in [Files -> 0 .. written] /\ blobs \subseteq 1 .. written
  /\ deliveries \in Seq(Delivery) /\ Len(deliveries) <= MaxDeliveries
  /\ sender \in [pc : {"idle", "target", "resolve", "insert"}, to : Names, file : Files]
  /\ \A s \in Shells : /\ shell[s] \in ShellState
                       /\ shell[s].pc \in ServerPcs => shell[s].role \in Roles
                       /\ Len(shell[s].results) + Len(shell[s].todo) <= Len(deliveries)
  /\ \A n \in DOMAIN downloads : downloads[n] \in Copy
  /\ saved \in [Shells -> Seq(Ids)] /\ dropped \subseteq Ids

Init ==
  /\ open \in (SUBSET Shells) \ {{}}
  /\ role \in [Names -> Roles] /\ role[Root] = "Admin"
  /\ session = [n \in Names |-> NoRole]
  /\ inode = Files /\ written = Cardinality(Files) /\ blobs = 1 .. written
  \* a crash may have left a file without its row of file_meta (Vfs!InsertMeta)
  /\ \E full \in SUBSET Files, blob \in [Files -> 1 .. written] :
       /\ \A f, g \in Files : blob[f] = blob[g] => f = g
       /\ meta = [f \in Files |-> IF f \in full THEN blob[f] ELSE 0]
  /\ deliveries = <<>> /\ sender = NoSend
  /\ shell = [s \in Shells |-> Waiting]
  /\ downloads = <<>> /\ saved = [s \in Shells |-> <<>>] /\ dropped = {}
  /\ changes = 0 /\ faults = 0

Fault == faults < MaxFaults /\ faults' = faults + 1
NoFault == UNCHANGED faults

-----------------------------------------------------------------------------
(* The surroundings: accounts, sessions, files                             *)

Login(n) ==
  /\ role[n] # NoRole /\ session[n] = NoRole
  /\ session' = [session EXCEPT ![n] = role[n]]
  /\ UNCHANGED <<open, role, changes, vfs, deliveries, sender, shell, client, dropped, faults>>

\* remove_user, add_user and assign_role; the first and the last revoke the
\* sessions of the name.
ChangeAccount(n, r) ==
  /\ n # Root /\ r # role[n]
  /\ changes < MaxChanges /\ changes' = changes + 1
  /\ role' = [role EXCEPT ![n] = r] /\ session' = [session EXCEPT ![n] = NoRole]
  /\ UNCHANGED <<open, vfs, deliveries, sender, shell, client, dropped, faults>>

\* rm and an overwrite unlink the blob first.
UnlinkBlob(f) ==
  /\ meta[f] \in blobs /\ blobs' = blobs \ {meta[f]}
  /\ UNCHANGED <<open, accounts, inode, meta, written, deliveries, sender, shell, client, dropped, faults>>

\* An overwrite then makes the row name the new blob.
NameBlob(f) ==
  /\ meta[f] \notin blobs \cup {0} /\ written < MaxBlobs
  /\ written' = written + 1 /\ blobs' = blobs \cup {written'} /\ meta' = [meta EXCEPT ![f] = written']
  /\ UNCHANGED <<open, accounts, inode, deliveries, sender, shell, client, dropped, faults>>

\* rm deletes the rows, of one file or, leaving the blobs, of a whole directory;
\* ids of inodes are not used again.
DeleteRows(f) ==
  /\ f \in inode /\ inode' = inode \ {f} /\ meta' = [meta EXCEPT ![f] = 0]
  /\ UNCHANGED <<open, accounts, blobs, written, deliveries, sender, shell, client, dropped, faults>>

-----------------------------------------------------------------------------
(* Sending: _handle_send_to_user, a statement at a time                    *)

SendVars == <<open, accounts, vfs, shell, client, dropped, faults>>

SendRequest(n, f) ==
  /\ sender.pc = "idle" /\ n # Root /\ Len(deliveries) < MaxDeliveries
  /\ sender' = [pc |-> "target", to |-> n, file |-> f]
  /\ UNCHANGED <<SendVars, deliveries>>

CheckTarget ==
  /\ sender.pc = "target"
  /\ sender' = IF role[sender.to] \in EligibleRoles THEN [sender EXCEPT !.pc = "resolve"] ELSE NoSend
  /\ UNCHANGED <<SendVars, deliveries>>

ResolveFile ==
  /\ sender.pc = "resolve"
  /\ sender' = IF sender.file \in inode THEN [sender EXCEPT !.pc = "insert"] ELSE NoSend
  /\ UNCHANGED <<SendVars, deliveries>>

\* unmasked is a field of the request that nothing before has looked at.
CreateDelivery(unmasked) ==
  /\ sender.pc = "insert"
  /\ deliveries' = Append(deliveries, [to |-> sender.to, file |-> sender.file,
                                       unmasked |-> unmasked, status |-> "pending"])
  /\ sender' = NoSend
  /\ UNCHANGED SendVars

-----------------------------------------------------------------------------
(* Collecting: _dispatch and _collect_pending_deliveries                   *)

World == <<open, vfs, sender, client, changes>>

Become(s, st) == shell' = [shell EXCEPT ![s] = st]
Goto(s, pc) == Become(s, [shell[s] EXCEPT !.pc = pc])
Row(st) == deliveries[Head(st.todo)]

\* The next row of the list, or the response.
NextRow(st) == [st EXCEPT !.todo = Tail(@), !.pc = IF Len(st.todo) = 1 THEN "reply" ELSE "inode"]

\* Mutant: the dispatcher does not stop without a session.
Ask_Unchecked(s, command) ==
  /\ s \in open /\ shell[s].pc = "ask"
  /\ Become(s, [Waiting EXCEPT !.pc = "select", !.role = session[Owner[s]]])
  /\ session' = IF command = "logout" THEN [session EXCEPT ![Owner[s]] = NoRole] ELSE session
  /\ UNCHANGED <<World, role, deliveries, dropped, faults>>

\* The session record is fetched and the handler answers ok; logout deletes the
\* session, and the dispatcher goes on with the record it has.
Ask(s, command) ==
  /\ s \in open /\ shell[s].pc = "ask" /\ session[Owner[s]] # NoRole
  /\ Become(s, [Waiting EXCEPT !.pc = "select", !.role = session[Owner[s]]])
  /\ session' = IF command = "logout" THEN [session EXCEPT ![Owner[s]] = NoRole] ELSE session
  /\ UNCHANGED <<World, role, deliveries, dropped, faults>>

\* Mutant: what was delivered is taken again.
Pending_Again(n) ==
  {i \in DOMAIN deliveries : deliveries[i].to = n /\ deliveries[i].status # "skipped"}

\* Mutant: the SELECT joins with inodes.
Pending_Joined(n) ==
  {i \in DOMAIN deliveries : /\ deliveries[i].to = n /\ deliveries[i].status = "pending"
                             /\ deliveries[i].file \in inode}

\* get_pending_deliveries, by the name of the recipient ...
Pending(n) == {i \in DOMAIN deliveries : deliveries[i].to = n /\ deliveries[i].status = "pending"}

\* ... and oldest first.
OldestFirst(rows) == \A i, j \in 1 .. Len(rows) : i < j => rows[i] < rows[j]

SelectPending(s) ==
  /\ shell[s].pc = "select"
  /\ \E todo \in SeqOf(Ids, Len(deliveries)) :
       /\ ToSet(todo) = Pending(Owner[s]) /\ OldestFirst(todo)
       /\ Become(s, [shell[s] EXCEPT !.todo = todo, !.pc = IF todo = <<>> THEN "reply" ELSE "inode"])
  /\ NoFault /\ UNCHANGED <<World, role, session, deliveries, dropped>>

Local == <<World, role, session, deliveries, dropped, faults>>

GetInode(s) ==
  /\ shell[s].pc = "inode"
  /\ Become(s, IF Row(shell[s]).file \in inode THEN [shell[s] EXCEPT !.pc = "meta"]
               ELSE [shell[s] EXCEPT !.pc = "mark", !.outcome = "skipped"])
  /\ UNCHANGED Local

GetMeta(s) ==
  /\ shell[s].pc = "meta"
  /\ LET blob == meta[Row(shell[s]).file]
     IN Become(s, IF blob = 0 THEN [shell[s] EXCEPT !.pc = "fail"]
                  ELSE [shell[s] EXCEPT !.pc = "open", !.blob = blob])
  /\ UNCHANGED Local

\* The plaintext where the row says so and, through except, where mask_file raised.
Payload(st, masked) ==
  [id |-> Head(st.todo), plain |-> Row(st).unmasked \/ ~masked, role |-> st.role]

Prepare(st, masked) == [st EXCEPT !.pc = "mark", !.outcome = "delivered", !.copy = Payload(st, masked)]

\* Decrypting fails without the blob; masking may fail with any file.
DecryptAndMask(s) ==
  /\ shell[s].pc = "open"
  /\ \E masked \in BOOLEAN :
       Become(s, IF shell[s].blob \notin blobs THEN [shell[s] EXCEPT !.pc = "fail"]
                 ELSE Prepare(shell[s], masked))
  /\ UNCHANGED Local

SetStatus(st, status) == deliveries' = [deliveries EXCEPT ![Head(st.todo)].status = status]

\* update_delivery_status; an exception leads to the outer except.
MarkRow(s) ==
  /\ shell[s].pc = "mark"
  /\ \/ NoFault /\ SetStatus(shell[s], shell[s].outcome) /\ Goto(s, "log")
     \/ Fault /\ UNCHANGED deliveries /\ Goto(s, "fail")
  /\ UNCHANGED <<World, role, session, dropped>>

\* Mutant: only the last file of several is kept.
Collected_Last(st) == <<st.copy>>

\* A row that is delivered adds its file to the response.
Collected(st) == IF st.outcome = "delivered" THEN Append(st.results, st.copy) ELSE st.results

\* Writing the audit entry comes after the status and may raise.
LogOutcome(s) ==
  /\ shell[s].pc = "log"
  /\ \/ NoFault /\ Become(s, NextRow([shell[s] EXCEPT !.results = Collected(shell[s])]))
     \/ Fault /\ Goto(s, "fail")
  /\ UNCHANGED <<World, role, session, deliveries, dropped>>

Carried(st) == {st.results[i].id : i \in DOMAIN st.results}
AtHand(st) == IF st.pc \in {"mark", "log", "fail"} THEN {Head(st.todo)} ELSE {}

\* The outer except marks the row; when that, or the audit entry, raises as well,
\* the list is lost and the dispatcher sends the response without it.
MarkFailed(s) ==
  /\ shell[s].pc = "fail"
  /\ \/ NoFault /\ SetStatus(shell[s], "failed") /\ Become(s, NextRow(shell[s])) /\ UNCHANGED dropped
     \/ /\ Fault
        /\ SetStatus(shell[s], "failed") \/ UNCHANGED deliveries
        /\ dropped' = dropped \cup Carried(shell[s]) \cup AtHand(shell[s])
        /\ Become(s, [Waiting EXCEPT !.pc = "reply", !.role = shell[s].role])
  /\ UNCHANGED <<World, role, session>>

\* conn.sendall; a connection that breaks takes the response with it.
Reply(s) ==
  /\ shell[s].pc = "reply"
  /\ \/ /\ NoFault /\ UNCHANGED dropped
        /\ Become(s, IF shell[s].results = <<>> THEN Waiting
                     ELSE [Waiting EXCEPT !.pc = "name", !.results = shell[s].results])
     \/ Fault /\ dropped' = dropped \cup Carried(shell[s]) /\ Become(s, Waiting)
  /\ UNCHANGED <<World, role, session, deliveries>>

\* The process dies: sessions and requests are gone, the tables stay.
Restart ==
  /\ Fault
  /\ session' = [n \in Names |-> NoRole]
  /\ shell' = [s \in Shells |-> IF shell[s].pc \in ServerPcs THEN Waiting ELSE shell[s]]
  /\ sender' = NoSend
  /\ dropped' = dropped \cup UNION {Carried(shell[s]) \cup AtHand(shell[s]) :
                                      s \in {t \in Shells : shell[t].pc \in ServerPcs}}
  /\ UNCHANGED <<open, role, changes, vfs, deliveries, client>>

-----------------------------------------------------------------------------
(* Saving: _process_deliveries in the client                               *)

ClientVars == <<open, accounts, vfs, deliveries, sender>>

\* admin_delivery_<file>, or UNMASKED_ before the file, with a number when taken; the
\* name does not tell whose file it is.
NameOf(s, n) ==
  LET row == deliveries[Head(shell[s].results).id]
  IN <<row.file, row.unmasked, n>>

\* Mutant: the name is not looked up.
FreeNumber_Zero(s) == 0

\* while dest.exists(): a folder with k files has not more than k of the names.
FreeNumber(s) ==
  Min({n \in 0 .. Cardinality(DOMAIN downloads) : NameOf(s, n) \notin DOMAIN downloads})

ChooseName(s) ==
  /\ shell[s].pc = "name"
  /\ Become(s, [shell[s] EXCEPT !.pc = "write", !.counter = FreeNumber(s)])
  /\ UNCHANGED <<ClientVars, client, dropped, faults>>

\* dest.write_bytes; an error ends the loop, and the user goes on working.
WriteFile(s) ==
  /\ shell[s].pc = "write"
  /\ LET st == shell[s]
         dest == NameOf(s, st.counter)
     IN \/ /\ NoFault /\ UNCHANGED dropped
           /\ downloads' = [n \in DOMAIN downloads \cup {dest} |->
                              IF n = dest THEN Head(st.results) ELSE downloads[n]]
           /\ saved' = [saved EXCEPT ![s] = Append(@, Head(st.results).id)]
           /\ Become(s, IF Len(st.results) = 1 THEN Waiting
                        ELSE [st EXCEPT !.pc = "name", !.results = Tail(@)])
        \/ /\ Fault /\ dropped' = dropped \cup Carried(st)
           /\ Become(s, Waiting) /\ UNCHANGED client
  /\ UNCHANGED ClientVars

-----------------------------------------------------------------------------

Collect(s) ==
  \/ SelectPending(s) \/ GetInode(s) \/ GetMeta(s) \/ DecryptAndMask(s)
  \/ MarkRow(s) \/ LogOutcome(s) \/ MarkFailed(s) \/ Reply(s)

Save(s) == ChooseName(s) \/ WriteFile(s)

Send ==
  \/ \E n \in Names, f \in Files : SendRequest(n, f)
  \/ CheckTarget \/ ResolveFile
  \/ \E unmasked \in BOOLEAN : CreateDelivery(unmasked)

ChangeFiles == \E f \in Files : UnlinkBlob(f) \/ NameBlob(f) \/ DeleteRows(f)

Next ==
  \/ \E n \in Names : Login(n)
  \/ \E n \in Names, r \in Roles \cup {NoRole} : ChangeAccount(n, r)
  \/ ChangeFiles \/ Send \/ Restart
  \/ \E s \in Shells : Collect(s) \/ Save(s) \/ \E command \in {"logout", "other"} : Ask(s, command)

\* The server answers the requests it has, clients save what they get, and the
\* recipient, while there is an account, logs in and gives commands.
Fairness ==
  /\ \A s \in Shells : /\ WF_vars(Collect(s)) /\ WF_vars(Save(s))
                       /\ SF_vars(Ask(s, "other"))
  /\ \A n \in Names : WF_vars(Login(n))

Spec == Init /\ [][Next]_vars /\ Fairness

-----------------------------------------------------------------------------
(* Properties                                                              *)

\* A shell saves a file that was sent once at most once, whatever is asked again
\* after errors, broken connections and restarts: the row is marked before the
\* file leaves the server.
AtMostOnce == \A s \in Shells : IsInjective(saved[s] \o [i \in DOMAIN shell[s].results |-> shell[s].results[i].id])

\* A row that says delivered has been saved, is on its way, or was thrown away by a
\* failure that happened; nothing else loses a file that was sent.
DeliveredIsAccounted ==
  \A i \in DOMAIN deliveries : deliveries[i].status = "delivered" =>
    i \in dropped \cup UNION {ToSet(saved[s]) \cup Carried(shell[s]) \cup AtHand(shell[s]) : s \in Shells}

\* Every file that was sent is saved at most once and lost to a failure only.
DeliveredOnce == AtMostOnce /\ DeliveredIsAccounted

OneShell(n) == Cardinality({s \in open : Owner[s] = n}) = 1

\* The files saved while one shell works on the installation are all in the folder:
\* none was written over another.
KeptApart ==
  \A s \in open : open = {s} =>
    \A i \in ToSet(saved[s]) : \E n \in DOMAIN downloads : downloads[n].id = i

\* With one shell a row that has left pending changes only from delivered or
\* skipped to failed, and then its file is not in the response.
SettledStays ==
  [][\A i \in DOMAIN deliveries :
       LET old == deliveries[i].status
           new == deliveries'[i].status
       IN OneShell(deliveries[i].to) /\ old \notin {"pending", new} =>
            /\ new = "failed" /\ old # "failed"
            /\ \A s \in open : i \notin Carried(shell'[s]) \cup ToSet(saved'[s])]_vars

IsPending(i) == i \in DOMAIN deliveries /\ deliveries[i].status = "pending"

\* A file that was sent does not wait for ever for a recipient who works with it.
EventuallySettled ==
  \A i \in Ids : IsPending(i) ~> (IsPending(i) => role[deliveries[i].to] = NoRole)

\* COMMANDS.md: the file "is decrypted and masked using the recipient's role before
\* delivery", unless it was sent unmasked.  The except of the masking step sends
\* the plaintext instead.
MaskedUnlessAsked ==
  \A n \in DOMAIN downloads : downloads[n].plain => deliveries[downloads[n].id].unmasked

=============================================================================
