------------------------------ MODULE Startup -------------------------------
(***************************************************************************)
(* The start of the server: the master key and the database, of a new      *)
(* installation or of an older release, with a crash between any two       *)
(* steps (main, _load_or_create_master_key, EFSServer.__init__, init_db).  *)
(*                                                                         *)
(* Python's sqlite3 commits an ALTER TABLE at once as long as no           *)
(* transaction is open, and opens one at the first INSERT or UPDATE.       *)
(*                                                                         *)
(* While the server runs, the size of the directories follows the files    *)
(* (Vfs); here a file is a unit of bytes, and the key its blob is under.   *)
(***************************************************************************)
EXTENDS Naturals, Sequences, FiniteSets, SequencesExt

CONSTANTS
  RoleNames,  \* names of roles
  MaxStarts,  \* bound: starts
  MaxFiles    \* bound: files

StartupAssumption == MaxStarts \in Nat /\ MaxFiles \in Nat \ {0}

VARIABLES
  env,       \* EFS_MASTER_KEY, NoKey where it is not set
  keyFile,   \* master.key: NoKey where there is none, Torn where it has the wrong length
  tables,    \* how many of the tables exist
  columns,   \* the columns that migrations add
  roles,     \* names in the table of roles
  rolesFile, \* names in roles.json
  dirSize,   \* dir_size_bytes of the root
  bytes,     \* the sum of size_bytes
  server,    \* how far the process is: pc, key, migration, the transaction, the roles read
  blobs,     \* the keys that blobs are encrypted under
  cut,       \* history: a start ended between the new column for sizes and the commit
  starts

vars == <<env, keyFile, tables, columns, roles, rolesFile, dirSize, bytes, server,
          blobs, cut, starts>>

keyVars == <<env, keyFile>>
dbVars == <<tables, columns, roles, dirSize, bytes>>

NoKey == 0
Torn == 0 - 1
EnvKey == 1

\* The ALTERs in their order, and the ones whose column a new table has from the start.
Migrations == <<"chain_hash", "content_hash", "action", "role", "dir_size_bytes", "unmasked">>
TableNames == <<"roles", "users", "audit_log", "inodes", "file_meta", "acl", "deliveries">>
NewColumns == [t \in ToSet(TableNames) |->
                 CASE t = "audit_log" -> {"chain_hash"}
                   [] t = "file_meta" -> {"content_hash"}
                   [] t = "deliveries" -> {"unmasked"}
                   [] OTHER -> {}]

NoTransaction == [open |-> FALSE, columns |-> {}, dirSize |-> 0]
Off == [pc |-> "off", key |-> NoKey, migration |-> 1, tx |-> NoTransaction, read |-> {}]
Pcs == {"off", "create", "fill", "script", "migrate", "backfill", "roles", "root", "running"}

\* A key file is never half written but for a crash or damage, and nothing is in a
\* transaction before the backfill has begun.
TypeOK ==
  /\ env \in {NoKey, EnvKey} /\ keyFile \in {Torn} \cup 0 .. MaxStarts + 1
  /\ tables \in 0 .. Len(TableNames) /\ columns \subseteq ToSet(Migrations)
  /\ roles \subseteq RoleNames /\ rolesFile \subseteq RoleNames
  /\ dirSize \in 0 .. MaxFiles /\ bytes \in 0 .. MaxFiles
  /\ server.pc \in Pcs /\ server.read \subseteq RoleNames
  /\ server.tx.open => "dir_size_bytes" \in columns /\ server.pc \in {"migrate", "roles"}
  /\ server.pc \in Pcs \ {"off"} => server.key # NoKey
  /\ blobs \subseteq 1 .. MaxStarts + 1 /\ cut \in BOOLEAN /\ starts \in 0 .. MaxStarts

\* Nothing yet, or what a release with the first so many columns left: a key, a file,
\* and the deliveries or not.
Init ==
  /\ env \in {NoKey, EnvKey}
  /\ rolesFile = RoleNames /\ server = Off /\ cut = FALSE /\ starts = 0
  /\ \/ /\ keyFile = NoKey /\ tables = 0 /\ columns = {} /\ roles = {}
        /\ dirSize = 0 /\ bytes = 0 /\ blobs = {}
     \/ \E n \in 0 .. Len(Migrations) :
          /\ columns = ToSet(SubSeq(Migrations, 1, n))
          /\ tables = Len(TableNames) \/ (tables = Len(TableNames) - 1 /\ n < Len(Migrations))
          /\ roles = RoleNames /\ bytes = 1
          /\ dirSize = IF "dir_size_bytes" \in columns THEN bytes ELSE 0
          /\ keyFile = IF env = NoKey THEN EnvKey ELSE NoKey
          /\ blobs = {EnvKey}

To(pc) == [server EXCEPT !.pc = pc]

-----------------------------------------------------------------------------
(* _load_or_create_master_key                                              *)

\* Mutant: a file of the wrong length is taken for none.
Missing_Torn == keyFile \in {NoKey, Torn}

\* A file that exists is never written again.
Missing == keyFile = NoKey

\* From the environment, from the file, or drawn; a file of the wrong length ends the start.
LoadKey ==
  /\ server.pc = "off" /\ starts < MaxStarts /\ starts' = starts + 1
  /\ server' = IF env # NoKey THEN [To("script") EXCEPT !.key = env]
               ELSE IF Missing THEN [To("create") EXCEPT !.key = starts' + 1]
               ELSE IF keyFile = Torn THEN Off
               ELSE [To("script") EXCEPT !.key = keyFile]
  /\ UNCHANGED <<keyVars, dbVars, rolesFile, blobs, cut>>

\* write_bytes makes an empty file and fills it.  (chmod follows; modes are left out.)
SaveKey ==
  /\ \/ server.pc = "create" /\ server' = To("fill") /\ keyFile' = Torn
     \/ server.pc = "fill" /\ server' = To("script") /\ keyFile' = server.key
  /\ UNCHANGED <<env, dbVars, rolesFile, blobs, cut, starts>>

-----------------------------------------------------------------------------
(* init_db                                                                 *)

\* executescript: every CREATE TABLE IF NOT EXISTS is committed by itself.
CreateTable ==
  /\ server.pc = "script"
  /\ IF tables = Len(TableNames)
     THEN server' = To("migrate") /\ UNCHANGED <<tables, columns>>
     ELSE /\ tables' = tables + 1
          /\ columns' = columns \cup NewColumns[TableNames[tables']]
          /\ UNCHANGED server
  /\ UNCHANGED <<keyVars, roles, dirSize, bytes, rolesFile, blobs, cut, starts>>

\* The next ALTER: an error is taken for a column that exists.
Migrate ==
  /\ server.pc = "migrate"
  /\ IF server.migration > Len(Migrations)
     THEN server' = To("roles") /\ UNCHANGED columns
     ELSE LET column == Migrations[server.migration]
              next == [server EXCEPT !.migration = @ + 1]
          IN IF column \in columns THEN server' = next /\ UNCHANGED columns
             ELSE IF server.tx.open
             THEN server' = [next EXCEPT !.tx.columns = @ \cup {column}] /\ UNCHANGED columns
             ELSE /\ columns' = columns \cup {column}
                  /\ server' = IF column = "dir_size_bytes" THEN [next EXCEPT !.pc = "backfill"] ELSE next
  /\ UNCHANGED <<keyVars, tables, roles, dirSize, bytes, rolesFile, blobs, cut, starts>>

\* _backfill_dir_sizes: its UPDATE opens the transaction.
Backfill ==
  /\ server.pc = "backfill"
  /\ server' = [To("migrate") EXCEPT !.tx = [open |-> TRUE, columns |-> {}, dirSize |-> bytes]]
  /\ UNCHANGED <<keyVars, dbVars, rolesFile, blobs, cut, starts>>

\* INSERT OR REPLACE of every role in roles.json, or in the built-in list if that
\* cannot be read; then the commit.
Default == RoleNames
SyncRoles ==
  /\ server.pc = "roles"
  /\ \E read \in {rolesFile, Default} :
       roles' = roles \cup read /\ server' = [To("root") EXCEPT !.tx = NoTransaction, !.read = read]
  /\ columns' = columns \cup server.tx.columns
  /\ dirSize' = IF server.tx.open THEN server.tx.dirSize ELSE dirSize
  /\ UNCHANGED <<keyVars, tables, bytes, rolesFile, blobs, cut, starts>>

-----------------------------------------------------------------------------

\* ensure_root, and the rest of __init__ and start.
Open ==
  /\ server.pc = "root" /\ server' = To("running")
  /\ UNCHANGED <<keyVars, dbVars, rolesFile, blobs, cut, starts>>

StoreFile ==
  /\ server.pc = "running" /\ bytes < MaxFiles
  /\ bytes' = bytes + 1 /\ dirSize' = dirSize + 1 /\ blobs' = blobs \cup {server.key}
  /\ UNCHANGED <<keyVars, tables, columns, roles, rolesFile, server, cut, starts>>

\* The process ends, by a signal or by an error; a transaction is rolled back.
Stop ==
  /\ server.pc # "off" /\ server' = Off
  /\ cut' = (cut \/ server.pc = "backfill" \/ server.tx.open)
  /\ UNCHANGED <<keyVars, dbVars, rolesFile, blobs, starts>>

\* The operator edits roles.json; master.key is damaged.
EditRoles ==
  /\ \E names \in (SUBSET RoleNames) \ {{}} : rolesFile' = names
  /\ UNCHANGED <<keyVars, dbVars, server, blobs, cut, starts>>
DamageKey ==
  /\ keyFile > NoKey /\ keyFile' = Torn
  /\ UNCHANGED <<env, dbVars, rolesFile, server, blobs, cut, starts>>

Next == LoadKey \/ SaveKey \/ CreateTable \/ Migrate \/ Backfill \/ SyncRoles \/ Open
        \/ StoreFile \/ Stop \/ EditRoles \/ DamageKey

Spec == Init /\ [][Next]_vars

-----------------------------------------------------------------------------
(* Properties                                                              *)

Running == server.pc = "running"

\* "A file that exists but cannot be decoded raises an error rather than silently
\* overwriting itself": a server that runs has the key of every blob, after any crash
\* and after damage to the file (_load_or_create_master_key).
KeyReadsBlobs == Running => blobs \subseteq {server.key}

\* A server that runs has every table and every column, whatever release the database
\* is of and wherever earlier starts were cut short (init_db).
SchemaComplete == Running => tables = Len(TableNames) /\ columns = ToSet(Migrations)

\* The sizes of directories are right, unless a start was cut short after it had added
\* their column (_backfill_dir_sizes).
SizesUnlessCut == Running /\ ~cut => dirSize = bytes

\* A role of the file that the start has read is in the table (init_db).  One that is
\* no longer in the file stays there.
RolesUsable == Running => server.read \subseteq roles

\* What every start, of whatever database and after whatever crash, gives a server that
\* runs.
StartsSound == KeyReadsBlobs /\ SchemaComplete /\ RolesUsable /\ SizesUnlessCut

\* "Backfilled via a one-time recursive CTE on first run after the migration", and from
\* then on "always current".
SizesBackfilled == Running => dirSize = bytes

=============================================================================
