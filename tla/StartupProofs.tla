--------------------------- MODULE StartupProofs ----------------------------
(***************************************************************************)
(* A server that runs has the key of every blob, the whole schema, the     *)
(* roles it read and, unless an upgrade was cut short, right sizes, for    *)
(* any number of starts, files and roles.                                  *)
(***************************************************************************)
EXTENDS Startup, TLAPS

Columns == ToSet(Migrations)
Transaction == [open : BOOLEAN, columns : SUBSET Columns, dirSize : Nat]
ServerState == [pc : Pcs, key : Nat, migration : Nat \ {0}, tx : Transaction, read : SUBSET RoleNames]

Types ==
  /\ env \in {NoKey, EnvKey} /\ keyFile \in Nat \cup {Torn}
  /\ server \in ServerState
  /\ rolesFile \subseteq RoleNames /\ bytes \in Nat /\ starts \in Nat

LEMMA FirstTypes == Init => Types
<1>1. NoTransaction \in Transaction
  BY DEF NoTransaction, Transaction
<1>2. Off \in ServerState
  BY <1>1 DEF Off, ServerState, Pcs, NoKey
<1> QED
  BY <1>2 DEF Init, Types, NoKey, EnvKey, Torn

\* What the updates of the process's record leave.
LEMMA Moves ==
  ASSUME server \in ServerState, NEW pc \in Pcs
  PROVE /\ To(pc) \in ServerState
        /\ To(pc).pc = pc /\ To(pc).key = server.key /\ To(pc).migration = server.migration
        /\ To(pc).tx = server.tx /\ To(pc).read = server.read
BY DEF To, ServerState

LEMMA Keys ==
  ASSUME server \in ServerState, NEW pc \in Pcs, NEW key \in Nat
  PROVE LET st == [To(pc) EXCEPT !.key = key]
        IN /\ st \in ServerState
           /\ st.pc = pc /\ st.key = key /\ st.migration = server.migration /\ st.tx = server.tx
<1> DEFINE st == To(pc)
<1>1. st \in ServerState /\ st.pc = pc /\ st.migration = server.migration /\ st.tx = server.tx
  BY Moves
<1> HIDE DEF st
<1>2. LET new == [st EXCEPT !.key = key]
      IN /\ new \in ServerState
         /\ new.pc = pc /\ new.key = key /\ new.migration = server.migration /\ new.tx = server.tx
  BY <1>1 DEF ServerState
<1> QED
  BY <1>2 DEF st

LEMMA OffFits == Off \in ServerState /\ NoTransaction \in Transaction
BY DEF NoTransaction, Transaction, Off, ServerState, Pcs, NoKey

\* How a start gets its key.
LEMMA Loads ==
  ASSUME Types, LoadKey
  PROVE /\ server.pc = "off" /\ UNCHANGED <<keyVars, dbVars, rolesFile, blobs>> /\ starts' \in Nat
        /\ server' \in ServerState
        /\ \/ env # NoKey /\ server'.pc = "script" /\ server'.key = env
           \/ env = NoKey /\ Missing /\ server'.pc = "create" /\ server'.key = starts + 2
           \/ env = NoKey /\ server' = Off
           \/ env = NoKey /\ keyFile \notin {NoKey, Torn} /\ server'.pc = "script" /\ server'.key = keyFile
        /\ \/ server' = Off
           \/ server'.migration = server.migration /\ server'.tx = server.tx
<1> USE DEF Types
<1>0. /\ server.pc = "off" /\ UNCHANGED <<keyVars, dbVars, rolesFile, blobs>>
      /\ starts' = starts + 1 /\ starts' \in Nat
  BY DEF LoadKey
<1>1. "script" \in Pcs /\ "create" \in Pcs
  BY DEF Pcs
<1>2. CASE env # NoKey
  <2>1. env \in Nat
    BY DEF NoKey, EnvKey
  <2>2. server' = [To("script") EXCEPT !.key = env]
    BY <1>2 DEF LoadKey
  <2> QED
    BY <1>0, <1>1, <1>2, <2>1, <2>2, Keys
<1>3. CASE env = NoKey /\ Missing
  <2>1. starts' + 1 \in Nat /\ starts' + 1 = starts + 2
    BY <1>0
  <2>2. server' = [To("create") EXCEPT !.key = starts' + 1]
    BY <1>3 DEF LoadKey
  <2> QED
    BY <1>0, <1>1, <1>3, <2>1, <2>2, Keys
<1>4. CASE env = NoKey /\ ~Missing /\ keyFile = Torn
  <2>1. server' = Off
    BY <1>4 DEF LoadKey
  <2> QED
    BY <1>0, <1>4, <2>1, OffFits
<1>5. CASE env = NoKey /\ ~Missing /\ keyFile # Torn
  <2>1. keyFile \in Nat /\ keyFile \notin {NoKey, Torn}
    BY <1>5 DEF Missing
  <2>2. server' = [To("script") EXCEPT !.key = keyFile]
    BY <1>5 DEF LoadKey
  <2> QED
    BY <1>0, <1>1, <1>5, <2>1, <2>2, Keys
<1> QED
  BY <1>2, <1>3, <1>4, <1>5

\* The columns are those of the migrations.
LEMMA MigrationColumns ==
  /\ Len(Migrations) \in Nat
  /\ \A i \in 1 .. Len(Migrations) : Migrations[i] \in Columns
  /\ \A c \in Columns : \E i \in 1 .. Len(Migrations) : c = Migrations[i]
<1>1. Len(Migrations) = 6 /\ DOMAIN Migrations = 1 .. 6
  BY DEF Migrations
<1>2. Columns = {Migrations[i] : i \in DOMAIN Migrations}
  BY DEF Columns, ToSet
<1> QED
  BY <1>1, <1>2

SizeColumn == "dir_size_bytes"

\* An ALTER is in the table or in the transaction, and nothing is lost from either.
LEMMA Migrates ==
  ASSUME Types, Migrate
  PROVE /\ server.pc = "migrate" /\ server' \in ServerState /\ server'.key = server.key
        /\ UNCHANGED <<keyVars, tables, rolesFile, bytes, blobs, starts>>
        /\ columns \subseteq columns' /\ server.tx.columns \subseteq server'.tx.columns
        /\ columns \subseteq Columns => columns' \subseteq Columns
        /\ server'.tx.open = server.tx.open /\ (~server.tx.open => server'.tx = server.tx)
        /\ server'.pc = "backfill" => ~server.tx.open /\ SizeColumn \in columns'
        /\ SizeColumn \in columns' \ columns => server'.pc = "backfill"
        /\ server'.tx.dirSize = server.tx.dirSize
        /\ \/ server.migration > Len(Migrations) /\ server'.pc = "roles"
           \/ /\ server.migration \in 1 .. Len(Migrations)
              /\ server'.migration = server.migration + 1 /\ server'.pc \in {"migrate", "backfill"}
              /\ Migrations[server.migration] \in columns' \cup server'.tx.columns
<1> USE DEF Types
<1> DEFINE column == Migrations[server.migration]
           next == [server EXCEPT !.migration = @ + 1]
<1>0. server.pc = "migrate" /\ UNCHANGED <<keyVars, tables, rolesFile, bytes, blobs, starts>>
  BY DEF Migrate
<1>1. CASE server.migration > Len(Migrations)
  <2>1. server' = To("roles") /\ columns' = columns
    BY <1>1 DEF Migrate
  <2>2. "roles" \in Pcs
    BY DEF Pcs
  <2> QED
    BY <1>0, <1>1, <2>1, <2>2, Moves
<1>2. CASE ~(server.migration > Len(Migrations))
  <2>1. server.migration \in 1 .. Len(Migrations) /\ column \in Columns
    BY <1>2, MigrationColumns DEF ServerState
  <2>2. /\ next \in ServerState /\ next.pc = "migrate" /\ next.key = server.key
        /\ next.migration = server.migration + 1 /\ next.tx = server.tx
    BY <1>0, <2>1 DEF ServerState
  <2> HIDE DEF next
  <2>3. CASE column \in columns
    <3>1. server' = next /\ columns' = columns
      BY <1>2, <2>3 DEF Migrate, next
    <3> QED
      BY <1>0, <2>1, <2>2, <2>3, <3>1
  <2>4. CASE column \notin columns /\ server.tx.open
    <3>1. server' = [next EXCEPT !.tx.columns = @ \cup {column}] /\ columns' = columns
      BY <1>2, <2>4 DEF Migrate, next
    <3>2. next.tx \in Transaction
      BY <2>2 DEF ServerState
    <3>3. [next.tx EXCEPT !.columns = @ \cup {column}] \in Transaction
          /\ [next.tx EXCEPT !.columns = @ \cup {column}].open = next.tx.open
          /\ [next.tx EXCEPT !.columns = @ \cup {column}].dirSize = next.tx.dirSize
          /\ [next.tx EXCEPT !.columns = @ \cup {column}].columns = next.tx.columns \cup {column}
      BY <2>1, <3>2 DEF Transaction
    <3>4. server' = [next EXCEPT !.tx = [next.tx EXCEPT !.columns = @ \cup {column}]]
      BY <2>2, <3>1 DEF ServerState
    <3>5. /\ server' \in ServerState /\ server'.pc = next.pc /\ server'.key = next.key
          /\ server'.migration = next.migration
          /\ server'.tx.columns = next.tx.columns \cup {column} /\ server'.tx.open = next.tx.open
          /\ server'.tx.dirSize = next.tx.dirSize
      BY <2>2, <3>3, <3>4 DEF ServerState
    <3> QED
      BY <1>0, <2>1, <2>2, <2>4, <3>1, <3>5
  <2>5. CASE column \notin columns /\ ~server.tx.open
    <3>1. /\ server' = IF column = SizeColumn THEN [next EXCEPT !.pc = "backfill"] ELSE next
          /\ columns' = columns \cup {column}
      BY <1>2, <2>5 DEF Migrate, next, SizeColumn
    <3>2. /\ server' \in ServerState /\ server'.key = next.key
          /\ server'.pc = IF column = SizeColumn THEN "backfill" ELSE "migrate"
          /\ server'.migration = next.migration /\ server'.tx = next.tx
      BY <2>2, <3>1 DEF ServerState, Pcs
    <3> QED
      BY <1>0, <2>1, <2>2, <2>5, <3>1, <3>2
  <2> QED
    BY <2>3, <2>4, <2>5
<1> QED
  BY <1>1, <1>2

\* The transaction that the backfill opens has the sizes and no column yet.
LEMMA Backfills ==
  ASSUME Types, Backfill
  PROVE /\ server.pc = "backfill" /\ server' \in ServerState /\ server'.pc = "migrate"
        /\ server'.key = server.key /\ server'.migration = server.migration
        /\ server'.tx.open /\ server'.tx.columns = {} /\ server'.tx.dirSize = bytes
        /\ UNCHANGED <<keyVars, dbVars, rolesFile, blobs, starts>>
<1> USE DEF Types
<1> DEFINE st == To("migrate")
           tx == [open |-> TRUE, columns |-> {}, dirSize |-> bytes]
<1>1. /\ st \in ServerState /\ st.pc = "migrate" /\ st.key = server.key
      /\ st.migration = server.migration
  BY Moves DEF Pcs
<1>2. tx \in Transaction /\ tx.open /\ tx.columns = {} /\ tx.dirSize = bytes
  BY DEF Transaction
<1>3. /\ server' = [st EXCEPT !.tx = tx] /\ server.pc = "backfill"
      /\ UNCHANGED <<keyVars, dbVars, rolesFile, blobs, starts>>
  BY DEF Backfill
<1> HIDE DEF st, tx
<1> QED
  BY <1>1, <1>2, <1>3 DEF ServerState

LEMMA Syncs ==
  ASSUME Types, SyncRoles
  PROVE /\ server.pc = "roles" /\ server' \in ServerState /\ server'.pc = "root"
        /\ server'.key = server.key /\ server'.tx = NoTransaction
        /\ columns' = columns \cup server.tx.columns
        /\ dirSize' = IF server.tx.open THEN server.tx.dirSize ELSE dirSize
        /\ server'.read \subseteq roles'
        /\ UNCHANGED <<keyVars, tables, rolesFile, bytes, blobs, starts>>
<1> USE DEF Types
<1> DEFINE st == To("root")
<1>1. st \in ServerState /\ st.pc = "root" /\ st.key = server.key
  BY Moves DEF Pcs
<1> HIDE DEF st
<1>2. PICK read \in {rolesFile, Default} :
        /\ server' = [st EXCEPT !.tx = NoTransaction, !.read = read]
        /\ roles' = roles \cup read
  BY DEF SyncRoles, st
<1>3. read \in SUBSET RoleNames
  BY <1>2 DEF Default
<1>4. server' \in ServerState /\ server'.pc = "root" /\ server'.key = server.key /\ server'.tx = NoTransaction
      /\ server'.read \subseteq roles'
  BY <1>1, <1>2, <1>3, OffFits DEF ServerState
<1> QED
  BY <1>4 DEF SyncRoles

\* Steps that write down how far the process is and nothing else of its record.
LEMMA Advances ==
  ASSUME Types, SaveKey \/ CreateTable \/ Open
  PROVE /\ server' \in ServerState /\ server'.key = server.key
        /\ server'.migration = server.migration /\ server'.tx = server.tx
        /\ server'.read = server.read
        /\ \/ SaveKey /\ server.pc = "create" /\ server'.pc = "fill" /\ keyFile' = Torn
           \/ SaveKey /\ server.pc = "fill" /\ server'.pc = "script" /\ keyFile' = server.key
           \/ /\ CreateTable /\ server.pc = "script"
              /\ server'.pc = IF tables = Len(TableNames) THEN "migrate" ELSE "script"
           \/ Open /\ server.pc = "root" /\ server'.pc = "running"
<1> USE DEF Types
<1>1. {"fill", "script", "migrate", "running"} \subseteq Pcs
  BY DEF Pcs
<1>2. CASE SaveKey
  BY <1>1, <1>2, Moves DEF SaveKey
<1>3. CASE CreateTable
  BY <1>1, <1>3, Moves DEF CreateTable
<1>4. CASE Open
  BY <1>1, <1>4, Moves DEF Open
<1> QED
  BY <1>2, <1>3, <1>4

LEMMA StepTypes == Types /\ [Next]_vars => Types'
<1> SUFFICES ASSUME Types, [Next]_vars PROVE Types'
  OBVIOUS
<1>1. CASE LoadKey
  BY <1>1, Loads DEF Types, keyVars, dbVars
<1>2. CASE SaveKey
  BY <1>2, Advances DEF Types, SaveKey, dbVars, ServerState
<1>3. CASE CreateTable \/ Open
  BY <1>3, Advances DEF Types, CreateTable, Open, keyVars, dbVars
<1>4. CASE Migrate
  BY <1>4, Migrates DEF Types, keyVars
<1>5. CASE Backfill
  BY <1>5, Backfills DEF Types, keyVars, dbVars
<1>6. CASE SyncRoles
  BY <1>6, Syncs DEF Types, keyVars
<1>7. CASE StoreFile \/ EditRoles \/ UNCHANGED vars
  BY <1>7 DEF StoreFile, EditRoles, vars, keyVars, dbVars, Types
<1>8. CASE Stop \/ DamageKey
  BY <1>8, OffFits DEF Stop, DamageKey, keyVars, dbVars, Types
<1> QED
  BY <1>1, <1>2, <1>3, <1>4, <1>5, <1>6, <1>7, <1>8 DEF Next

-----------------------------------------------------------------------------
(* The key                                                                 *)

\* Blobs are under the key of the environment, or of the file: where the file is
\* missing there are none, and where it is damaged no other start gets far.  A server
\* that has got past its key goes on with one that reads all blobs.
KeyInv ==
  /\ server.pc # "off" => blobs \subseteq {server.key}
  /\ IF env # NoKey
     THEN /\ blobs \subseteq {env}
          /\ server.pc \notin {"create", "fill"}
          /\ server.pc # "off" => server.key = env
     ELSE /\ keyFile = NoKey => blobs = {} /\ server.pc \in {"off", "create"}
          /\ server.pc = "create" => keyFile = NoKey /\ server.key # NoKey
          /\ server.pc = "fill" => keyFile = Torn /\ server.key # NoKey
          /\ keyFile \notin {NoKey, Torn} =>
               blobs \subseteq {keyFile} /\ (server.pc # "off" => server.key = keyFile)

LEMMA FirstKey == Init => KeyInv
BY DEF Init, KeyInv, Off, NoKey, EnvKey, Torn

LEMMA StepKey == Types /\ KeyInv /\ [Next]_vars => KeyInv'
<1> SUFFICES ASSUME Types, KeyInv, [Next]_vars PROVE KeyInv'
  OBVIOUS
<1> USE DEF KeyInv
<1>1. CASE LoadKey
  <2>1. starts + 2 # NoKey
    BY DEF Types, NoKey
  <2>2. server.pc = "off" /\ UNCHANGED <<env, keyFile, blobs>>
    BY <1>1, Loads DEF keyVars
  <2>3. CASE env # NoKey /\ server'.pc = "script" /\ server'.key = env
    BY <2>2, <2>3
  <2>4. CASE env = NoKey /\ Missing /\ server'.pc = "create" /\ server'.key = starts + 2
    BY <2>1, <2>2, <2>4 DEF Missing
  <2>5. CASE env = NoKey /\ server' = Off
    BY <2>2, <2>5 DEF Off
  <2>6. CASE env = NoKey /\ keyFile \notin {NoKey, Torn} /\ server'.pc = "script" /\ server'.key = keyFile
    BY <2>2, <2>6
  <2> QED
    BY <1>1, <2>3, <2>4, <2>5, <2>6, Loads
<1>2. CASE SaveKey
  <2>1. UNCHANGED <<env, blobs>>
    BY <1>2 DEF SaveKey
  <2>2. env = NoKey /\ NoKey # Torn
    BY <1>2 DEF SaveKey, NoKey, Torn
  <2>3. CASE server.pc = "create" /\ server'.pc = "fill" /\ keyFile' = Torn
    BY <1>2, <2>1, <2>2, <2>3, Advances
  <2>4. CASE server.pc = "fill" /\ server'.pc = "script" /\ keyFile' = server.key
    BY <1>2, <2>1, <2>2, <2>4, Advances
  <2> QED
    BY <1>2, <2>3, <2>4, Advances DEF SaveKey
<1>3. CASE CreateTable \/ Open
  <2>1. UNCHANGED <<env, keyFile, blobs>>
    BY <1>3 DEF CreateTable, Open, keyVars
  <2>2. server'.key = server.key /\ {server.pc, server'.pc} \subseteq {"script", "migrate", "root", "running"}
    BY <1>3, Advances DEF CreateTable, Open
  <2> QED
    BY <2>1, <2>2
<1>4. CASE Migrate \/ Backfill \/ SyncRoles
  <2>1. UNCHANGED <<env, keyFile, blobs>>
    BY <1>4, Migrates, Backfills, Syncs DEF keyVars
  <2>2. /\ server'.key = server.key
        /\ {server.pc, server'.pc} \subseteq {"migrate", "backfill", "roles", "root"}
    BY <1>4, Migrates, Backfills, Syncs
  <2> QED
    BY <2>1, <2>2
<1>5. CASE StoreFile
  BY <1>5 DEF StoreFile, keyVars
<1>6. CASE Stop
  BY <1>6 DEF Stop, keyVars, Off
<1>7. CASE DamageKey
  BY <1>7 DEF DamageKey, NoKey, Torn, Types
<1>8. CASE EditRoles \/ UNCHANGED vars
  BY <1>8 DEF EditRoles, vars, keyVars
<1> QED
  BY <1>1, <1>2, <1>3, <1>4, <1>5, <1>6, <1>7, <1>8 DEF Next

-----------------------------------------------------------------------------
(* The schema                                                              *)

\* Every migration before the next one is in the table or in the transaction.
Migrated(n) == \A i \in 1 .. n - 1 : Migrations[i] \in columns \cup server.tx.columns

SchemaInv ==
  /\ tables \in 0 .. Len(TableNames) /\ columns \subseteq Columns
  /\ server.pc \in {"migrate", "backfill", "roles", "root", "running"} => tables = Len(TableNames)
  /\ server.pc \in {"migrate", "backfill"} =>
       server.migration \in 1 .. Len(Migrations) + 1 /\ Migrated(server.migration)
  /\ server.pc \in {"off", "create", "fill", "script"} => server.migration = 1
  /\ server.pc = "roles" => Migrated(Len(Migrations) + 1)
  /\ server.pc \in {"root", "running"} => columns = Columns
  /\ ~server.tx.open => server.tx.columns = {}
  /\ server.pc = "backfill" => ~server.tx.open

LEMMA TableCount == Len(TableNames) \in Nat /\ \A i \in 1 .. Len(TableNames) : NewColumns[TableNames[i]] \subseteq Columns
<1>1. Len(TableNames) = 7 /\ DOMAIN TableNames = 1 .. 7
  BY DEF TableNames
<1>2. ToSet(TableNames) = {TableNames[i] : i \in 1 .. 7}
  BY <1>1 DEF ToSet
<1>3. {"chain_hash", "content_hash", "unmasked"} \subseteq Columns
  <2>1. Len(Migrations) = 6
    BY DEF Migrations
  <2>2. Migrations[1] = "chain_hash" /\ Migrations[2] = "content_hash" /\ Migrations[6] = "unmasked"
    BY DEF Migrations
  <2> QED
    BY <2>1, <2>2, MigrationColumns
<1>4. ASSUME NEW t \in ToSet(TableNames) PROVE NewColumns[t] \subseteq Columns
  BY <1>3 DEF NewColumns
<1> QED
  BY <1>1, <1>2, <1>4

LEMMA FirstSchema == Init => SchemaInv
<1> SUFFICES ASSUME Init PROVE SchemaInv
  OBVIOUS
<1>1. server = Off
  BY DEF Init
<1>2. /\ server.pc = "off" /\ server.migration = 1
      /\ server.tx.columns = {} /\ ~server.tx.open
  BY <1>1 DEF Off, NoTransaction
<1>3. Len(Migrations) = 6 /\ Len(TableNames) = 7
  BY DEF Migrations, TableNames
<1>4. tables \in 0 .. Len(TableNames)
  BY <1>3 DEF Init
<1>5. columns \subseteq Columns
  <2>1. CASE columns = {}
    BY <2>1
  <2>2. CASE \E n \in 0 .. Len(Migrations) : columns = ToSet(SubSeq(Migrations, 1, n))
    <3>1. PICK n \in 0 .. 6 : columns = ToSet(SubSeq(Migrations, 1, n))
      BY <1>3, <2>2
    <3>2. SubSeq(Migrations, 1, n) = [i \in 1 .. n |-> Migrations[i]]
      BY <1>3
    <3> QED
      BY <1>3, <3>1, <3>2, MigrationColumns DEF ToSet
  <2> QED
    BY <2>1, <2>2 DEF Init
<1> QED
  BY <1>2, <1>4, <1>5 DEF SchemaInv

LEMMA StepSchema == Types /\ SchemaInv /\ [Next]_vars => SchemaInv'
<1> SUFFICES ASSUME Types, SchemaInv, [Next]_vars PROVE SchemaInv'
  OBVIOUS
<1> DEFINE n == Len(Migrations)
           k == Len(TableNames)
<1>0. n \in Nat /\ k \in Nat
  BY MigrationColumns, TableCount
<1>off. Off.pc = "off" /\ Off.migration = 1 /\ Off.tx.columns = {} /\ ~Off.tx.open
  BY DEF Off, NoTransaction
<1> USE DEF SchemaInv, Migrated
<1> HIDE DEF n, k
<1>1. CASE LoadKey
  <2>1. UNCHANGED <<tables, columns>> /\ server.pc = "off"
    BY <1>1, Loads DEF dbVars
  <2>2. /\ server'.pc \in {"off", "create", "script"} /\ server'.migration = 1
        /\ ~server'.tx.open => server'.tx.columns = {}
    BY <1>1, <1>off, <2>1, Loads
  <2> QED
    BY <2>1, <2>2
<1>2. CASE SaveKey
  <2>1. UNCHANGED <<tables, columns>>
    BY <1>2 DEF SaveKey, dbVars
  <2>2. /\ server.pc \in {"create", "fill"} /\ server'.pc \in {"fill", "script"}
        /\ server'.migration = server.migration /\ server'.tx = server.tx
    BY <1>2, Advances DEF SaveKey
  <2> QED
    BY <2>1, <2>2
<1>3. CASE CreateTable
  <2>1. /\ server.pc = "script" /\ server'.migration = 1 /\ server'.tx = server.tx
        /\ server'.pc = IF tables = k THEN "migrate" ELSE "script"
    BY <1>3, Advances DEF CreateTable, k
  <2>2. CASE tables = k
    <3>1. UNCHANGED <<tables, columns>>
      BY <1>3, <2>2 DEF CreateTable, k
    <3> QED
      BY <1>0, <2>1, <2>2, <3>1 DEF n, k
  <2>3. CASE tables # k
    <3>1. tables' = tables + 1 /\ columns' = columns \cup NewColumns[TableNames[tables']]
      BY <1>3, <2>3 DEF CreateTable, k
    <3>2. tables' \in 1 .. k
      BY <1>0, <2>3, <3>1 DEF k
    <3>3. columns' \subseteq Columns
      BY <3>1, <3>2, TableCount DEF k
    <3> QED
      BY <1>0, <2>1, <2>3, <3>2, <3>3 DEF k
  <2> QED
    BY <2>2, <2>3
<1>4. CASE Migrate
  <2>1. UNCHANGED tables /\ server.pc = "migrate" /\ columns' \subseteq Columns
    BY <1>4, Migrates
  <2>2. \A i \in 1 .. server.migration - 1 : Migrations[i] \in columns' \cup server'.tx.columns
    BY <1>4, <2>1, Migrates
  <2>3. /\ ~server'.tx.open => server'.tx.columns = {}
        /\ server'.pc = "backfill" => ~server'.tx.open
    BY <1>4, Migrates
  <2>4. CASE server.migration > n /\ server'.pc = "roles"
    <3>1. server.migration = n + 1
      BY <1>0, <2>1, <2>4 DEF n
    <3> QED
      BY <2>1, <2>2, <2>3, <2>4, <3>1 DEF n
  <2>5. CASE /\ server.migration \in 1 .. n
             /\ server'.migration = server.migration + 1 /\ server'.pc \in {"migrate", "backfill"}
             /\ Migrations[server.migration] \in columns' \cup server'.tx.columns
    <3>1. \A i \in 1 .. server'.migration - 1 : Migrations[i] \in columns' \cup server'.tx.columns
      BY <1>0, <2>2, <2>5
    <3>2. server'.migration \in 1 .. n + 1
      BY <1>0, <2>5
    <3> QED
      BY <2>1, <2>3, <2>5, <3>1, <3>2 DEF n
  <2> QED
    BY <1>4, <2>4, <2>5, Migrates DEF n
<1>5. CASE Backfill
  BY <1>5, Backfills DEF dbVars
<1>6. CASE SyncRoles
  <2>1. /\ server.pc = "roles" /\ server'.pc = "root" /\ server'.tx = NoTransaction
        /\ UNCHANGED tables /\ columns' = columns \cup server.tx.columns
    BY <1>6, Syncs
  <2>2. server.tx.columns \subseteq Columns
    BY DEF Types, ServerState, Transaction
  <2>3. columns' = Columns
    BY <1>0, <2>1, <2>2, MigrationColumns DEF n
  <2> QED
    BY <2>1, <2>3 DEF NoTransaction
<1>7. CASE Open
  <2>1. UNCHANGED <<tables, columns>>
    BY <1>7 DEF Open, dbVars
  <2>2. server.pc = "root" /\ server'.pc = "running" /\ server'.tx = server.tx
    BY <1>7, Advances DEF Open
  <2> QED
    BY <2>1, <2>2
<1>8. CASE Stop
  BY <1>8, <1>off DEF Stop, dbVars
<1>9. CASE StoreFile \/ EditRoles \/ DamageKey \/ UNCHANGED vars
  BY <1>9 DEF StoreFile, EditRoles, DamageKey, vars, dbVars
<1> QED
  BY <1>1, <1>2, <1>3, <1>4, <1>5, <1>6, <1>7, <1>8, <1>9 DEF Next

-----------------------------------------------------------------------------
(* The sizes and the roles                                                 *)

\* A transaction is that of a backfill, which follows its column.  Where the column is,
\* and no start ended before the commit, the sizes are in the table or in the transaction.
SizeInv ==
  /\ server.tx.open => SizeColumn \in columns /\ server.pc \in {"migrate", "roles"}
  /\ server.pc = "backfill" => SizeColumn \in columns
  /\ SizeColumn \in columns /\ ~cut /\ server.pc # "backfill" =>
       bytes = IF server.tx.open THEN server.tx.dirSize ELSE dirSize
  /\ server.pc \in {"root", "running"} => server.read \subseteq roles

LEMMA FirstSizes == Init => SizeInv
BY DEF Init, SizeInv, Off, NoTransaction, SizeColumn

LEMMA StepSizes == Types /\ SchemaInv /\ SizeInv /\ [Next]_vars => SizeInv'
<1> SUFFICES ASSUME Types, SchemaInv, SizeInv, [Next]_vars PROVE SizeInv'
  OBVIOUS
<1>off. Off.pc = "off" /\ ~Off.tx.open /\ ~NoTransaction.open
  BY DEF Off, NoTransaction
<1> USE DEF SizeInv
<1>1. CASE LoadKey
  <2>1. /\ UNCHANGED <<columns, bytes, dirSize, cut>> /\ server.pc = "off"
        /\ server'.pc \in {"off", "create", "script"} /\ ~server'.tx.open
    BY <1>1, <1>off, Loads DEF LoadKey, dbVars
  <2> QED
    BY <2>1
<1>2. CASE SaveKey
  <2>1. UNCHANGED <<columns, bytes, dirSize, cut>>
    BY <1>2 DEF SaveKey, dbVars
  <2>2. /\ server.pc \in {"create", "fill"} /\ server'.pc \in {"fill", "script"}
        /\ server'.tx = server.tx
    BY <1>2, Advances DEF SaveKey
  <2> QED
    BY <2>1, <2>2
<1>3. CASE CreateTable
  <2>1. /\ server.pc = "script" /\ server'.pc \in {"migrate", "script"} /\ server'.tx = server.tx
        /\ UNCHANGED <<bytes, dirSize, cut>>
    BY <1>3, Advances DEF CreateTable
  <2>2. SizeColumn \notin columns' \ columns
    <3>1. CASE tables = Len(TableNames)
      BY <1>3, <3>1 DEF CreateTable
    <3>2. CASE tables # Len(TableNames)
      <4>1. TableNames[tables'] \in ToSet(TableNames) /\ columns' = columns \cup NewColumns[TableNames[tables']]
        BY <1>3, <3>2, TableCount DEF CreateTable, SchemaInv, ToSet, TableNames
      <4>2. \A t \in ToSet(TableNames) : SizeColumn \notin NewColumns[t]
        BY DEF NewColumns, SizeColumn
      <4> QED
        BY <4>1, <4>2
    <3> QED
      BY <3>1, <3>2
  <2>3. columns \subseteq columns'
    BY <1>3 DEF CreateTable
  <2> QED
    BY <2>1, <2>2, <2>3
<1>4. CASE Migrate
  <2>1. UNCHANGED <<bytes, dirSize, cut>>
    BY <1>4 DEF Migrate
  <2>2. /\ server.pc = "migrate" /\ server'.pc \in {"migrate", "backfill", "roles"}
        /\ columns \subseteq columns'
        /\ server'.tx.open = server.tx.open /\ server'.tx.dirSize = server.tx.dirSize
        /\ server'.pc = "backfill" => ~server.tx.open /\ SizeColumn \in columns'
        /\ SizeColumn \in columns' \ columns => server'.pc = "backfill"
    BY <1>4, Migrates
  <2> QED
    BY <2>1, <2>2
<1>5. CASE Backfill
  BY <1>5, Backfills DEF dbVars
<1>6. CASE SyncRoles
  <2>1. UNCHANGED <<bytes, cut>>
    BY <1>6 DEF SyncRoles
  <2>2. SizeColumn \in columns' => SizeColumn \in columns
    BY <1>6, Syncs DEF SchemaInv
  <2> QED
    BY <1>6, <1>off, <2>1, <2>2, Syncs
<1>7. CASE Open
  <2>1. UNCHANGED <<columns, bytes, dirSize, cut, roles>>
    BY <1>7 DEF Open, dbVars
  <2>2. /\ server.pc = "root" /\ server'.pc = "running" /\ server'.tx = server.tx
        /\ server'.read = server.read
    BY <1>7, Advances DEF Open
  <2> QED
    BY <2>1, <2>2
<1>8. CASE StoreFile
  <2>1. /\ bytes' = bytes + 1 /\ dirSize' = dirSize + 1 /\ server.pc = "running"
        /\ UNCHANGED <<server, columns, cut, roles>>
    BY <1>8 DEF StoreFile
  <2> QED
    BY <2>1
<1>9. CASE Stop
  BY <1>9, <1>off DEF Stop, dbVars
<1>10. CASE EditRoles \/ DamageKey \/ UNCHANGED vars
  BY <1>10 DEF EditRoles, DamageKey, vars, dbVars
<1> QED
  BY <1>1, <1>2, <1>3, <1>4, <1>5, <1>6, <1>7, <1>8, <1>9, <1>10 DEF Next

-----------------------------------------------------------------------------

\* A server that runs has the key of every blob, every table and every column, the
\* roles it read and, unless the upgrade was cut short, the right sizes, of whatever
\* release the database is, however many starts ended early, and after damage to the
\* file of the key (_load_or_create_master_key, init_db).
THEOREM StartIsSound == Spec => []StartsSound
<1>1. Init => Types /\ KeyInv /\ SchemaInv /\ SizeInv
  BY FirstTypes, FirstKey, FirstSchema, FirstSizes
<1>2. /\ Types /\ KeyInv /\ SchemaInv /\ SizeInv /\ [Next]_vars
      => Types' /\ KeyInv' /\ SchemaInv' /\ SizeInv'
  BY StepTypes, StepKey, StepSchema, StepSizes
<1>3. Types /\ KeyInv /\ SchemaInv /\ SizeInv => StartsSound
  <2> SUFFICES ASSUME KeyInv, SchemaInv, SizeInv, Running PROVE StartsSound
    BY DEF StartsSound, KeyReadsBlobs, SchemaComplete, RolesUsable, SizesUnlessCut
  <2>1. KeyReadsBlobs
    BY DEF KeyInv, KeyReadsBlobs, Running
  <2>2. SchemaComplete /\ columns = Columns
    BY DEF SchemaInv, SchemaComplete, Running, Columns
  <2>3. SizeColumn \in Columns
    <3>1. Migrations[5] = SizeColumn /\ 5 \in 1 .. Len(Migrations)
      BY DEF Migrations, SizeColumn
    <3> QED
      BY <3>1, MigrationColumns
  <2>4. RolesUsable /\ SizesUnlessCut
    BY <2>2, <2>3 DEF SizeInv, RolesUsable, SizesUnlessCut, Running
  <2> QED
    BY <2>1, <2>2, <2>4 DEF StartsSound
<1> QED
  BY <1>1, <1>2, <1>3, PTL DEF Spec

-----------------------------------------------------------------------------
(* Types: where keys and sizes come from                                   *)

\* A key is that of the environment or was drawn in one of the starts, and no size is
\* of more than the files there are.
BoundInv ==
  /\ starts <= MaxStarts /\ keyFile \in {Torn} \cup 0 .. MaxStarts + 1
  /\ server.pc # "off" => server.key \in 1 .. MaxStarts + 1
  /\ blobs \subseteq 1 .. MaxStarts + 1
  /\ roles \subseteq RoleNames /\ cut \in BOOLEAN
  /\ bytes <= MaxFiles /\ dirSize \in Nat /\ dirSize <= bytes
  /\ server.tx.open => server.tx.dirSize <= bytes

LEMMA FirstBounds == StartupAssumption /\ Init => BoundInv
<1> SUFFICES ASSUME StartupAssumption, Init PROVE BoundInv
  OBVIOUS
<1>1. MaxStarts \in Nat /\ MaxFiles \in Nat /\ 1 <= MaxFiles
  BY DEF StartupAssumption
<1>2. server.pc = "off" /\ ~server.tx.open /\ cut = FALSE /\ starts = 0
  BY DEF Init, Off, NoTransaction
<1>3. keyFile \in {0, 1} /\ blobs \subseteq {1} /\ roles \subseteq RoleNames
  BY DEF Init, NoKey, EnvKey
<1>4. bytes \in {0, 1} /\ dirSize \in {0, bytes}
  BY DEF Init
<1>5. keyFile \in 0 .. MaxStarts + 1 /\ blobs \subseteq 1 .. MaxStarts + 1 /\ starts <= MaxStarts
  BY <1>1, <1>2, <1>3
<1>6. bytes <= MaxFiles /\ dirSize \in Nat /\ dirSize <= bytes
  BY <1>1, <1>4
<1>7. cut \in BOOLEAN
  BY <1>2
<1> QED BY <1>2, <1>3, <1>5, <1>6, <1>7 DEF BoundInv

LEMMA StepBounds == StartupAssumption /\ Types /\ SizeInv /\ BoundInv /\ [Next]_vars => BoundInv'
<1> SUFFICES ASSUME StartupAssumption, Types, SizeInv, BoundInv, [Next]_vars PROVE BoundInv'
  OBVIOUS
<1>off. Off.pc = "off" /\ ~Off.tx.open /\ ~NoTransaction.open
  BY DEF Off, NoTransaction
<1>n. MaxStarts \in Nat /\ MaxFiles \in Nat /\ starts \in Nat /\ bytes \in Nat
  BY DEF StartupAssumption, Types
<1> USE DEF BoundInv
<1>1. CASE LoadKey
  <2>1. /\ UNCHANGED <<keyVars, dbVars, rolesFile, blobs, cut>> /\ server.pc = "off"
        /\ starts < MaxStarts /\ starts' = starts + 1
    BY <1>1 DEF LoadKey
  <2>2. UNCHANGED <<keyFile, roles, dirSize, bytes>>
    BY <2>1 DEF keyVars, dbVars
  <2>3. server'.pc # "off" => server'.key \in 1 .. MaxStarts + 1
    <3>1. \/ server' = Off
          \/ env # NoKey /\ server'.key = env
          \/ server'.key = starts + 2
          \/ keyFile \notin {NoKey, Torn} /\ server'.key = keyFile
      BY <1>1, Loads
    <3>2. env # NoKey => env \in 1 .. MaxStarts + 1
      BY <1>n DEF Types, NoKey, EnvKey
    <3>3. keyFile \notin {NoKey, Torn} => keyFile \in 1 .. MaxStarts + 1
      BY <1>n DEF NoKey
    <3> QED BY <1>n, <1>off, <2>1, <3>1, <3>2, <3>3
  <2>4. server'.tx.open => server.tx.open /\ server'.tx = server.tx
    BY <1>1, <1>off, Loads
  <2> QED BY <1>n, <2>1, <2>2, <2>3, <2>4
<1>2. CASE SaveKey \/ CreateTable \/ Open
  <2>1. UNCHANGED <<roles, dirSize, bytes, blobs, cut, starts>>
    BY <1>2 DEF SaveKey, CreateTable, Open, dbVars
  <2>2. server'.key = server.key /\ server'.tx = server.tx /\ server.pc # "off"
    BY <1>2, Advances
  <2>3. keyFile' \in {keyFile, Torn, server.key}
    BY <1>2 DEF SaveKey, CreateTable, Open, keyVars
  <2> QED BY <1>n, <2>1, <2>2, <2>3
<1>3. CASE Migrate
  <2>1. UNCHANGED <<keyFile, roles, dirSize, bytes, blobs, cut, starts>>
    BY <1>3 DEF Migrate, keyVars
  <2> QED BY <1>3, <2>1, Migrates
<1>4. CASE Backfill
  <2>1. UNCHANGED <<keyFile, roles, dirSize, bytes, blobs, cut, starts>>
    BY <1>4 DEF Backfill, keyVars, dbVars
  <2> QED BY <1>4, <1>n, <2>1, Backfills
<1>5. CASE SyncRoles
  <2>1. UNCHANGED <<keyFile, bytes, blobs, cut, starts>> /\ roles' \subseteq RoleNames
    BY <1>5 DEF SyncRoles, Types, Default, keyVars
  <2>2. server.tx \in Transaction
    BY DEF Types, ServerState
  <2>3. dirSize' \in Nat /\ dirSize' <= bytes
    BY <1>5, <2>2, Syncs DEF Transaction
  <2> QED BY <1>5, <1>off, <2>1, <2>3, Syncs
<1>6. CASE StoreFile
  <2>1. /\ bytes' = bytes + 1 /\ dirSize' = dirSize + 1 /\ bytes < MaxFiles /\ blobs' = blobs \cup {server.key}
        /\ server.pc = "running" /\ UNCHANGED <<keyFile, roles, server, cut, starts>>
    BY <1>6 DEF StoreFile, keyVars
  <2>2. ~server.tx.open
    BY <2>1 DEF SizeInv
  <2>3. server.key \in 1 .. MaxStarts + 1
    BY <2>1
  <2>4. bytes' <= MaxFiles /\ dirSize' \in Nat /\ dirSize' <= bytes'
    BY <1>n, <2>1
  <2> QED BY <2>1, <2>2, <2>3, <2>4
<1>7. CASE Stop
  BY <1>7, <1>off DEF Stop, keyVars, dbVars, Types, ServerState, Transaction
<1>8. CASE EditRoles \/ DamageKey \/ UNCHANGED vars
  BY <1>8 DEF EditRoles, DamageKey, vars, keyVars, dbVars
<1> QED BY <1>1, <1>2, <1>3, <1>4, <1>5, <1>6, <1>7, <1>8 DEF Next

\* What is known of a start holds in every module that lets it take steps.
StartInv == Types /\ KeyInv /\ SchemaInv /\ SizeInv /\ BoundInv

LEMMA StartBegins == StartupAssumption /\ Init => StartInv
BY FirstTypes, FirstKey, FirstSchema, FirstSizes, FirstBounds DEF StartInv

LEMMA StartKeeps == StartupAssumption /\ StartInv /\ [Next]_vars => StartInv'
BY StepTypes, StepKey, StepSchema, StepSizes, StepBounds DEF StartInv

LEMMA StartIsTyped == StartupAssumption /\ StartInv => TypeOK
<1> SUFFICES ASSUME StartupAssumption, StartInv PROVE TypeOK
  OBVIOUS
<1>1. /\ server.pc \in Pcs /\ server.read \subseteq RoleNames
      /\ env \in {NoKey, EnvKey} /\ rolesFile \subseteq RoleNames /\ bytes \in Nat /\ starts \in Nat
      /\ MaxStarts \in Nat /\ MaxFiles \in Nat
  BY DEF StartInv, Types, ServerState, StartupAssumption
<1>2. tables \in 0 .. Len(TableNames) /\ columns \subseteq ToSet(Migrations)
  BY DEF StartInv, SchemaInv, Columns
<1>3. server.tx.open => "dir_size_bytes" \in columns /\ server.pc \in {"migrate", "roles"}
  BY DEF StartInv, SizeInv, SizeColumn
<1>4. /\ keyFile \in {Torn} \cup 0 .. MaxStarts + 1 /\ starts \in 0 .. MaxStarts /\ bytes \in 0 .. MaxFiles
      /\ dirSize \in 0 .. MaxFiles /\ roles \subseteq RoleNames /\ cut \in BOOLEAN
      /\ blobs \subseteq 1 .. MaxStarts + 1
      /\ server.pc # "off" => server.key # NoKey
  BY <1>1 DEF StartInv, BoundInv, NoKey
<1>5. server.pc \in Pcs \ {"off"} => server.key # NoKey
  BY <1>4
<1> HIDE DEF StartInv
<1> QED BY ONLY <1>1, <1>2, <1>3, <1>4, <1>5 DEF TypeOK

=============================================================================
