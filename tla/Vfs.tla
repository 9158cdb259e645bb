-------------------------------- MODULE Vfs --------------------------------
(***************************************************************************)
(* The virtual filesystem of the EFS-TDM server: the tables inodes and     *)
(* file_meta of the SQLite database and the directory of encrypted blobs.  *)
(*                                                                         *)
(* Sources: server_pkg/core/vfs.py and db.py, and the handlers _vfs_mkdir, *)
(* _vfs_send, _vfs_rm and _vfs_mv of server_pkg/server/server.py.  ls,     *)
(* stat, tree and fetch change nothing and are left out.                   *)
(*                                                                         *)
(* Nothing spans the database and the blob directory, and a handler uses   *)
(* several connections: each SELECT is an autocommit read of its own, each *)
(* write transaction runs from its first INSERT, UPDATE or DELETE to the   *)
(* commit.  A step of a thread is one of these, or one file operation.     *)
(*                                                                         *)
(* Permissions and ACLs decide whether a request is served, not what it    *)
(* does; a refused request changes nothing and is no step here.  Owners    *)
(* are left out for the same reason.  A content is its size, so that equal *)
(* hashes mean equal contents.                                             *)
(***************************************************************************)
EXTENDS Integers, Sequences, FiniteSets, FiniteSetsExt, SequencesExt

CONSTANTS
  Threads,      \* connection threads
  Segments,     \* names of files and directories
  MaxDepth,     \* bound: length of the paths that requests name
  Contents,     \* plaintexts, each named by its size in bytes
  Careful,      \* clients do not use a file as a directory, nor move a
                \* directory into itself
  MaxRequests,  \* bound: requests of a behaviour
  MaxFails,     \* bound: database errors
  MaxCrashes    \* bound: restarts

ASSUME VfsAssumption ==
  /\ Contents \subseteq Nat
  /\ MaxDepth \in Nat /\ MaxRequests \in Nat /\ MaxFails \in Nat /\ MaxCrashes \in Nat
  /\ Careful \in BOOLEAN

VARIABLES
  inodes,    \* id -> row of inodes
  meta,      \* id -> row of file_meta
  disk,      \* blob name -> content: the files of data/encrypted
  lastInode, \* AUTOINCREMENT counter of inodes
  lastBlob,  \* blob names (UUIDs) drawn
  swept,     \* history: blobs whose file went away with a directory
  thread,    \* what each thread is doing
  requests, fails, crashes  \* counters the bounds limit

tables == <<inodes, meta, lastInode>>
blobs == <<disk, lastBlob, swept>>
counters == <<requests, fails, crashes>>
vars == <<tables, blobs, thread, counters>>

None == 0
RootId == 1
RootName == "/"

\* dsize is dir_size_bytes; the parent of the root is None (SQL NULL).
Inode == [name: Segments \cup {RootName}, parent: Nat, dir: BOOLEAN, dsize: Int]
Meta == [blob: Nat, size: Nat, hash: Nat]

Paths == UNION {[1 .. n -> Segments] : n \in 0 .. MaxDepth}

Pcs == {"idle", "mkdir_look", "mkdir_make",
        "send_look", "send_blob", "send_inode", "send_newmeta",
        "send_meta", "send_unlink", "send_oldsize", "send_update", "send_point",
        "rm_meta", "rm_unlink", "rm_read", "rm_delete",
        "mv_dst", "mv_exists", "mv_read", "mv_write", "stuck"}

\* node is the inode the request is about, parent and name the place it goes to;
\* old and size are what was read and is used later.
NoInode == [name |-> RootName, parent |-> None, dir |-> TRUE, dsize |-> 0]
ThreadState ==
  [pc: Pcs, path: Paths, node: Nat, parent: Nat, name: Segments \cup {RootName},
   content: Contents \cup {0}, overwrite: BOOLEAN, blob: Nat, old: Nat, size: Int]

Idle == [pc |-> "idle", path |-> <<>>, node |-> None, parent |-> None,
         name |-> RootName, content |-> 0, overwrite |-> FALSE,
         blob |-> None, old |-> None, size |-> 0]

\* What the tables, the blob directory and the handlers' local variables can hold:
\* metadata belongs to rows that exist (its foreign key), ids and blob names have
\* been handed out, the root stays.
TypeOK ==
  /\ \A i \in DOMAIN inodes : inodes[i] \in Inode
  /\ DOMAIN inodes \subseteq 1 .. lastInode /\ RootId \in DOMAIN inodes
  /\ DOMAIN meta \subseteq DOMAIN inodes
  /\ \A i \in DOMAIN meta : meta[i] \in Meta
  /\ DOMAIN disk \subseteq 1 .. lastBlob
  /\ \A b \in DOMAIN disk : disk[b] \in Contents
  /\ lastInode \in Nat /\ lastBlob \in Nat /\ swept \subseteq 1 .. lastBlob
  /\ thread \in [Threads -> ThreadState]
  /\ requests \in Nat /\ fails \in Nat /\ crashes \in Nat

\* A new installation: ensure_root has made the root.
Init ==
  /\ inodes = [i \in {RootId} |-> NoInode]
  /\ meta = <<>> /\ disk = <<>> /\ swept = {}
  /\ lastInode = RootId /\ lastBlob = 0
  /\ thread = [t \in Threads |-> Idle]
  /\ requests = 0 /\ fails = 0 /\ crashes = 0

-----------------------------------------------------------------------------
(* The tree                                                                *)

Child(p, n) ==
  IF \E i \in DOMAIN inodes : inodes[i].parent = p /\ inodes[i].name = n
  THEN CHOOSE i \in DOMAIN inodes : inodes[i].parent = p /\ inodes[i].name = n
  ELSE None

\* resolve_path: one lookup per segment, starting from the root.
Walks(path) ==
  {w \in [1 .. Len(path) -> DOMAIN inodes] :
     \A k \in 1 .. Len(path) : w[k] = Child(IF k = 1 THEN RootId ELSE w[k - 1], path[k])}

Resolve(path) ==
  LET walks == Walks(path)
  IN IF path = <<>> THEN RootId
     ELSE IF walks = {} THEN None ELSE (CHOOSE w \in walks : TRUE)[Len(path)]

IsDir(i) == i \in DOMAIN inodes /\ inodes[i].dir

\* i and everything above it that exists in the table ino: what is in every set that
\* holds i and, with a row, its parent.
Closed(ino, S) == \A k \in S : ino[k].parent \in DOMAIN ino => ino[k].parent \in S

UpFrom(ino, i) ==
  LET closed == {S \in {R \cup {i} : R \in SUBSET (DOMAIN ino \ {i})} : Closed(ino, S)}
  IN {j \in DOMAIN ino : i \in DOMAIN ino /\ \A S \in closed : j \in S}

Below(ino, i) == {j \in DOMAIN ino : i \in UpFrom(ino, j)}

\* _adjust_ancestor_sizes walks up from `start` until a parent is missing; on a
\* cycle it does not end.
Endless(ino, start) ==
  LET up == UpFrom(ino, start)
  IN up # {} /\ \A j \in up : ino[j].parent \in up

Adjusted(ino, start, delta) ==
  LET up == IF delta = 0 THEN {} ELSE UpFrom(ino, start)
  IN [j \in DOMAIN ino |-> [ino[j] EXCEPT !.dsize = IF j \in up THEN @ + delta ELSE @]]

\* Mutant: the table has no UNIQUE(parent_id, name).
MayPut_NotUnique(i, p, n) == p \in DOMAIN inodes

\* The constraints of the table: the parent exists, UNIQUE(parent_id, name); i is
\* the row that is to be there.
MayPut(i, p, n) == p \in DOMAIN inodes /\ Child(p, n) \in {None, i}

NewInode(p, n, dir) ==
  [i \in DOMAIN inodes \cup {lastInode + 1} |->
     IF i = lastInode + 1 THEN [name |-> n, parent |-> p, dir |-> dir, dsize |-> 0]
     ELSE inodes[i]]

\* size_bytes of a file, dir_size_bytes of a directory.
Weight(i) ==
  IF inodes[i].dir THEN inodes[i].dsize
  ELSE IF i \in DOMAIN meta THEN meta[i].size ELSE 0

-----------------------------------------------------------------------------
(* Threads                                                                 *)

Become(t, st) == thread' = [thread EXCEPT ![t] = st]
Goto(t, pc) == Become(t, [thread[t] EXCEPT !.pc = pc])
Reply(t) == Become(t, Idle)

\* No thread sits on SQLite's write lock.
Writable == \A t \in Threads : thread[t].pc # "stuck"

Arrive(t) ==
  /\ thread[t].pc = "idle"
  /\ requests < MaxRequests /\ requests' = requests + 1
  /\ UNCHANGED <<tables, blobs, fails, crashes>>

Reading == UNCHANGED <<tables, blobs, counters>>

\* A transaction leaves the rows ino and met, then walks up from two places, or one, to
\* adjust the sizes and commits; a walk that never ends keeps the transaction open.
Nowhere == [at |-> None, by |-> 0]

Commit(t, ino, met, first, second, st) ==
  IF \E d \in {first, second} : d.by # 0 /\ Endless(ino, d.at)
  THEN Goto(t, "stuck") /\ UNCHANGED <<inodes, meta>>
  ELSE /\ inodes' = Adjusted(Adjusted(ino, first.at, first.by), second.at, second.by)
       /\ meta' = met
       /\ Become(t, st)

-----------------------------------------------------------------------------
(* mkdir: walk down from the root, creating what is missing                *)

StartMkdir(t, path) ==
  /\ path # <<>>
  /\ Become(t, [Idle EXCEPT !.pc = "mkdir_look", !.path = path, !.parent = RootId])

\* NotADirectoryError.
Blocked(i) == ~IsDir(i)

MkdirLook(t) ==
  /\ thread[t].pc = "mkdir_look"
  /\ LET st == thread[t]
         c == Child(st.parent, Head(st.path))
     IN IF c = None THEN Goto(t, "mkdir_make")
        ELSE IF Blocked(c) \/ Len(st.path) = 1 THEN Reply(t)
        ELSE Become(t, [st EXCEPT !.parent = c, !.path = Tail(st.path)])
  /\ Reading

MkdirMake(t) ==
  /\ thread[t].pc = "mkdir_make" /\ Writable
  /\ LET st == thread[t]
         n == Head(st.path)
     IN IF ~MayPut(None, st.parent, n) THEN Reply(t) /\ UNCHANGED tables
        ELSE /\ inodes' = NewInode(st.parent, n, TRUE)
             /\ lastInode' = lastInode + 1
             /\ UNCHANGED meta
             /\ IF Len(st.path) = 1 THEN Reply(t)
                ELSE Become(t, [st EXCEPT !.pc = "mkdir_look", !.parent = lastInode + 1,
                                          !.path = Tail(st.path)])
  /\ UNCHANGED <<blobs, counters>>

-----------------------------------------------------------------------------
(* send                                                                    *)

\* resolve_parent; whether the parent is a directory is not looked at.
StartSend(t, path) ==
  /\ path # <<>>
  /\ LET p == Resolve(Front(path))
     IN /\ p # None
        /\ Careful => IsDir(p)
        /\ \E c \in Contents, overwrite \in BOOLEAN :
             Become(t, [Idle EXCEPT !.pc = "send_look", !.path = path, !.parent = p,
                          !.name = Last(path), !.content = c, !.overwrite = overwrite])

\* Is there something at the path already?
SendLook(t) ==
  /\ thread[t].pc = "send_look"
  /\ LET st == thread[t]
         existing == Resolve(st.path)
     IN IF IsDir(existing) \/ (existing # None /\ ~st.overwrite) THEN Reply(t)
        ELSE Become(t, [st EXCEPT !.pc = "send_blob", !.path = <<>>, !.node = existing])
  /\ Reading

\* The plaintext is encrypted into a blob with a fresh name.
WriteBlob(t) ==
  /\ thread[t].pc = "send_blob"
  /\ lastBlob' = lastBlob + 1
  /\ disk' = [b \in DOMAIN disk \cup {lastBlob + 1} |->
                IF b = lastBlob + 1 THEN thread[t].content ELSE disk[b]]
  /\ Become(t, [thread[t] EXCEPT !.blob = lastBlob + 1,
                  !.pc = IF thread[t].node = None THEN "send_inode" ELSE "send_meta"])
  /\ UNCHANGED <<tables, swept, counters>>

\* A new file: create_inode, and in a second transaction create_file_meta.
InsertFile(t) ==
  /\ thread[t].pc = "send_inode" /\ Writable
  /\ LET st == thread[t]
     IN IF ~MayPut(None, st.parent, st.name) THEN Reply(t) /\ UNCHANGED tables
        ELSE /\ inodes' = NewInode(st.parent, st.name, FALSE)
             /\ lastInode' = lastInode + 1
             /\ UNCHANGED meta
             /\ Become(t, [st EXCEPT !.pc = "send_newmeta", !.node = lastInode + 1])
  /\ UNCHANGED <<blobs, counters>>

InsertMeta(t) ==
  /\ thread[t].pc = "send_newmeta" /\ Writable
  /\ LET st == thread[t]
         row == [blob |-> st.blob, size |-> st.content, hash |-> st.content]
         met == [i \in DOMAIN meta \cup {st.node} |-> IF i = st.node THEN row ELSE meta[i]]
     IN IF st.node \notin DOMAIN inodes THEN Reply(t) /\ UNCHANGED <<inodes, meta>>
        ELSE Commit(t, inodes, met, [at |-> inodes[st.node].parent, by |-> st.content], Nowhere, Idle)
  /\ UNCHANGED <<lastInode, blobs, counters>>

\* An overwrite: which blob does the file have now?
ReadOldBlob(t) ==
  /\ thread[t].pc = "send_meta"
  /\ LET st == thread[t]
     IN IF st.node \in DOMAIN meta
        THEN Become(t, [st EXCEPT !.pc = "send_unlink", !.old = meta[st.node].blob])
        ELSE Goto(t, "send_oldsize")
  /\ Reading

\* Mutant: the old blob stays.
Unlink_Never(b) == UNCHANGED disk

Unlink(b) == disk' = [c \in DOMAIN disk \ {b} |-> disk[c]]

UnlinkOld(t) ==
  /\ thread[t].pc = "send_unlink"
  /\ Unlink(thread[t].old)
  /\ Become(t, [thread[t] EXCEPT !.pc = "send_oldsize", !.old = None])
  /\ UNCHANGED <<tables, lastBlob, swept, counters>>

\* update_file_meta_size: the SELECT of the old size, then the transaction.
ReadOldSize(t) ==
  /\ thread[t].pc = "send_oldsize"
  /\ LET st == thread[t]
     IN Become(t, [st EXCEPT !.pc = "send_update",
                     !.size = IF st.node \in DOMAIN meta THEN meta[st.node].size ELSE 0])
  /\ Reading

\* Mutant: the directories get the new size on top of the old one.
Delta_Full(st) == st.content

Delta(st) == st.content - st.size

UpdateSize(t) ==
  /\ thread[t].pc = "send_update" /\ Writable
  /\ LET st == thread[t]
         met == IF st.node \in DOMAIN meta
                THEN [meta EXCEPT ![st.node].size = st.content, ![st.node].hash = st.content]
                ELSE meta
         up == IF st.node \in DOMAIN inodes THEN inodes[st.node].parent ELSE None
     IN Commit(t, inodes, met, [at |-> up, by |-> Delta(st)], Nowhere,
               [st EXCEPT !.pc = "send_point", !.size = 0])
  /\ UNCHANGED <<lastInode, blobs, counters>>

\* Mutant: the row keeps the name of the old blob.
PointMeta_Skip(t) ==
  /\ thread[t].pc = "send_point" /\ Writable
  /\ Reply(t)
  /\ UNCHANGED <<tables, blobs, counters>>

\* A last transaction points the row to the new blob.
PointMeta(t) ==
  /\ thread[t].pc = "send_point" /\ Writable
  /\ LET st == thread[t]
     IN meta' = IF st.node \in DOMAIN meta
                THEN [meta EXCEPT ![st.node].blob = st.blob] ELSE meta
  /\ Reply(t)
  /\ UNCHANGED <<inodes, lastInode, blobs, counters>>

-----------------------------------------------------------------------------
(* rm: the blob first, then the rows                                       *)

StartRm(t, path) ==
  /\ path # <<>>
  /\ LET i == Resolve(path)
     IN /\ i # None
        /\ Become(t, [Idle EXCEPT !.pc = IF IsDir(i) THEN "rm_read" ELSE "rm_meta",
                                  !.node = i])

RmMeta(t) ==
  /\ thread[t].pc = "rm_meta"
  /\ LET st == thread[t]
     IN IF st.node \in DOMAIN meta
        THEN Become(t, [st EXCEPT !.pc = "rm_unlink", !.old = meta[st.node].blob])
        ELSE Goto(t, "rm_read")
  /\ Reading

RmUnlink(t) ==
  /\ thread[t].pc = "rm_unlink"
  /\ Unlink(thread[t].old)
  /\ Become(t, [thread[t] EXCEPT !.pc = "rm_read", !.old = None])
  /\ UNCHANGED <<tables, lastBlob, swept, counters>>

\* delete_inode and move_inode read the parent and the size before they write
\* (two SELECTs, taken as one).
ReadWeight(t, to) ==
  LET st == thread[t]
  IN IF st.node \notin DOMAIN inodes THEN Reply(t)
     ELSE Become(t, [st EXCEPT !.pc = to, !.old = inodes[st.node].parent,
                               !.size = Weight(st.node)])

\* Sizes that are not positive are not carried up.
Counted(st) == IF st.size > 0 THEN st.size ELSE 0

\* First inode_path walks up for the audit entry; on a cycle it does not return.
RmRead(t) ==
  /\ thread[t].pc = "rm_read"
  /\ ~Endless(inodes, thread[t].node)
  /\ ReadWeight(t, "rm_delete")
  /\ Reading

\* Mutant: PRAGMA foreign_keys is off.
Cascade_Off(i) == {i} \cap DOMAIN inodes

Cascade(i) == IF i \in DOMAIN inodes THEN Below(inodes, i) ELSE {}

\* DELETE cascades to the rows below and to their metadata.
RmDelete(t) ==
  /\ thread[t].pc = "rm_delete" /\ Writable
  /\ LET st == thread[t]
         gone == Cascade(st.node)
         left == [i \in DOMAIN inodes \ gone |-> inodes[i]]
         met == [i \in DOMAIN meta \ gone |-> meta[i]]
         up == IF gone = {} THEN None ELSE st.old
     IN /\ Commit(t, left, met, [at |-> up, by |-> -Counted(st)], Nowhere, Idle)
        /\ swept' = IF meta' = meta THEN swept
                    ELSE swept \cup {meta[i].blob : i \in (gone \ {st.node}) \cap DOMAIN meta}
  /\ UNCHANGED <<lastInode, disk, lastBlob, counters>>

-----------------------------------------------------------------------------
(* mv                                                                      *)

StartMv(t, src) ==
  /\ src # <<>>
  /\ LET i == Resolve(src)
     IN /\ i # None
        /\ \E dst \in Paths :
             /\ Careful => ~IsPrefix(src, dst)
             /\ Become(t, [Idle EXCEPT !.pc = "mv_dst", !.path = dst, !.node = i,
                                       !.name = Last(src)])

\* Into an existing directory under the old name, or to a place in the parent.
MvDst(t) ==
  /\ thread[t].pc = "mv_dst"
  /\ LET st == thread[t]
         d == Resolve(st.path)
         p == IF st.path = <<>> THEN None ELSE Resolve(Front(st.path))
     IN IF IsDir(d)
        THEN Become(t, [st EXCEPT !.pc = "mv_exists", !.path = <<>>, !.parent = d])
        ELSE IF p = None \/ (Careful /\ ~IsDir(p)) THEN Reply(t)
        ELSE Become(t, [st EXCEPT !.pc = "mv_exists", !.path = <<>>, !.parent = p,
                                  !.name = Last(st.path)])
  /\ Reading

MvExists(t) ==
  /\ thread[t].pc = "mv_exists"
  /\ IF Child(thread[t].parent, thread[t].name) # None THEN Reply(t) ELSE Goto(t, "mv_read")
  /\ Reading

MvRead(t) == thread[t].pc = "mv_read" /\ ReadWeight(t, "mv_write") /\ Reading

\* UPDATE, then the sizes above the old and the new parent; if the new parent is
\* below the node, walking up never ends and the transaction stays open.
MvWrite(t) ==
  /\ thread[t].pc = "mv_write" /\ Writable
  /\ LET st == thread[t]
         ok == st.node \in DOMAIN inodes /\ MayPut(st.node, st.parent, st.name)
         moved == [inodes EXCEPT ![st.node].parent = st.parent, ![st.node].name = st.name]
     IN IF ok
        THEN Commit(t, moved, meta, [at |-> st.old, by |-> -Counted(st)],
                    [at |-> st.parent, by |-> Counted(st)], Idle)
        ELSE Reply(t) /\ UNCHANGED <<inodes, meta>>
  /\ UNCHANGED <<lastInode, blobs, counters>>

-----------------------------------------------------------------------------
(* Errors                                                                  *)

DatabasePcs == Pcs \ {"idle", "send_blob", "send_unlink", "rm_unlink", "stuck"}
WritePcs == {"mkdir_make", "send_inode", "send_newmeta", "send_update", "send_point",
             "rm_delete", "mv_write"}

\* A statement fails and its transaction is rolled back; the handler gives up
\* and leaves what it did before.
Fail(t) ==
  /\ fails < MaxFails /\ fails' = fails + 1
  /\ thread[t].pc \in DatabasePcs
  /\ Reply(t)
  /\ UNCHANGED <<tables, blobs, requests, crashes>>

\* The write lock is held for more than SQLite's timeout of five seconds.
Busy(t) ==
  /\ ~Writable /\ thread[t].pc \in WritePcs
  /\ Reply(t)
  /\ Reading

Crash ==
  /\ crashes < MaxCrashes /\ crashes' = crashes + 1
  /\ thread' = [t \in Threads |-> Idle]
  /\ UNCHANGED <<tables, blobs, requests, fails>>

-----------------------------------------------------------------------------

Start(t) ==
  /\ Arrive(t)
  /\ \E path \in Paths :
       StartMkdir(t, path) \/ StartSend(t, path) \/ StartRm(t, path) \/ StartMv(t, path)

Serve(t) ==
  \/ MkdirLook(t) \/ MkdirMake(t)
  \/ SendLook(t) \/ WriteBlob(t) \/ InsertFile(t) \/ InsertMeta(t)
  \/ ReadOldBlob(t) \/ UnlinkOld(t) \/ ReadOldSize(t) \/ UpdateSize(t) \/ PointMeta(t)
  \/ RmMeta(t) \/ RmUnlink(t) \/ RmRead(t) \/ RmDelete(t)
  \/ MvDst(t) \/ MvExists(t) \/ MvRead(t) \/ MvWrite(t)

Step(t) == Start(t) \/ Serve(t) \/ Fail(t) \/ Busy(t)

Next == (\E t \in Threads : Step(t)) \/ Crash

Spec == Init /\ [][Next]_vars

-----------------------------------------------------------------------------
(* What the filesystem promises                                            *)

Quiet == \A t \in Threads : thread[t].pc = "idle"
Place(row) == <<row.parent, row.name>>
FileIds == {i \in DOMAIN inodes : ~inodes[i].dir}

\* Every file can be fetched when no request is running: it has metadata, and
\* the blob the metadata names is on disk (_vfs_fetch).
EveryFileReadable ==
  Quiet => \A i \in FileIds : i \in DOMAIN meta /\ meta[i].blob \in DOMAIN disk

\* The recorded size and hash are those of the blob the row names
\* (INTERNALS.md, "content_hash (SHA-256 of plaintext)").
MetaMatchesBlob ==
  Quiet => \A i \in DOMAIN meta :
             meta[i].blob \in DOMAIN disk =>
               meta[i].hash = disk[meta[i].blob] /\ meta[i].size = disk[meta[i].blob]

\* Unless a request was cut short: a file that was left without metadata is counted,
\* too, by the next upload that replaces it, and that upload leaves a blob behind.
Undisturbed == fails = 0 /\ crashes = 0

\* dir_size_bytes is the sum of the sizes of the files below
\* (INTERNALS.md, "stat on a directory is O(1) and always current").
DirSizeExact ==
  Quiet /\ Undisturbed => \A d \in DOMAIN inodes : inodes[d].dir =>
             inodes[d].dsize = MapThenSumSet(LAMBDA i : meta[i].size,
                                             Below(inodes, d) \cap DOMAIN meta)

\* The inodes form one tree under the root (INTERNALS.md, "A Unix-style inode
\* tree"): nothing is cut off from it by a cycle.
TreeRooted == \A i \in DOMAIN inodes : RootId \in UpFrom(inodes, i)

\* Whatever requests overlap, a path names at most one inode, and what holds an
\* inode exists (the checks of mkdir, send and mv may be out of date; what is
\* left are the constraints of the table).
PathsUnambiguous ==
  \A i \in DOMAIN inodes \ {RootId} :
    /\ inodes[i].parent \in DOMAIN inodes
    /\ \A j \in DOMAIN inodes : Place(inodes[j]) = Place(inodes[i]) => j = i

\* Only directories hold anything (INTERNALS.md, "Files are organized into
\* directories").
ParentsAreDirs == \A i \in DOMAIN inodes \ {RootId} : IsDir(inodes[i].parent)

\* A blob on disk belongs to a file when no request is running, unless its file went
\* away with a directory (_vfs_rm only unlinks the blob of the node itself).
References == {meta[i].blob : i \in DOMAIN meta}
OrphansOnlyFromDirs ==
  Quiet /\ Undisturbed => DOMAIN disk \ swept = References

\* What is in the tables stays well formed and a path names one inode, whatever overlaps.
TablesTypeOK == TypeOK /\ PathsUnambiguous

\* Unless a request was cut short, every file can be read, whatever overlaps.
FilesReadable == Undisturbed => EveryFileReadable

=============================================================================
