----------------------------- MODULE VfsProofs -----------------------------
(***************************************************************************)
(* Proofs about Vfs, for any number of threads, requests, errors and       *)
(* crashes and for any trees.  Whatever requests overlap, the tables stay  *)
(* well formed, a path names one inode, and a file is readable unless a    *)
(* request was cut short.  When requests do not overlap, rows and blobs    *)
(* describe each other, and with careful clients the inodes are one tree   *)
(* and the size recorded for a directory is that of the files below it.    *)
(***************************************************************************)
EXTENDS VfsMC, SequenceTheorems, FiniteSetTheorems, TLAPS

-----------------------------------------------------------------------------
(* Paths                                                                   *)

LEMMA PathFacts ==
  ASSUME NEW path \in Paths
  PROVE  /\ path \in Seq(Segments) /\ Len(path) \in 0 .. MaxDepth
         /\ path # <<>> => /\ Len(path) \in Nat \ {0} /\ Head(path) \in Segments /\ Last(path) \in Segments
                           /\ Tail(path) \in Paths /\ Front(path) \in Paths
                           /\ (Tail(path) = <<>> <=> Len(path) = 1)
<1>1. PICK n \in 0 .. MaxDepth : path \in [1 .. n -> Segments]
  BY DEF Paths
<1>2. n \in Nat /\ MaxDepth \in Nat
  BY <1>1, VfsAssumption
<1>3. path \in Seq(Segments) /\ Len(path) = n
  BY <1>1, <1>2, SeqDef, LenProperties
<1>4. ASSUME path # <<>>
      PROVE  /\ n # 0 /\ Head(path) \in Segments /\ Last(path) \in Segments
             /\ Tail(path) \in Paths /\ Front(path) \in Paths /\ (Tail(path) = <<>> <=> n = 1)
  <2>1. n # 0
    BY <1>3, <1>4, EmptySeq
  <2>2. Head(path) \in Segments /\ Last(path) \in Segments
    BY <1>1, <1>2, <1>3, <2>1 DEF Last
  <2>3. Tail(path) \in Seq(Segments) /\ Len(Tail(path)) = n - 1
    BY <1>3, <1>4, HeadTailProperties
  <2>4. Front(path) \in [1 .. n - 1 -> Segments]
    <3>1. \A i \in 1 .. n - 1 : path[i] \in Segments
      BY <1>1, <1>2
    <3> HIDE <1>1
    <3>2. Front(path) = SubSeq(path, 1, n - 1) /\ n - 1 \in 0 .. n
      BY <1>2, <1>3, <2>1 DEF Front
    <3>3. Front(path) \in Seq(Segments) /\ Len(Front(path)) = n - 1
      BY <1>2, <1>3, <2>1, <3>2, SubSeqProperties
    <3> QED BY <3>3, LenProperties
  <2>5. Tail(path) \in [1 .. n - 1 -> Segments]
    BY <2>3, LenProperties
  <2>6. n - 1 \in 0 .. MaxDepth
    BY <1>1, <1>2, <2>1
  <2>7. Tail(path) = <<>> <=> n = 1
    BY <1>2, <2>3, EmptySeq
  <2> QED BY <2>1, <2>2, <2>4, <2>5, <2>6, <2>7 DEF Paths
<1> QED BY <1>1, <1>2, <1>3, <1>4

-----------------------------------------------------------------------------
(* The tables                                                              *)

\* The rows of inodes, for a counter that stands at last.
TreeOK(ino, last) ==
  /\ \A i \in DOMAIN ino : ino[i] \in Inode
  /\ DOMAIN ino \subseteq 1 .. last /\ RootId \in DOMAIN ino /\ ino[RootId].parent = None
  /\ \A i \in DOMAIN ino \ {RootId} :
       /\ ino[i].parent \in DOMAIN ino
       /\ \A j \in DOMAIN ino : Place(ino[j]) = Place(ino[i]) => j = i

\* What the schema of the database and the draw of blob names keep.
TablesOK ==
  /\ TreeOK(inodes, lastInode) /\ lastInode \in Nat
  /\ DOMAIN meta \subseteq DOMAIN inodes /\ \A i \in DOMAIN meta : meta[i] \in Meta
  /\ DOMAIN disk \subseteq 1 .. lastBlob /\ \A b \in DOMAIN disk : disk[b] \in Contents
  /\ lastBlob \in Nat /\ swept \subseteq 1 .. lastBlob
  /\ \A i \in DOMAIN meta : meta[i].blob \in 1 .. lastBlob

\* The same rows but for dir_size_bytes.
SameRows(new, old) ==
  /\ DOMAIN new = DOMAIN old
  /\ \A i \in DOMAIN old : /\ new[i] \in Inode
                           /\ new[i].name = old[i].name /\ new[i].parent = old[i].parent
                           /\ new[i].dir = old[i].dir

LEMMA AdjustedRows ==
  ASSUME NEW ino, \A i \in DOMAIN ino : ino[i] \in Inode, NEW start, NEW delta \in Int
  PROVE  SameRows(Adjusted(ino, start, delta), ino)
<1> DEFINE up == IF delta = 0 THEN {} ELSE UpFrom(ino, start)
<1> HIDE DEF up
<1>1. Adjusted(ino, start, delta) =
        [j \in DOMAIN ino |-> [ino[j] EXCEPT !.dsize = IF j \in up THEN @ + delta ELSE @]]
  BY DEF Adjusted, up
<1>2. ASSUME NEW r \in Inode, NEW d \in Int
      PROVE  LET new == [r EXCEPT !.dsize = d]
             IN new \in Inode /\ new.name = r.name /\ new.parent = r.parent /\ new.dir = r.dir
  BY DEF Inode
<1>3. \A j \in DOMAIN ino : (IF j \in up THEN ino[j].dsize + delta ELSE ino[j].dsize) \in Int
  BY DEF Inode
<1>4. ASSUME NEW j \in DOMAIN ino
      PROVE  LET new == Adjusted(ino, start, delta)[j]
             IN new \in Inode /\ new.name = ino[j].name /\ new.parent = ino[j].parent /\ new.dir = ino[j].dir
  <2>1. Adjusted(ino, start, delta)[j] =
          [ino[j] EXCEPT !.dsize = IF j \in up THEN ino[j].dsize + delta ELSE ino[j].dsize]
    BY <1>1
  <2> QED BY <1>2, <1>3, <2>1
<1>5. DOMAIN Adjusted(ino, start, delta) = DOMAIN ino
  BY <1>1
<1> QED BY <1>4, <1>5 DEF SameRows

LEMMA SameTree ==
  ASSUME NEW new, NEW old, NEW last, SameRows(new, old), TreeOK(old, last)
  PROVE  TreeOK(new, last)
BY DEF SameRows, TreeOK, Place

\* What a transaction can come to.
LEMMA CommitStep ==
  ASSUME NEW t, NEW ino, \A i \in DOMAIN ino : ino[i] \in Inode, NEW met, NEW first, NEW second, NEW st,
         first.by \in Int, second.by \in Int, Commit(t, ino, met, first, second, st)
  PROVE  \/ Goto(t, "stuck") /\ UNCHANGED <<inodes, meta>>
         \/ SameRows(inodes', ino) /\ meta' = met /\ Become(t, st)
<1>1. \/ Goto(t, "stuck") /\ UNCHANGED <<inodes, meta>>
      \/ /\ inodes' = Adjusted(Adjusted(ino, first.at, first.by), second.at, second.by)
         /\ meta' = met /\ Become(t, st)
  BY DEF Commit
<1> DEFINE once == Adjusted(ino, first.at, first.by)
<1>2. SameRows(once, ino)
  BY AdjustedRows
<1> HIDE DEF once
<1>3. SameRows(Adjusted(once, second.at, second.by), once)
  BY <1>2, AdjustedRows DEF SameRows
<1>4. SameRows(Adjusted(once, second.at, second.by), ino)
  BY <1>2, <1>3 DEF SameRows
<1> QED BY <1>1, <1>4 DEF once

LEMMA ChildFacts ==
  ASSUME TreeOK(inodes, lastInode), lastInode \in Nat, NEW p, NEW n
  PROVE  \/ Child(p, n) = None /\ \A i \in DOMAIN inodes : ~(inodes[i].parent = p /\ inodes[i].name = n)
         \/ /\ Child(p, n) \in DOMAIN inodes /\ Child(p, n) # None
            /\ inodes[Child(p, n)].parent = p /\ inodes[Child(p, n)].name = n
<1>1. None \notin DOMAIN inodes
  BY DEF TreeOK, None
<1>2. CASE \E i \in DOMAIN inodes : inodes[i].parent = p /\ inodes[i].name = n
  BY <1>1, <1>2 DEF Child
<1>3. CASE ~ \E i \in DOMAIN inodes : inodes[i].parent = p /\ inodes[i].name = n
  BY <1>3 DEF Child
<1> QED BY <1>2, <1>3

\* A path leads to an inode or to none; only the empty one leads to the root.
LEMMA ResolveFacts ==
  ASSUME TreeOK(inodes, lastInode), lastInode \in Nat, NEW path \in Paths
  PROVE  /\ Resolve(path) \in DOMAIN inodes \cup {None}
         /\ path # <<>> => Resolve(path) # RootId
<1>1. RootId \in DOMAIN inodes /\ None \notin DOMAIN inodes /\ inodes[RootId].parent = None /\ None # RootId
  BY DEF TreeOK, None, RootId
<1>2. CASE path = <<>>
  BY <1>1, <1>2 DEF Resolve
<1>3. CASE path # <<>> /\ Walks(path) = {}
  BY <1>1, <1>3 DEF Resolve
<1>4. CASE path # <<>> /\ Walks(path) # {}
  <2>1. PICK w \in Walks(path) : Resolve(path) = w[Len(path)]
    BY <1>4 DEF Resolve
  <2>2. Len(path) \in Nat \ {0} /\ Len(path) \in 1 .. Len(path)
    BY <1>4, PathFacts
  <2> DEFINE k == Len(path)
             p == IF k = 1 THEN RootId ELSE w[k - 1]
  <2>3. w \in [1 .. k -> DOMAIN inodes] /\ w[k] = Child(p, path[k])
    BY <2>2 DEF Walks
  <2>4. p \in DOMAIN inodes
    <3>1. \A m \in Nat \ {0} : m # 1 => m - 1 \in 1 .. m
      OBVIOUS
    <3>2. k # 1 => w[k - 1] \in DOMAIN inodes
      BY <2>2, <2>3, <3>1
    <3> QED BY <1>1, <3>2
  <2>5. w[k] \in DOMAIN inodes
    BY <2>2, <2>3
  <2> HIDE DEF p
  <2>6. inodes[w[k]].parent = p
    BY <1>1, <2>3, <2>5, ChildFacts
  <2> QED BY <1>1, <2>1, <2>4, <2>5, <2>6
<1> QED BY <1>2, <1>3, <1>4

\* A new row in a place that is free.
LEMMA NewInodeTree ==
  ASSUME TreeOK(inodes, lastInode), lastInode \in Nat, NEW p, NEW n \in Segments \cup {RootName},
         NEW dir \in BOOLEAN, MayPut(None, p, n)
  PROVE  /\ TreeOK(NewInode(p, n, dir), lastInode + 1)
         /\ DOMAIN NewInode(p, n, dir) = DOMAIN inodes \cup {lastInode + 1}
         /\ lastInode + 1 \notin DOMAIN inodes
         /\ NewInode(p, n, dir)[lastInode + 1].dir = dir
         /\ \A i \in DOMAIN inodes : NewInode(p, n, dir)[i] = inodes[i]
<1> DEFINE id == lastInode + 1
           row == [name |-> n, parent |-> p, dir |-> dir, dsize |-> 0]
           new == NewInode(p, n, dir)
<1>1. /\ id \in Nat /\ id # RootId /\ 1 .. lastInode \subseteq 1 .. id /\ id \in 1 .. id
      /\ id \notin 1 .. lastInode /\ RootId \in DOMAIN inodes
  BY DEF RootId, TreeOK
<1>2. id \notin DOMAIN inodes /\ DOMAIN inodes \subseteq 1 .. lastInode
  BY <1>1 DEF TreeOK
<1>3. p \in DOMAIN inodes /\ p \in Nat /\ \A i \in DOMAIN inodes : ~(inodes[i].parent = p /\ inodes[i].name = n)
  <2>1. p \in DOMAIN inodes /\ Child(p, n) = None
    BY DEF MayPut
  <2> QED BY <1>2, <2>1, ChildFacts
<1>4. row \in Inode /\ row.parent = p /\ row.name = n /\ row.dir = dir
  BY <1>3 DEF Inode
<1>5. new = [i \in DOMAIN inodes \cup {id} |-> IF i = id THEN row ELSE inodes[i]]
  BY DEF NewInode
<1> HIDE DEF id, row, new
<1>6. DOMAIN new = DOMAIN inodes \cup {id} /\ new[id] = row /\ \A i \in DOMAIN inodes : new[i] = inodes[i]
  BY <1>2, <1>5
<1>7. ASSUME NEW i \in DOMAIN new \ {RootId}, NEW j \in DOMAIN new, Place(new[j]) = Place(new[i])
      PROVE  new[i].parent \in DOMAIN new /\ j = i
  <2>1. new[j].parent = new[i].parent /\ new[j].name = new[i].name
    BY <1>7 DEF Place
  <2>2. CASE i = id
    BY <1>3, <1>4, <1>6, <2>1, <2>2
  <2>3. CASE i # id
    <3>1. i \in DOMAIN inodes /\ new[i] = inodes[i] /\ j # id
      BY <1>3, <1>4, <1>6, <2>1, <2>3
    <3> QED BY <1>6, <1>7, <3>1 DEF TreeOK
  <2> QED BY <2>2, <2>3
<1>8. \A i \in DOMAIN new \ {RootId} : new[i].parent \in DOMAIN new
  BY <1>7
<1>9. TreeOK(new, id)
  BY <1>1, <1>2, <1>4, <1>6, <1>7, <1>8 DEF TreeOK
<1> QED BY <1>2, <1>4, <1>6, <1>9 DEF id, new, row

\* What is above an inode is in every closed set that holds the inode.
LEMMA UpIsLeast ==
  ASSUME NEW ino, NEW i, NEW j \in UpFrom(ino, i),
         NEW S \in SUBSET DOMAIN ino, i \in S, Closed(ino, S)
  PROVE  j \in S
<1>1. S = (S \ {i}) \cup {i} /\ S \ {i} \in SUBSET (DOMAIN ino \ {i})
  OBVIOUS
<1>2. S \in {R \cup {i} : R \in SUBSET (DOMAIN ino \ {i})}
  BY <1>1
<1> QED BY <1>2 DEF UpFrom

\* What is below an inode: the inode, what it holds, and not the root.
LEMMA BelowFacts ==
  ASSUME NEW ino, NEW last, TreeOK(ino, last), last \in Nat, NEW i \in DOMAIN ino, i # RootId
  PROVE  /\ i \in Below(ino, i) /\ RootId \notin Below(ino, i) /\ Below(ino, i) \subseteq DOMAIN ino
         /\ \A j \in DOMAIN ino \ {RootId} : ino[j].parent \in Below(ino, i) => j \in Below(ino, i)
<1>1. i \in Below(ino, i)
  BY DEF Below, UpFrom
<1>2. RootId \notin Below(ino, i)
  <2>1. None \notin DOMAIN ino /\ ino[RootId].parent = None /\ RootId \in DOMAIN ino
    BY DEF TreeOK, None
  <2>2. {RootId} \in SUBSET DOMAIN ino /\ Closed(ino, {RootId})
    BY <2>1 DEF Closed
  <2>3. i \in UpFrom(ino, RootId) => i \in {RootId}
    BY <2>1, <2>2, UpIsLeast
  <2> QED BY <2>3 DEF Below
<1>3. ASSUME NEW j \in DOMAIN ino \ {RootId}, ino[j].parent \in Below(ino, i)
      PROVE  j \in Below(ino, i)
  <2>1. ino[j].parent \in DOMAIN ino /\ i \in UpFrom(ino, ino[j].parent)
    BY <1>3 DEF Below
  <2>2. ASSUME NEW S \in SUBSET DOMAIN ino, j \in S, Closed(ino, S) PROVE i \in S
    <3>1. ino[j].parent \in S
      BY <2>1, <2>2 DEF Closed
    <3> QED BY <2>1, <2>2, <3>1, UpIsLeast
  <2>3. i \in UpFrom(ino, j)
    BY <2>2 DEF UpFrom
  <2> QED BY <2>3 DEF Below
<1> QED BY <1>1, <1>2, <1>3 DEF Below

\* ON DELETE CASCADE leaves no row whose parent is gone.
LEMMA CascadeTree ==
  ASSUME TreeOK(inodes, lastInode), lastInode \in Nat, NEW i, i # RootId
  PROVE  LET gone == Cascade(i)
             left == [j \in DOMAIN inodes \ gone |-> inodes[j]]
         IN TreeOK(left, lastInode) /\ (i \in DOMAIN inodes => i \in gone) /\ (i \notin DOMAIN inodes => gone = {})
<1> DEFINE gone == Cascade(i)
           left == [j \in DOMAIN inodes \ gone |-> inodes[j]]
<1>1. CASE i \notin DOMAIN inodes
  <2>1. gone = {}
    BY <1>1 DEF Cascade
  <2>2. DOMAIN left = DOMAIN inodes /\ \A j \in DOMAIN left : left[j] = inodes[j]
    BY <2>1
  <2> HIDE DEF gone, left
  <2>3. TreeOK(left, lastInode)
    BY <2>2 DEF TreeOK
  <2> QED BY <1>1, <2>1, <2>3 DEF gone, left
<1>2. CASE i \in DOMAIN inodes
  <2>1. gone = Below(inodes, i)
    BY <1>2 DEF Cascade
  <2>2. /\ i \in gone /\ RootId \notin gone
        /\ \A j \in DOMAIN inodes \ {RootId} : inodes[j].parent \in gone => j \in gone
    BY <1>2, <2>1, BelowFacts
  <2> HIDE DEF gone
  <2>3. DOMAIN left = DOMAIN inodes \ gone /\ \A j \in DOMAIN left : left[j] = inodes[j]
    OBVIOUS
  <2> HIDE DEF left
  <2>4. TreeOK(left, lastInode)
    BY <2>2, <2>3 DEF TreeOK
  <2> QED BY <1>2, <2>2, <2>4 DEF gone, left
<1> QED BY <1>1, <1>2

\* UPDATE of a place that is free, or taken by the row itself.
LEMMA MovedTree ==
  ASSUME TreeOK(inodes, lastInode), lastInode \in Nat, NEW i \in DOMAIN inodes, i # RootId,
         NEW p, NEW n \in Segments \cup {RootName}, MayPut(i, p, n)
  PROVE  LET moved == [inodes EXCEPT ![i].parent = p, ![i].name = n]
         IN /\ TreeOK(moved, lastInode) /\ DOMAIN moved = DOMAIN inodes
            /\ \A j \in DOMAIN inodes : moved[j].dir = inodes[j].dir /\ (j # i => moved[j] = inodes[j])
            /\ moved[i].parent = p /\ moved[i].name = n
<1> DEFINE moved == [inodes EXCEPT ![i].parent = p, ![i].name = n]
<1>1. p \in DOMAIN inodes /\ p \in Nat /\ inodes[i] \in Inode
  BY DEF MayPut, TreeOK
<1>2. \A j \in DOMAIN inodes : inodes[j].parent = p /\ inodes[j].name = n => j = i
  <2> SUFFICES ASSUME NEW j \in DOMAIN inodes, inodes[j].parent = p, inodes[j].name = n PROVE j = i
    OBVIOUS
  <2>1. Child(p, n) \in {None, i}
    BY DEF MayPut
  <2>2. inodes[i].parent = p /\ inodes[i].name = n
    BY <2>1, ChildFacts
  <2> QED BY <2>2 DEF TreeOK, Place
<1>3. /\ DOMAIN moved = DOMAIN inodes /\ \A j \in DOMAIN inodes \ {i} : moved[j] = inodes[j]
      /\ moved[i] \in Inode /\ moved[i].parent = p /\ moved[i].name = n /\ moved[i].dir = inodes[i].dir
  BY <1>1 DEF Inode
<1> HIDE DEF moved
<1>4. ASSUME NEW j \in DOMAIN moved \ {RootId}, NEW k \in DOMAIN moved, Place(moved[k]) = Place(moved[j])
      PROVE  k = j
  <2>1. moved[k].parent = moved[j].parent /\ moved[k].name = moved[j].name
    BY <1>4 DEF Place
  <2>2. CASE j = i \/ k = i
    BY <1>2, <1>3, <2>1, <2>2
  <2>3. CASE j # i /\ k # i
    BY <1>3, <1>4, <2>3 DEF TreeOK
  <2> QED BY <2>2, <2>3
<1>5. \A j \in DOMAIN moved \ {RootId} : moved[j].parent \in DOMAIN moved
  BY <1>1, <1>3 DEF TreeOK
<1>6. TreeOK(moved, lastInode)
  BY <1>3, <1>4, <1>5 DEF TreeOK
<1> QED BY <1>3, <1>6 DEF moved

-----------------------------------------------------------------------------
(* Types                                                                   *)

\* From WriteBlob to PointMeta a thread has a blob of its own.
HoldPcs == {"send_inode", "send_newmeta", "send_meta", "send_unlink", "send_oldsize", "send_update",
            "send_point"}
NodePcs == {"rm_meta", "rm_unlink", "rm_read", "rm_delete", "mv_dst", "mv_exists", "mv_read", "mv_write"}

\* A path that is walked is not empty, an upload has a content, and nobody removes or
\* moves the root.
ThreadOK(st, last) ==
  /\ st \in ThreadState
  /\ st.pc \in {"mkdir_look", "mkdir_make", "send_look"} => st.path # <<>>
  /\ st.pc \in {"send_look", "send_blob"} => st.content \in Contents
  /\ st.pc \in HoldPcs => st.blob \in 1 .. last
  /\ st.pc \in NodePcs => st.node # RootId

ThreadsOK == thread \in [Threads -> ThreadState] /\ \A t \in Threads : ThreadOK(thread[t], lastBlob)
CountersOK == requests \in Nat /\ fails \in Nat /\ crashes \in Nat

TypeInv == TablesOK /\ ThreadsOK /\ CountersOK

LEMMA IdleType == \A last : ThreadOK(Idle, last) /\ Idle.pc = "idle"
<1>1. <<>> \in Paths
  <2>1. <<>> \in [1 .. 0 -> Segments] /\ 0 \in 0 .. MaxDepth
    BY VfsAssumption
  <2> QED BY <2>1 DEF Paths
<1>2. Idle \in ThreadState
  BY <1>1 DEF Idle, ThreadState, Pcs, None
<1>3. Idle.pc = "idle"
  BY DEF Idle
<1> QED BY <1>2, <1>3 DEF ThreadOK, HoldPcs, NodePcs

LEMMA TypeInit == Init => TypeInv
<1> SUFFICES ASSUME Init PROVE TypeInv
  OBVIOUS
<1>1. NoInode \in Inode /\ NoInode.parent = None
  BY DEF NoInode, Inode, None
<1>2. /\ DOMAIN inodes = {RootId} /\ inodes[RootId] = NoInode
      /\ meta = <<>> /\ disk = <<>> /\ swept = {} /\ lastInode = RootId /\ lastBlob = 0
  BY DEF Init
<1>3. DOMAIN meta = {} /\ DOMAIN disk = {} /\ RootId \in Nat /\ RootId \in 1 .. RootId /\ lastBlob \in Nat
  BY <1>2 DEF RootId
<1> HIDE DEF RootId, NoInode
<1>4. TreeOK(inodes, lastInode)
  BY <1>1, <1>2, <1>3 DEF TreeOK
<1>5. TablesOK
  BY <1>2, <1>3, <1>4 DEF TablesOK
<1>6. ThreadsOK /\ CountersOK
  <2>1. thread = [t \in Threads |-> Idle] /\ CountersOK
    BY DEF Init, CountersOK
  <2> HIDE DEF Idle
  <2>2. thread \in [Threads -> ThreadState]
    BY <2>1, IdleType DEF ThreadOK
  <2> QED BY <2>1, <2>2, IdleType DEF ThreadsOK
<1> QED BY <1>5, <1>6 DEF TypeInv

\* What an action has to show of the only thread that moves.
LEMMA ThreadStep ==
  ASSUME TypeInv, NEW t \in Threads, NEW st, Become(t, st), ThreadOK(st, lastBlob'),
         lastBlob' \in Nat, lastBlob <= lastBlob'
  PROVE  /\ ThreadsOK'
         /\ \A u \in Threads : thread'[u] = IF u = t THEN st ELSE thread[u]
<1>1. thread \in [Threads -> ThreadState] /\ lastBlob \in Nat
  BY DEF TypeInv, ThreadsOK, TablesOK
<1>2. thread' = [thread EXCEPT ![t] = st] /\ st \in ThreadState
  BY DEF Become, ThreadOK
<1>3. thread' \in [Threads -> ThreadState] /\ \A u \in Threads : thread'[u] = IF u = t THEN st ELSE thread[u]
  BY <1>1, <1>2
<1>4. \A u : ThreadOK(u, lastBlob) => ThreadOK(u, lastBlob')
  <2>1. 1 .. lastBlob \subseteq 1 .. lastBlob'
    BY <1>1
  <2> QED BY <2>1 DEF ThreadOK
<1> QED BY <1>3, <1>4 DEF TypeInv, ThreadsOK

LEMMA GotoType ==
  ASSUME NEW st, NEW last, ThreadOK(st, last), NEW pc \in Pcs,
         pc \in {"mkdir_look", "mkdir_make", "send_look"} => st.path # <<>>,
         pc \in {"send_look", "send_blob"} => st.content \in Contents,
         pc \in HoldPcs => st.pc \in HoldPcs, pc \in NodePcs => st.pc \in NodePcs
  PROVE  LET new == [st EXCEPT !.pc = pc]
         IN /\ ThreadOK(new, last) /\ new.pc = pc /\ new.node = st.node /\ new.blob = st.blob
            /\ new.old = st.old /\ new.content = st.content
BY DEF ThreadOK, ThreadState

LEMMA CommitType ==
  ASSUME TypeInv, NEW t \in Threads, NEW ino, TreeOK(ino, lastInode), NEW met,
         DOMAIN met \subseteq DOMAIN ino, \A i \in DOMAIN met : met[i] \in Meta /\ met[i].blob \in 1 .. lastBlob,
         NEW first, NEW second, first.by \in Int, second.by \in Int,
         NEW st, ThreadOK(st, lastBlob), Commit(t, ino, met, first, second, st),
         UNCHANGED <<lastInode, disk, lastBlob, counters>>, swept' \subseteq 1 .. lastBlob
  PROVE  TypeInv'
<1>1. \A i \in DOMAIN ino : ino[i] \in Inode
  BY DEF TreeOK
<1>2. \/ Goto(t, "stuck") /\ UNCHANGED <<inodes, meta>>
      \/ SameRows(inodes', ino) /\ meta' = met /\ Become(t, st)
  BY <1>1, CommitStep
<1>3. lastBlob' \in Nat /\ lastBlob <= lastBlob' /\ CountersOK'
  BY DEF TypeInv, TablesOK, counters, CountersOK
<1>4. ThreadsOK'
  <2>1. ThreadOK([thread[t] EXCEPT !.pc = "stuck"], lastBlob)
    <3>1. ThreadOK(thread[t], lastBlob)
      BY DEF TypeInv, ThreadsOK
    <3>2. "stuck" \in Pcs /\ "stuck" \notin HoldPcs /\ "stuck" \notin NodePcs
      BY DEF Pcs, HoldPcs, NodePcs
    <3> QED BY <3>1, <3>2, GotoType
  <2> QED BY <1>2, <1>3, <2>1, ThreadStep DEF Goto
<1>5. TablesOK'
  <2>1. CASE UNCHANGED <<inodes, meta>>
    BY <2>1 DEF TypeInv, TablesOK
  <2>2. CASE SameRows(inodes', ino) /\ meta' = met
    <3>1. TreeOK(inodes', lastInode) /\ DOMAIN inodes' = DOMAIN ino
      BY <2>2, SameTree DEF SameRows
    <3> QED BY <2>2, <3>1 DEF TypeInv, TablesOK
  <2> QED BY <1>2, <2>1, <2>2
<1> QED BY <1>3, <1>4, <1>5 DEF TypeInv

LEMMA TypeNext == TypeInv /\ [Next]_vars => TypeInv'
<1> SUFFICES ASSUME TypeInv, [Next]_vars PROVE TypeInv'
  OBVIOUS
<1>a. /\ TreeOK(inodes, lastInode) /\ lastInode \in Nat /\ lastBlob \in Nat
      /\ \A t \in Threads : ThreadOK(thread[t], lastBlob) /\ thread[t] \in ThreadState
      /\ DOMAIN meta \subseteq DOMAIN inodes
      /\ \A i \in DOMAIN meta : meta[i] \in Meta /\ meta[i].blob \in 1 .. lastBlob
      /\ \A i \in DOMAIN inodes : inodes[i] \in Inode /\ i \in Nat /\ inodes[i].parent \in Nat
      /\ \A path \in Paths : Resolve(path) \in Nat
  <2>1. TypeInv
    OBVIOUS
  <2>2. TreeOK(inodes, lastInode) /\ lastInode \in Nat
    BY DEF TypeInv, TablesOK
  <2>3. \A i \in DOMAIN inodes : inodes[i] \in Inode /\ i \in Nat /\ inodes[i].parent \in Nat
    BY <2>2 DEF TreeOK, Inode
  <2>4. \A path \in Paths : Resolve(path) \in Nat
    BY <2>2, <2>3, ResolveFacts DEF None
  <2> QED BY <2>2, <2>3, <2>4 DEF TypeInv, TablesOK, ThreadsOK, ThreadOK
\* Thread t comes to st and the tables stay.
<1>b. ASSUME NEW t \in Threads, NEW st, Become(t, st), ThreadOK(st, lastBlob), UNCHANGED <<tables, blobs>>,
             CountersOK'
      PROVE  TypeInv'
  <2>1. ThreadsOK'
    BY <1>a, <1>b, ThreadStep DEF blobs
  <2>2. TablesOK'
    BY <1>b DEF TypeInv, TablesOK, tables, blobs
  <2> QED BY <1>b, <2>1, <2>2 DEF TypeInv
<1>c. UNCHANGED counters => CountersOK'
  BY DEF TypeInv, CountersOK, counters
<1>d. ASSUME NEW t \in Threads, Reply(t), UNCHANGED <<tables, blobs>>, CountersOK' PROVE TypeInv'
  BY <1>b, <1>d, IdleType DEF Reply
<1>e. ASSUME NEW t \in Threads, NEW pc \in Pcs, Goto(t, pc), UNCHANGED <<tables, blobs, counters>>,
             pc \in {"mkdir_look", "mkdir_make", "send_look"} => thread[t].path # <<>>,
             pc \in {"send_look", "send_blob"} => thread[t].content \in Contents,
             pc \in HoldPcs => thread[t].pc \in HoldPcs, pc \in NodePcs => thread[t].pc \in NodePcs
      PROVE  TypeInv'
  BY <1>a, <1>b, <1>c, <1>e, GotoType DEF Goto
<1>h. \A u \in Threads : thread[u].content \in Nat /\ thread[u].size \in Int
  <2>1. \A c \in Contents \cup {0} : c \in Nat
    BY VfsAssumption
  <2>2. \A u \in Threads : thread[u].content \in Contents \cup {0} /\ thread[u].size \in Int
    BY <1>a DEF ThreadState
  <2> QED BY <2>1, <2>2
<1>1. CASE UNCHANGED vars
  BY <1>1 DEF vars, tables, blobs, counters, TypeInv, TablesOK, ThreadsOK, CountersOK
<1>2. CASE Crash
  <2>1. thread' = [u \in Threads |-> Idle] /\ UNCHANGED <<tables, blobs>> /\ CountersOK'
    BY <1>2 DEF Crash, TypeInv, CountersOK
  <2> HIDE DEF Idle
  <2>2. ThreadsOK'
    BY <2>1, IdleType DEF ThreadsOK, ThreadOK
  <2> QED BY <2>1, <2>2 DEF TypeInv, TablesOK, tables, blobs
<1>3. ASSUME NEW t \in Threads, Fail(t) \/ Busy(t) PROVE TypeInv'
  <2>1. Reply(t) /\ UNCHANGED <<tables, blobs>> /\ CountersOK'
    BY <1>3, <1>c DEF Fail, Busy, Reading, TypeInv, CountersOK
  <2> QED BY <1>d, <2>1
<1>4. ASSUME NEW t \in Threads, Start(t) PROVE TypeInv'
  <2>1. UNCHANGED <<tables, blobs>> /\ CountersOK'
    BY <1>4 DEF Start, Arrive, TypeInv, CountersOK
  <2>2. PICK path \in Paths : StartMkdir(t, path) \/ StartSend(t, path) \/ StartRm(t, path) \/ StartMv(t, path)
    BY <1>4 DEF Start
  <2>3. path # <<>>
    BY <2>2 DEF StartMkdir, StartSend, StartRm, StartMv
  <2>4. /\ Last(path) \in Segments /\ Front(path) \in Paths /\ Resolve(path) \in Nat
        /\ Resolve(path) # RootId /\ Resolve(Front(path)) \in Nat
    BY <1>a, <2>3, PathFacts, ResolveFacts
  <2>5. Idle \in ThreadState
    BY IdleType DEF ThreadOK
  <2>6. CASE StartMkdir(t, path)
    <3> DEFINE st == [Idle EXCEPT !.pc = "mkdir_look", !.path = path, !.parent = RootId]
    <3>1. Become(t, st)
      BY <2>6 DEF StartMkdir
    <3>2. ThreadOK(st, lastBlob)
      BY <2>3, <2>5 DEF ThreadOK, ThreadState, Pcs, RootId, HoldPcs, NodePcs, Idle
    <3> QED BY <1>b, <2>1, <3>1, <3>2
  <2>7. CASE StartSend(t, path)
    <3>1. PICK c \in Contents, overwrite \in BOOLEAN :
            Become(t, [Idle EXCEPT !.pc = "send_look", !.path = path, !.parent = Resolve(Front(path)),
                         !.name = Last(path), !.content = c, !.overwrite = overwrite])
      BY <2>7 DEF StartSend
    <3> DEFINE st == [Idle EXCEPT !.pc = "send_look", !.path = path, !.parent = Resolve(Front(path)),
                         !.name = Last(path), !.content = c, !.overwrite = overwrite]
    <3>2. ThreadOK(st, lastBlob)
      BY <2>3, <2>4, <2>5 DEF ThreadOK, ThreadState, Pcs, HoldPcs, NodePcs, Idle
    <3> QED BY <1>b, <2>1, <3>1, <3>2
  <2>8. CASE StartRm(t, path)
    <3>1. PICK pc \in {"rm_read", "rm_meta"} : Become(t, [Idle EXCEPT !.pc = pc, !.node = Resolve(path)])
      BY <2>8 DEF StartRm
    <3>2. ThreadOK([Idle EXCEPT !.pc = pc, !.node = Resolve(path)], lastBlob)
      BY <2>4, <2>5 DEF ThreadOK, ThreadState, Pcs, HoldPcs, NodePcs, Idle
    <3> QED BY <1>b, <2>1, <3>1, <3>2
  <2>9. CASE StartMv(t, path)
    <3>1. PICK dst \in Paths : Become(t, [Idle EXCEPT !.pc = "mv_dst", !.path = dst, !.node = Resolve(path),
                                                      !.name = Last(path)])
      BY <2>9 DEF StartMv
    <3>2. ThreadOK([Idle EXCEPT !.pc = "mv_dst", !.path = dst, !.node = Resolve(path), !.name = Last(path)],
                   lastBlob)
      BY <2>4, <2>5 DEF ThreadOK, ThreadState, Pcs, HoldPcs, NodePcs, Idle
    <3> QED BY <1>b, <2>1, <3>1, <3>2
  <2> QED BY <2>2, <2>6, <2>7, <2>8, <2>9
<1>5. ASSUME NEW t \in Threads, MkdirLook(t) PROVE TypeInv'
  <2> DEFINE st == thread[t]
             c == Child(st.parent, Head(st.path))
             new == [st EXCEPT !.parent = c, !.path = Tail(st.path)]
  <2>1. st.pc = "mkdir_look" /\ UNCHANGED <<tables, blobs, counters>>
    BY <1>5 DEF MkdirLook, Reading
  <2>2. st.path \in Paths /\ st.path # <<>>
    BY <1>a, <2>1 DEF ThreadOK, ThreadState
  <2>3. CASE Goto(t, "mkdir_make")
    BY <1>e, <2>1, <2>2, <2>3 DEF Pcs, HoldPcs, NodePcs
  <2>4. CASE Reply(t)
    BY <1>c, <1>d, <2>1, <2>4
  <2>5. CASE c # None /\ Len(st.path) # 1 /\ Become(t, new)
    <3>1. c \in Nat
      BY <1>a, <2>5, ChildFacts
    <3>2. Tail(st.path) \in Paths /\ Tail(st.path) # <<>>
      BY <2>2, <2>5, PathFacts
    <3> HIDE DEF c
    <3>3. ThreadOK(new, lastBlob)
      BY <1>a, <2>1, <3>1, <3>2 DEF ThreadOK, ThreadState, Pcs, HoldPcs, NodePcs
    <3> QED BY <1>b, <1>c, <2>1, <2>5, <3>3
  <2> QED BY <1>5, <2>3, <2>4, <2>5 DEF MkdirLook
\* Thread t makes an inode and comes to st.
<1>f. ASSUME NEW t \in Threads, NEW st, Become(t, st), ThreadOK(st, lastBlob),
             NEW p, NEW n \in Segments \cup {RootName}, NEW dir \in BOOLEAN, MayPut(None, p, n),
             inodes' = NewInode(p, n, dir), lastInode' = lastInode + 1, UNCHANGED <<meta, blobs, counters>>
      PROVE  TypeInv'
  <2>1. ThreadsOK'
    BY <1>a, <1>f, ThreadStep DEF blobs
  <2>2. TreeOK(inodes', lastInode') /\ DOMAIN inodes \subseteq DOMAIN inodes' /\ lastInode' \in Nat
    BY <1>a, <1>f, NewInodeTree
  <2>3. TablesOK'
    BY <1>f, <2>2 DEF TypeInv, TablesOK, blobs
  <2> QED BY <1>c, <1>f, <2>1, <2>3 DEF TypeInv
<1>6. ASSUME NEW t \in Threads, MkdirMake(t) PROVE TypeInv'
  <2> DEFINE st == thread[t]
             n == Head(st.path)
             new == [st EXCEPT !.pc = "mkdir_look", !.parent = lastInode + 1, !.path = Tail(st.path)]
  <2>1. st.pc = "mkdir_make" /\ UNCHANGED <<blobs, counters>> /\ st.path \in Paths /\ st.path # <<>>
    BY <1>a, <1>6 DEF MkdirMake, ThreadOK, ThreadState
  <2>2. n \in Segments
    BY <2>1, PathFacts
  <2>3. CASE ~MayPut(None, st.parent, n)
    BY <1>6, <1>c, <1>d, <2>1, <2>3 DEF MkdirMake
  <2>4. CASE MayPut(None, st.parent, n)
    <3>1. /\ inodes' = NewInode(st.parent, n, TRUE) /\ lastInode' = lastInode + 1 /\ UNCHANGED meta
          /\ \/ Reply(t)
             \/ Len(st.path) # 1 /\ Become(t, new)
      BY <1>6, <2>4 DEF MkdirMake
    <3>2. CASE Reply(t)
      BY <1>f, <2>1, <2>2, <2>4, <3>1, <3>2, IdleType DEF Reply
    <3>3. CASE Len(st.path) # 1 /\ Become(t, new)
      <4>1. Tail(st.path) \in Paths /\ Tail(st.path) # <<>> /\ lastInode + 1 \in Nat
        BY <1>a, <2>1, <3>3, PathFacts
      <4>2. ThreadOK(new, lastBlob)
        BY ZenonT(40), <1>a, <2>1, <4>1 DEF ThreadOK, ThreadState, Pcs, HoldPcs, NodePcs
      <4> QED BY <1>f, <2>1, <2>2, <2>4, <3>1, <3>3, <4>2
    <3> QED BY <3>1, <3>2, <3>3
  <2> QED BY <2>3, <2>4
<1>7. ASSUME NEW t \in Threads, SendLook(t) PROVE TypeInv'
  <2> DEFINE st == thread[t]
             existing == Resolve(st.path)
             new == [st EXCEPT !.pc = "send_blob", !.path = <<>>, !.node = existing]
  <2>1. /\ st.pc = "send_look" /\ UNCHANGED <<tables, blobs, counters>> /\ st.content \in Contents
        /\ existing \in Nat /\ (Reply(t) \/ Become(t, new))
    BY <1>a, <1>7 DEF SendLook, Reading, ThreadOK, ThreadState
  <2>2. <<>> \in Paths
    BY IdleType DEF ThreadOK, ThreadState, Idle
  <2> HIDE DEF existing
  <2>3. ThreadOK(new, lastBlob)
    BY ZenonT(40), <1>a, <2>1, <2>2 DEF ThreadOK, ThreadState, Pcs, HoldPcs, NodePcs
  <2> QED BY <1>b, <1>c, <1>d, <2>1, <2>3
<1>8. ASSUME NEW t \in Threads, WriteBlob(t) PROVE TypeInv'
  <2> DEFINE st == thread[t]
             b == lastBlob + 1
             pc == IF st.node = None THEN "send_inode" ELSE "send_meta"
             new == [st EXCEPT !.blob = b, !.pc = pc]
  <2>1. /\ st.pc = "send_blob" /\ UNCHANGED <<tables, swept, counters>> /\ Become(t, new) /\ lastBlob' = b
        /\ disk' = [c \in DOMAIN disk \cup {b} |-> IF c = b THEN st.content ELSE disk[c]]
    BY <1>8 DEF WriteBlob
  <2>2. st.content \in Contents /\ b \in Nat /\ b \in 1 .. b /\ 1 .. lastBlob \subseteq 1 .. b
    BY <1>a, <2>1 DEF ThreadOK
  <2>3. ThreadOK(new, b)
    <3>1. pc \in {"send_inode", "send_meta"}
      OBVIOUS
    <3> HIDE DEF pc, b
    <3> QED BY ZenonT(40), <1>a, <2>2, <3>1 DEF ThreadOK, ThreadState, Pcs, HoldPcs, NodePcs
  <2>4. ThreadsOK'
    <3>1. lastBlob <= b
      BY <1>a
    <3> QED BY <2>1, <2>2, <2>3, <3>1, ThreadStep
  <2> HIDE DEF b
  <2>5. DOMAIN disk' \subseteq 1 .. b /\ \A c \in DOMAIN disk' : disk'[c] \in Contents
    BY <2>1, <2>2 DEF TypeInv, TablesOK
  <2>6. TablesOK'
    BY <2>1, <2>2, <2>5 DEF TypeInv, TablesOK, tables
  <2> QED BY <1>c, <2>1, <2>4, <2>6 DEF TypeInv
<1>9. ASSUME NEW t \in Threads, InsertFile(t) PROVE TypeInv'
  <2> DEFINE st == thread[t]
             new == [st EXCEPT !.pc = "send_newmeta", !.node = lastInode + 1]
  <2>1. /\ st.pc = "send_inode" /\ UNCHANGED <<blobs, counters>>
        /\ \/ Reply(t) /\ UNCHANGED tables
           \/ /\ MayPut(None, st.parent, st.name) /\ inodes' = NewInode(st.parent, st.name, FALSE)
              /\ lastInode' = lastInode + 1 /\ UNCHANGED meta /\ Become(t, new)
    BY <1>9 DEF InsertFile
  <2>2. lastInode + 1 \in Nat /\ st.name \in Segments \cup {RootName}
    BY <1>a DEF ThreadState
  <2>3. ThreadOK(new, lastBlob)
    BY ZenonT(40), <1>a, <2>1, <2>2 DEF ThreadOK, ThreadState, Pcs, HoldPcs, NodePcs
  <2>4. CASE Reply(t) /\ UNCHANGED tables
    BY <1>c, <1>d, <2>1, <2>4
  <2> QED BY <1>f, <2>1, <2>2, <2>3, <2>4
<1>10. ASSUME NEW t \in Threads, InsertMeta(t) PROVE TypeInv'
  <2> DEFINE st == thread[t]
             row == [blob |-> st.blob, size |-> st.content, hash |-> st.content]
             met == [i \in DOMAIN meta \cup {st.node} |-> IF i = st.node THEN row ELSE meta[i]]
             up == [at |-> inodes[st.node].parent, by |-> st.content]
  <2>1. /\ st.pc = "send_newmeta" /\ UNCHANGED <<lastInode, blobs, counters>>
        /\ \/ Reply(t) /\ UNCHANGED <<inodes, meta>>
           \/ st.node \in DOMAIN inodes /\ Commit(t, inodes, met, up, Nowhere, Idle)
    BY <1>10 DEF InsertMeta
  <2>2. row \in Meta /\ row.blob = st.blob /\ st.blob \in 1 .. lastBlob /\ st.content \in Nat
    <3>1. st.blob \in 1 .. lastBlob
      BY <1>a, <2>1 DEF ThreadOK, HoldPcs
    <3>2. st.content \in Nat
      BY <1>h
    <3>3. st.blob \in Nat
      BY <1>a, <3>1
    <3> QED BY <3>1, <3>2, <3>3 DEF Meta
  <2>3. CASE Reply(t) /\ UNCHANGED <<inodes, meta>>
    BY <1>c, <1>d, <2>1, <2>3 DEF tables
  <2>4. CASE st.node \in DOMAIN inodes /\ Commit(t, inodes, met, up, Nowhere, Idle)
    <3>1. up.by \in Int /\ Nowhere.by \in Int
      BY <2>2 DEF Nowhere
    <3> HIDE DEF row
    <3>2. /\ DOMAIN met \subseteq DOMAIN inodes
          /\ \A i \in DOMAIN met : met[i] \in Meta /\ met[i].blob \in 1 .. lastBlob
      BY <1>a, <2>2, <2>4
    <3>3. swept' \subseteq 1 .. lastBlob /\ UNCHANGED <<lastInode, disk, lastBlob, counters>>
      BY <2>1 DEF blobs, TypeInv, TablesOK
    <3> HIDE DEF met, up
    <3> QED BY <1>a, <2>4, <3>1, <3>2, <3>3, IdleType, CommitType
  <2> QED BY <2>1, <2>3, <2>4
<1>11. ASSUME NEW t \in Threads, ReadOldBlob(t) PROVE TypeInv'
  <2> DEFINE st == thread[t]
             new == [st EXCEPT !.pc = "send_unlink", !.old = meta[st.node].blob]
  <2>1. /\ st.pc = "send_meta" /\ UNCHANGED <<tables, blobs, counters>>
        /\ \/ st.node \in DOMAIN meta /\ Become(t, new)
           \/ Goto(t, "send_oldsize")
    BY <1>11 DEF ReadOldBlob, Reading
  <2>2. CASE Goto(t, "send_oldsize")
    BY <1>e, <2>1, <2>2 DEF Pcs, HoldPcs, NodePcs
  <2>3. CASE st.node \in DOMAIN meta /\ Become(t, new)
    <3>1. meta[st.node].blob \in Nat
      BY <1>a, <2>3
    <3>2. ThreadOK(new, lastBlob)
      BY ZenonT(40), <1>a, <2>1, <3>1 DEF ThreadOK, ThreadState, Pcs, HoldPcs, NodePcs
    <3> QED BY <1>b, <1>c, <2>1, <2>3, <3>2
  <2> QED BY <2>1, <2>2, <2>3
\* Unlinking takes nothing but a blob away.
<1>g. ASSUME NEW t \in Threads, NEW b, Unlink(b), NEW st, Become(t, st), ThreadOK(st, lastBlob),
             UNCHANGED <<tables, lastBlob, swept, counters>>
      PROVE  TypeInv'
  <2>1. ThreadsOK'
    BY <1>a, <1>g, ThreadStep
  <2>2. DOMAIN disk' \subseteq DOMAIN disk /\ \A c \in DOMAIN disk' : disk'[c] = disk[c]
    BY <1>g DEF Unlink
  <2>3. TablesOK'
    BY <1>g, <2>2 DEF TypeInv, TablesOK, tables
  <2> QED BY <1>c, <1>g, <2>1, <2>3 DEF TypeInv
<1>12. ASSUME NEW t \in Threads, UnlinkOld(t) PROVE TypeInv'
  <2> DEFINE new == [thread[t] EXCEPT !.pc = "send_oldsize", !.old = None]
  <2>1. thread[t].pc = "send_unlink"
    BY <1>12 DEF UnlinkOld
  <2>2. ThreadOK(new, lastBlob)
    BY ZenonT(40), <1>a, <2>1 DEF ThreadOK, ThreadState, Pcs, HoldPcs, NodePcs, None
  <2> QED BY <1>12, <1>g, <2>2 DEF UnlinkOld
<1>13. ASSUME NEW t \in Threads, ReadOldSize(t) PROVE TypeInv'
  <2> DEFINE st == thread[t]
             size == IF st.node \in DOMAIN meta THEN meta[st.node].size ELSE 0
             new == [st EXCEPT !.pc = "send_update", !.size = size]
  <2>1. st.pc = "send_oldsize" /\ UNCHANGED <<tables, blobs, counters>> /\ Become(t, new)
    BY <1>13 DEF ReadOldSize, Reading
  <2>2. size \in Int
    BY <1>a DEF Meta
  <2> HIDE DEF size
  <2>3. ThreadOK(new, lastBlob)
    BY ZenonT(40), <1>a, <2>1, <2>2 DEF ThreadOK, ThreadState, Pcs, HoldPcs, NodePcs
  <2> QED BY <1>b, <1>c, <2>1, <2>3
<1>14. ASSUME NEW t \in Threads, UpdateSize(t) PROVE TypeInv'
  <2> DEFINE st == thread[t]
             met == IF st.node \in DOMAIN meta
                    THEN [meta EXCEPT ![st.node].size = st.content, ![st.node].hash = st.content]
                    ELSE meta
             up == [at |-> IF st.node \in DOMAIN inodes THEN inodes[st.node].parent ELSE None,
                    by |-> Delta(st)]
             new == [st EXCEPT !.pc = "send_point", !.size = 0]
  <2>1. /\ st.pc = "send_update" /\ UNCHANGED <<lastInode, blobs, counters>>
        /\ Commit(t, inodes, met, up, Nowhere, new)
    BY <1>14 DEF UpdateSize
  <2>2. st.content \in Nat /\ st.size \in Int
    BY <1>h
  <2>3. up.by \in Int /\ Nowhere.by \in Int
    BY <2>2 DEF Nowhere, Delta
  <2>4. DOMAIN met = DOMAIN meta /\ \A i \in DOMAIN met : met[i] \in Meta /\ met[i].blob \in 1 .. lastBlob
    BY <1>a, <2>2 DEF Meta
  <2>5. ThreadOK(new, lastBlob)
    <3>1. 0 \in Int
      OBVIOUS
    <3> HIDE DEF met, up
    <3> QED BY ZenonT(40), <1>a, <2>1, <3>1 DEF ThreadOK, ThreadState, Pcs, HoldPcs, NodePcs
  <2>6. swept' \subseteq 1 .. lastBlob /\ UNCHANGED <<lastInode, disk, lastBlob, counters>>
    BY <2>1 DEF blobs, TypeInv, TablesOK
  <2> HIDE DEF met, up, new
  <2> QED BY <1>a, <2>1, <2>3, <2>4, <2>5, <2>6, CommitType
<1>15. ASSUME NEW t \in Threads, PointMeta(t) PROVE TypeInv'
  <2> DEFINE st == thread[t]
  <2>1. /\ st.pc = "send_point" /\ UNCHANGED <<inodes, lastInode, blobs, counters>> /\ Reply(t)
        /\ meta' = IF st.node \in DOMAIN meta THEN [meta EXCEPT ![st.node].blob = st.blob] ELSE meta
    BY <1>15 DEF PointMeta
  <2>2. st.blob \in 1 .. lastBlob /\ st.blob \in Nat
    BY <1>a, <2>1 DEF ThreadOK, HoldPcs
  <2>3. DOMAIN meta' = DOMAIN meta /\ \A i \in DOMAIN meta' : meta'[i] \in Meta /\ meta'[i].blob \in 1 .. lastBlob
    BY <1>a, <2>1, <2>2 DEF Meta
  <2>4. ThreadsOK'
    BY <1>a, <2>1, IdleType, ThreadStep DEF Reply, blobs
  <2>5. TablesOK'
    BY <2>1, <2>3 DEF TypeInv, TablesOK, blobs
  <2> QED BY <1>c, <2>1, <2>4, <2>5 DEF TypeInv
<1>16. ASSUME NEW t \in Threads, RmMeta(t) PROVE TypeInv'
  <2> DEFINE st == thread[t]
             new == [st EXCEPT !.pc = "rm_unlink", !.old = meta[st.node].blob]
  <2>1. /\ st.pc = "rm_meta" /\ UNCHANGED <<tables, blobs, counters>>
        /\ \/ st.node \in DOMAIN meta /\ Become(t, new)
           \/ Goto(t, "rm_read")
    BY <1>16 DEF RmMeta, Reading
  <2>2. CASE Goto(t, "rm_read")
    BY <1>e, <2>1, <2>2 DEF Pcs, HoldPcs, NodePcs
  <2>3. CASE st.node \in DOMAIN meta /\ Become(t, new)
    <3>1. meta[st.node].blob \in Nat
      BY <1>a, <2>3
    <3>2. ThreadOK(new, lastBlob)
      BY ZenonT(40), <1>a, <2>1, <3>1 DEF ThreadOK, ThreadState, Pcs, HoldPcs, NodePcs
    <3> QED BY <1>b, <1>c, <2>1, <2>3, <3>2
  <2> QED BY <2>1, <2>2, <2>3
<1>17. ASSUME NEW t \in Threads, RmUnlink(t) PROVE TypeInv'
  <2> DEFINE new == [thread[t] EXCEPT !.pc = "rm_read", !.old = None]
  <2>1. thread[t].pc = "rm_unlink"
    BY <1>17 DEF RmUnlink
  <2>2. ThreadOK(new, lastBlob)
    BY ZenonT(40), <1>a, <2>1 DEF ThreadOK, ThreadState, Pcs, HoldPcs, NodePcs, None
  <2> QED BY <1>17, <1>g, <2>2 DEF RmUnlink
<1>18. ASSUME NEW t \in Threads, NEW to \in {"rm_delete", "mv_write"}, thread[t].pc \in NodePcs,
              ReadWeight(t, to), Reading
       PROVE  TypeInv'
  <2> DEFINE st == thread[t]
             up == inodes[st.node].parent
             w == Weight(st.node)
             new == [st EXCEPT !.pc = to, !.old = up, !.size = w]
  <2>1. Reply(t) \/ (st.node \in DOMAIN inodes /\ Become(t, new))
    BY <1>18 DEF ReadWeight
  <2>2. CASE Reply(t)
    BY <1>c, <1>d, <1>18, <2>2 DEF Reading
  <2>3. CASE st.node \in DOMAIN inodes /\ Become(t, new)
    <3>1. up \in Nat /\ w \in Int
      BY <1>a, <2>3 DEF Weight, Inode, Meta
    <3> HIDE DEF up, w
    <3>2. ThreadOK(new, lastBlob)
      BY ZenonT(40), <1>a, <1>18, <3>1 DEF ThreadOK, ThreadState, Pcs, HoldPcs, NodePcs
    <3> QED BY <1>b, <1>c, <1>18, <2>3, <3>2 DEF Reading
  <2> QED BY <2>1, <2>2, <2>3
<1>19. ASSUME NEW t \in Threads, RmRead(t) \/ MvRead(t) PROVE TypeInv'
  BY <1>18, <1>19 DEF RmRead, MvRead, NodePcs
<1>i. \A u \in Threads : Counted(thread[u]) \in Nat
  BY <1>h DEF Counted
<1>20. ASSUME NEW t \in Threads, RmDelete(t) PROVE TypeInv'
  <2> DEFINE st == thread[t]
             gone == Cascade(st.node)
             left == [i \in DOMAIN inodes \ gone |-> inodes[i]]
             met == [i \in DOMAIN meta \ gone |-> meta[i]]
             up == [at |-> IF gone = {} THEN None ELSE st.old, by |-> -Counted(st)]
             lost == {meta[i].blob : i \in (gone \ {st.node}) \cap DOMAIN meta}
  <2>1. /\ st.pc = "rm_delete" /\ UNCHANGED <<lastInode, disk, lastBlob, counters>>
        /\ Commit(t, left, met, up, Nowhere, Idle) /\ (swept' = swept \/ swept' = swept \cup lost)
    BY <1>20 DEF RmDelete
  <2>2. TreeOK(left, lastInode)
    <3>1. st.node # RootId
      BY <1>a, <2>1 DEF ThreadOK, NodePcs
    <3> QED BY <1>a, <3>1, CascadeTree
  <2>3. up.by \in Int /\ Nowhere.by \in Int
    BY <1>i DEF Nowhere
  <2> HIDE DEF gone
  <2>4. DOMAIN met \subseteq DOMAIN left /\ \A i \in DOMAIN met : met[i] \in Meta /\ met[i].blob \in 1 .. lastBlob
    BY <1>a
  <2>5. swept' \subseteq 1 .. lastBlob
    <3>1. lost \subseteq 1 .. lastBlob
      BY <1>a
    <3> HIDE DEF lost
    <3> QED BY <2>1, <3>1 DEF TypeInv, TablesOK
  <2> HIDE DEF left, met, up
  <2> QED BY <2>1, <2>2, <2>3, <2>4, <2>5, IdleType, CommitType
<1>21. ASSUME NEW t \in Threads, MvDst(t) PROVE TypeInv'
  <2> DEFINE st == thread[t]
             d == Resolve(st.path)
             p == Resolve(Front(st.path))
             into == [st EXCEPT !.pc = "mv_exists", !.path = <<>>, !.parent = d]
             at == [st EXCEPT !.pc = "mv_exists", !.path = <<>>, !.parent = p, !.name = Last(st.path)]
  <2>1. /\ st.pc = "mv_dst" /\ UNCHANGED <<tables, blobs, counters>>
        /\ Reply(t) \/ Become(t, into) \/ (st.path # <<>> /\ Become(t, at))
    BY <1>21 DEF MvDst, Reading
  <2>2. st.path \in Paths /\ <<>> \in Paths
    BY <1>a, IdleType DEF ThreadOK, ThreadState, Idle
  <2>3. d \in Nat /\ (st.path # <<>> => p \in Nat /\ Last(st.path) \in Segments)
    BY <1>a, <2>2, PathFacts
  <2> HIDE DEF d, p
  <2>4. CASE Reply(t)
    BY <1>c, <1>d, <2>1, <2>4
  <2>5. CASE Become(t, into)
    <3>1. ThreadOK(into, lastBlob)
      BY ZenonT(40), <1>a, <2>1, <2>2, <2>3 DEF ThreadOK, ThreadState, Pcs, HoldPcs, NodePcs
    <3> QED BY <1>b, <1>c, <2>1, <2>5, <3>1
  <2>6. CASE st.path # <<>> /\ Become(t, at)
    <3>1. ThreadOK(at, lastBlob)
      BY ZenonT(40), <1>a, <2>1, <2>2, <2>3, <2>6 DEF ThreadOK, ThreadState, Pcs, HoldPcs, NodePcs
    <3> QED BY <1>b, <1>c, <2>1, <2>6, <3>1
  <2> QED BY <2>1, <2>4, <2>5, <2>6
<1>22. ASSUME NEW t \in Threads, MvExists(t) PROVE TypeInv'
  <2>1. thread[t].pc = "mv_exists" /\ UNCHANGED <<tables, blobs, counters>> /\ (Reply(t) \/ Goto(t, "mv_read"))
    BY <1>22 DEF MvExists, Reading
  <2> QED BY <1>c, <1>d, <1>e, <2>1 DEF Pcs, HoldPcs, NodePcs
<1>23. ASSUME NEW t \in Threads, MvWrite(t) PROVE TypeInv'
  <2> DEFINE st == thread[t]
             moved == [inodes EXCEPT ![st.node].parent = st.parent, ![st.node].name = st.name]
             from == [at |-> st.old, by |-> -Counted(st)]
             to == [at |-> st.parent, by |-> Counted(st)]
  <2>1. /\ st.pc = "mv_write" /\ UNCHANGED <<lastInode, blobs, counters>>
        /\ \/ Reply(t) /\ UNCHANGED <<inodes, meta>>
           \/ /\ st.node \in DOMAIN inodes /\ MayPut(st.node, st.parent, st.name)
              /\ Commit(t, moved, meta, from, to, Idle)
    BY <1>23 DEF MvWrite
  <2>2. CASE Reply(t) /\ UNCHANGED <<inodes, meta>>
    BY <1>c, <1>d, <2>1, <2>2 DEF tables
  <2>3. CASE /\ st.node \in DOMAIN inodes /\ MayPut(st.node, st.parent, st.name)
             /\ Commit(t, moved, meta, from, to, Idle)
    <3>1. st.node # RootId /\ st.name \in Segments \cup {RootName}
      BY <1>a, <2>1 DEF ThreadOK, NodePcs, ThreadState
    <3>2. TreeOK(moved, lastInode) /\ DOMAIN moved = DOMAIN inodes
      <4>1. st.node \in DOMAIN inodes /\ MayPut(st.node, st.parent, st.name)
        BY <2>3
      <4> HIDE DEF st
      <4> QED BY <1>a, <3>1, <4>1, MovedTree
    <3>3. from.by \in Int /\ to.by \in Int
      BY <1>i
    <3>4. swept' \subseteq 1 .. lastBlob /\ UNCHANGED <<lastInode, disk, lastBlob, counters>>
      BY <2>1 DEF blobs, TypeInv, TablesOK
    <3> HIDE DEF moved, from, to
    <3> QED BY <1>a, <2>3, <3>2, <3>3, <3>4, IdleType, CommitType
  <2> QED BY <2>1, <2>2, <2>3
<1> QED BY <1>1, <1>2, <1>3, <1>4, <1>5, <1>6, <1>7, <1>8, <1>9, <1>10, <1>11, <1>12, <1>13, <1>14,
           <1>15, <1>16, <1>17, <1>19, <1>20, <1>21, <1>22, <1>23 DEF Next, Step, Serve

\* The tables stay well formed and a path names one inode, whatever requests overlap
\* and wherever one is cut short: the checks that mkdir, send and mv make before they
\* write may be out of date, the constraints of the table are not.
THEOREM TablesWellFormed == Spec => []TablesTypeOK
<1>1. TypeInv => TablesTypeOK
  <2> SUFFICES ASSUME TypeInv PROVE TypeOK /\ PathsUnambiguous
    BY DEF TablesTypeOK
  <2>1. TypeOK
    BY DEF TypeInv, TablesOK, TreeOK, ThreadsOK, CountersOK, TypeOK
  <2>2. PathsUnambiguous
    BY DEF TypeInv, TablesOK, TreeOK, PathsUnambiguous
  <2> QED BY <2>1, <2>2
<1> QED BY <1>1, TypeInit, TypeNext, PTL DEF Spec

-----------------------------------------------------------------------------
(* Files and their blobs                                                   *)

\* Before old is unlinked, and from there until the row names another blob or is gone.
OldPcs == {"send_unlink", "rm_unlink"}
GonePcs == {"send_oldsize", "send_update", "send_point", "rm_read", "rm_delete"}

\* A blob belongs to one row, or to the one thread that is to put it into a row; and who
\* is about to unlink a blob does so on behalf of the row that names it, if one does.
Free(met, blob) == \A i \in DOMAIN met : met[i].blob # blob
Holds(st, blob) == st.pc \in HoldPcs /\ st.blob = blob
Unlinks(st, blob) == st.pc \in OldPcs /\ st.old = blob

OneRow == \A i, j \in DOMAIN meta : meta[i].blob = meta[j].blob => i = j
Held(t) ==
  thread[t].pc \in HoldPcs =>
    /\ thread[t].blob \in DOMAIN disk /\ Free(meta, thread[t].blob)
    /\ \A u \in Threads \ {t} : ~Holds(thread[u], thread[t].blob)
    /\ \A u \in Threads : ~Unlinks(thread[u], thread[t].blob)
Unlinking(t) ==
  thread[t].pc \in OldPcs =>
    /\ thread[t].old \in 1 .. lastBlob
    /\ \A i \in DOMAIN meta : meta[i].blob = thread[t].old => i = thread[t].node
Owned == OneRow /\ \A t \in Threads : Held(t) /\ Unlinking(t)

\* A file without metadata is about to get it; a row whose blob is gone is about to
\* name another, or to go. A walk that never ends leaves a thread in between.
Filling(st, i) == st.pc = "send_newmeta" /\ st.node = i
Replacing(st, i) == st.pc \in GonePcs /\ st.node = i
Stuck == \E t \in Threads : thread[t].pc = "stuck"
Filled(i) == i \in DOMAIN meta \/ \E t \in Threads : Filling(thread[t], i)
Backed(i) == meta[i].blob \in DOMAIN disk \/ \E t \in Threads : Replacing(thread[t], i)
Readable ==
  Undisturbed => Stuck \/ ((\A i \in FileIds : Filled(i)) /\ (\A i \in DOMAIN meta : Backed(i)))

FilesInv == TypeInv /\ Owned /\ Readable

\* One thread moves, to st.
LEMMA OneMoves ==
  ASSUME TypeInv, NEW t \in Threads, NEW st, Become(t, st)
  PROVE  thread'[t] = st /\ \A u \in Threads \ {t} : thread'[u] = thread[u]
BY DEF TypeInv, ThreadsOK, Become

\* Rows go or stay, and a thread holds what it held, or comes to unlink the blob of its row.
LEMMA OwnedStep ==
  ASSUME TypeInv, Owned, NEW t \in Threads, NEW st, Become(t, st), lastBlob' = lastBlob,
         \A i \in DOMAIN meta' : i \in DOMAIN meta /\ meta'[i].blob = meta[i].blob,
         \A u \in Threads : thread[u].pc \in HoldPcs => thread[u].blob \in DOMAIN disk',
         st.pc \in HoldPcs => thread[t].pc \in HoldPcs /\ st.blob = thread[t].blob,
         st.pc \in OldPcs => st.node \in DOMAIN meta /\ st.old = meta[st.node].blob
  PROVE  Owned'
<1>1. thread'[t] = st /\ \A u \in Threads \ {t} : thread'[u] = thread[u]
  BY OneMoves
<1>2. OneRow /\ \A u \in Threads : Held(u) /\ Unlinking(u)
  BY DEF Owned
<1>3. OneRow'
  BY <1>2 DEF OneRow
<1>4. \A blob : Free(meta, blob) => Free(meta', blob)
  BY DEF Free
<1>5. \A u \in Threads : \A blob : Holds(thread'[u], blob) => Holds(thread[u], blob)
  BY <1>1 DEF Holds
<1>6. ASSUME NEW u \in Threads PROVE Unlinking(u)'
  <2>1. CASE u # t
    BY <1>1, <1>2, <2>1 DEF Unlinking
  <2>2. CASE u = t /\ st.pc \in OldPcs
    <3>1. st.old \in 1 .. lastBlob'
      BY <2>2 DEF TypeInv, TablesOK
    <3> QED BY <1>1, <1>2, <2>2, <3>1 DEF Unlinking, OneRow
  <2> QED BY <1>1, <2>1, <2>2 DEF Unlinking
<1>7. ASSUME NEW u \in Threads PROVE Held(u)'
  <2> SUFFICES ASSUME thread'[u].pc \in HoldPcs
               PROVE  /\ thread'[u].blob \in DOMAIN disk' /\ Free(meta', thread'[u].blob)
                      /\ \A v \in Threads \ {u} : ~Holds(thread'[v], thread'[u].blob)
                      /\ \A v \in Threads : ~Unlinks(thread'[v], thread'[u].blob)
    BY DEF Held
  <2> DEFINE blob == thread[u].blob
  <2>1. thread[u].pc \in HoldPcs /\ thread'[u].blob = blob
    BY <1>1
  <2>2. /\ blob \in DOMAIN disk' /\ Free(meta, blob)
        /\ \A v \in Threads \ {u} : ~Holds(thread[v], blob)
        /\ \A v \in Threads : ~Unlinks(thread[v], blob)
    BY <1>2, <2>1 DEF Held
  <2>3. \A v \in Threads : ~Unlinks(thread'[v], blob)
    BY <1>1, <2>2 DEF Unlinks, Free
  <2> HIDE DEF blob
  <2> QED BY <1>4, <1>5, <2>1, <2>2, <2>3
<1> QED BY <1>3, <1>6, <1>7 DEF Owned

\* A thread puts the blob it holds into the row of its node and is done.
LEMMA OwnedPut ==
  ASSUME TypeInv, Owned, NEW t \in Threads, thread[t].pc \in HoldPcs, Become(t, Idle),
         UNCHANGED <<disk, lastBlob>>,
         \A i \in DOMAIN meta' : IF i = thread[t].node THEN meta'[i].blob = thread[t].blob
                                 ELSE i \in DOMAIN meta /\ meta'[i].blob = meta[i].blob
  PROVE  Owned'
<1> DEFINE blob == thread[t].blob
<1>1. thread'[t] = Idle /\ \A u \in Threads \ {t} : thread'[u] = thread[u]
  BY OneMoves
<1>2. OneRow /\ \A u \in Threads : Held(u) /\ Unlinking(u)
  BY DEF Owned
<1>3. /\ Free(meta, blob) /\ \A u \in Threads \ {t} : ~Holds(thread[u], blob)
      /\ \A u \in Threads : ~Unlinks(thread[u], blob)
  BY <1>2 DEF Held
<1>4. Idle.pc \notin HoldPcs /\ Idle.pc \notin OldPcs
  BY DEF Idle, HoldPcs, OldPcs
<1> HIDE DEF Idle
<1>5. OneRow'
  BY <1>2, <1>3 DEF OneRow, Free
<1>6. ASSUME NEW u \in Threads PROVE Unlinking(u)'
  BY <1>1, <1>2, <1>3, <1>4 DEF Unlinking, Unlinks
<1>7. ASSUME NEW u \in Threads PROVE Held(u)'
  <2> SUFFICES ASSUME u # t, thread[u].pc \in HoldPcs
               PROVE  /\ thread[u].blob \in DOMAIN disk' /\ Free(meta', thread[u].blob)
                      /\ \A v \in Threads \ {u} : ~Holds(thread'[v], thread[u].blob)
                      /\ \A v \in Threads : ~Unlinks(thread'[v], thread[u].blob)
    BY <1>1, <1>4 DEF Held
  <2>1. /\ thread[u].blob \in DOMAIN disk /\ Free(meta, thread[u].blob)
        /\ \A v \in Threads \ {u} : ~Holds(thread[v], thread[u].blob)
        /\ \A v \in Threads : ~Unlinks(thread[v], thread[u].blob)
    BY <1>2 DEF Held
  <2>2. thread[u].blob # blob
    BY <2>1 DEF Holds
  <2>3. Free(meta', thread[u].blob)
    BY <2>1, <2>2 DEF Free
  <2> QED BY <1>1, <1>4, <2>1, <2>3 DEF Holds, Unlinks
<1> QED BY <1>5, <1>6, <1>7 DEF Owned

\* A file that loses its prospect of metadata, or a row that of a blob, has them.
LEMMA ReadableStep ==
  ASSUME TypeInv, Readable, NEW t \in Threads, NEW st, Become(t, st), Undisturbed' => Undisturbed,
         thread[t].pc # "stuck",
         \A i \in FileIds' : \/ i \in DOMAIN meta' \/ Filling(st, i)
                             \/ i \in FileIds \ DOMAIN meta /\ ~Filling(thread[t], i),
         \A i \in DOMAIN meta' :
           \/ meta'[i].blob \in DOMAIN disk' \/ Replacing(st, i)
           \/ i \in DOMAIN meta /\ meta[i].blob \notin DOMAIN disk /\ ~Replacing(thread[t], i)
  PROVE  Readable'
<1> SUFFICES ASSUME Undisturbed'
             PROVE  Stuck' \/ ((\A i \in FileIds' : Filled(i)') /\ (\A i \in DOMAIN meta' : Backed(i)'))
  BY DEF Readable
<1>1. thread'[t] = st /\ \A u \in Threads \ {t} : thread'[u] = thread[u]
  BY OneMoves
<1>2. CASE Stuck
  BY <1>1, <1>2 DEF Stuck
<1>3. CASE ~Stuck
  <2>1. (\A i \in FileIds : Filled(i)) /\ (\A i \in DOMAIN meta : Backed(i))
    BY <1>3 DEF Readable
  <2>2. ASSUME NEW i \in FileIds' PROVE Filled(i)'
    <3>1. CASE i \in DOMAIN meta' \/ Filling(st, i)
      BY <1>1, <3>1 DEF Filled
    <3>2. CASE i \in FileIds \ DOMAIN meta /\ ~Filling(thread[t], i)
      <4>1. \E u \in Threads \ {t} : Filling(thread[u], i)
        BY <2>1, <3>2 DEF Filled
      <4> QED BY <1>1, <4>1 DEF Filled
    <3> QED BY <3>1, <3>2
  <2>3. ASSUME NEW i \in DOMAIN meta' PROVE Backed(i)'
    <3>1. CASE meta'[i].blob \in DOMAIN disk' \/ Replacing(st, i)
      BY <1>1, <3>1 DEF Backed
    <3>2. CASE i \in DOMAIN meta /\ meta[i].blob \notin DOMAIN disk /\ ~Replacing(thread[t], i)
      <4>1. \E u \in Threads \ {t} : Replacing(thread[u], i)
        BY <2>1, <3>2 DEF Backed
      <4> QED BY <1>1, <4>1 DEF Backed
    <3> QED BY <3>1, <3>2
  <2> QED BY <2>2, <2>3
<1> QED BY <1>2, <1>3

\* A thread whose walk does not end.
LEMMA GetsStuck ==
  ASSUME TypeInv, Owned, NEW t \in Threads, Goto(t, "stuck"), UNCHANGED <<inodes, meta, disk, lastBlob>>
  PROVE  Owned' /\ Readable'
<1> DEFINE st == [thread[t] EXCEPT !.pc = "stuck"]
<1>1. st.pc = "stuck" /\ Become(t, st)
  BY DEF Goto, TypeInv, ThreadsOK, ThreadState
<1> HIDE DEF st
<1>2. Owned'
  <2>1. st.pc \notin HoldPcs /\ st.pc \notin OldPcs
    BY <1>1 DEF HoldPcs, OldPcs
  <2> QED BY <1>1, <2>1, OwnedStep DEF Owned, Held
<1>3. Readable'
  BY <1>1, OneMoves DEF Stuck, Readable
<1> QED BY <1>2, <1>3

LEMMA FilesNext == TypeInv /\ TypeInv' /\ Owned /\ Readable /\ [Next]_vars => Owned' /\ Readable'
<1> SUFFICES ASSUME TypeInv, TypeInv', Owned, Readable, [Next]_vars PROVE Owned' /\ Readable'
  OBVIOUS
<1>a. /\ lastBlob \in Nat /\ DOMAIN meta \subseteq DOMAIN inodes
      /\ \A t \in Threads : thread[t] \in ThreadState /\ ThreadOK(thread[t], lastBlob)
      /\ Idle \in ThreadState /\ Idle.pc = "idle"
  BY IdleType DEF TypeInv, TablesOK, ThreadsOK, ThreadOK
<1>b. /\ UNCHANGED counters => (Undisturbed' => Undisturbed)
      /\ UNCHANGED inodes => FileIds' = FileIds
  BY DEF counters, Undisturbed, FileIds
<1>c. /\ OneRow /\ \A t \in Threads : Held(t) /\ Unlinking(t)
      /\ \A t \in Threads : thread[t].pc \in HoldPcs => thread[t].blob \in DOMAIN disk
  BY DEF Owned, Held
\* Thread t comes to st and neither files nor blobs come or go.
<1>d. ASSUME NEW t \in Threads, NEW st, Become(t, st), UNCHANGED <<meta, disk, lastBlob>>, FileIds' = FileIds,
             Undisturbed' => Undisturbed, thread[t].pc \notin {"stuck", "send_newmeta"},
             st.pc \in HoldPcs => thread[t].pc \in HoldPcs /\ st.blob = thread[t].blob,
             st.pc \in OldPcs => st.node \in DOMAIN meta /\ st.old = meta[st.node].blob,
             \A i \in DOMAIN meta : Replacing(thread[t], i) => Replacing(st, i)
      PROVE  Owned' /\ Readable'
  <2>1. Owned'
    BY <1>c, <1>d, OwnedStep
  <2>2. \A i \in FileIds' : i \in DOMAIN meta' \/ (i \in FileIds \ DOMAIN meta /\ ~Filling(thread[t], i))
    BY <1>d DEF Filling
  <2>3. Readable'
    BY <1>d, <2>2, ReadableStep
  <2> QED BY <2>1, <2>3
\* It gives up, or is done, with nothing of a file on its hands.
<1>e. ASSUME NEW t \in Threads, Reply(t), UNCHANGED <<meta, disk, lastBlob>>, FileIds' = FileIds,
             Undisturbed' => Undisturbed, thread[t].pc \notin {"stuck", "send_newmeta"},
             thread[t].pc \in GonePcs => thread[t].node \notin DOMAIN meta
      PROVE  Owned' /\ Readable'
  <2>1. Idle.pc \notin HoldPcs /\ Idle.pc \notin OldPcs
    BY <1>a DEF HoldPcs, OldPcs
  <2> HIDE DEF Idle
  <2> QED BY <1>d, <1>e, <2>1 DEF Reply, Replacing
\* It goes on to a place from which it holds nothing.
<1>f. ASSUME NEW t \in Threads, NEW pc, pc \notin HoldPcs, pc \notin OldPcs, Goto(t, pc),
             UNCHANGED <<inodes, meta, disk, lastBlob, counters>>,
             thread[t].pc \notin {"stuck", "send_newmeta"}, thread[t].pc \notin GonePcs
      PROVE  Owned' /\ Readable'
  <2> DEFINE st == [thread[t] EXCEPT !.pc = pc]
  <2>1. Become(t, st) /\ st.pc = pc
    BY <1>a, <1>f DEF Goto, ThreadState
  <2> HIDE DEF st
  <2> QED BY <1>b, <1>d, <1>f, <2>1 DEF Replacing
<1>1. CASE UNCHANGED vars
  <2>1. UNCHANGED <<inodes, meta, disk, lastBlob, thread, fails, crashes>>
    BY <1>1 DEF vars, tables, blobs, counters
  <2>2. Owned'
    BY <2>1 DEF Owned, OneRow, Held, Free, Unlinking
  <2>3. Readable'
    BY <2>1 DEF Readable, Undisturbed, Stuck, Filled, Backed, FileIds
  <2> QED BY <2>2, <2>3
<1>2. CASE Crash
  <2>1. /\ thread' = [t \in Threads |-> Idle] /\ UNCHANGED <<meta, disk, lastBlob>>
        /\ crashes' = crashes + 1 /\ crashes \in Nat
    BY <1>2 DEF Crash, TypeInv, CountersOK, tables, blobs
  <2>2. ~Undisturbed'
    BY <2>1 DEF Undisturbed
  <2>3. Idle.pc \notin HoldPcs /\ Idle.pc \notin OldPcs
    BY <1>a DEF HoldPcs, OldPcs
  <2> HIDE DEF Idle
  <2>4. Owned'
    BY <1>c, <2>1, <2>3 DEF Owned, OneRow, Held, Unlinking
  <2> QED BY <2>2, <2>4 DEF Readable
<1>3. ASSUME NEW t \in Threads, Fail(t) PROVE Owned' /\ Readable'
  <2>1. /\ Become(t, Idle) /\ UNCHANGED <<meta, disk, lastBlob>> /\ fails' = fails + 1 /\ fails \in Nat
    BY <1>3 DEF Fail, Reply, TypeInv, CountersOK, tables, blobs
  <2>2. ~Undisturbed'
    BY <2>1 DEF Undisturbed
  <2>3. Idle.pc \notin HoldPcs /\ Idle.pc \notin OldPcs
    BY <1>a DEF HoldPcs, OldPcs
  <2> HIDE DEF Idle
  <2>4. Owned'
    BY <1>c, <2>1, <2>3, OwnedStep
  <2> QED BY <2>2, <2>4 DEF Readable
<1>4. ASSUME NEW t \in Threads, Busy(t) PROVE Owned' /\ Readable'
  <2>1. Become(t, Idle) /\ UNCHANGED <<meta, disk, lastBlob>> /\ Stuck /\ thread[t].pc # "stuck"
    BY <1>4 DEF Busy, Reply, Reading, tables, blobs, Writable, Stuck, WritePcs
  <2>2. Idle.pc \notin HoldPcs /\ Idle.pc \notin OldPcs
    BY <1>a DEF HoldPcs, OldPcs
  <2> HIDE DEF Idle
  <2>3. Owned'
    BY <1>c, <2>1, <2>2, OwnedStep
  <2>4. Stuck'
    BY <2>1, OneMoves DEF Stuck
  <2> QED BY <2>3, <2>4 DEF Readable
<1>5. ASSUME NEW t \in Threads, Start(t) PROVE Owned' /\ Readable'
  <2>1. thread[t].pc = "idle" /\ UNCHANGED <<inodes, meta, disk, lastBlob, fails, crashes>>
    BY <1>5 DEF Start, Arrive, tables, blobs
  <2>2. ASSUME NEW st, Become(t, st), st.pc \in {"mkdir_look", "send_look", "rm_read", "rm_meta", "mv_dst"}
        PROVE  Owned' /\ Readable'
    <3>1. st.pc \notin HoldPcs /\ st.pc \notin OldPcs
      BY <2>2 DEF HoldPcs, OldPcs
    <3>2. thread[t].pc \notin GonePcs /\ thread[t].pc \notin {"stuck", "send_newmeta"}
      BY <2>1 DEF GonePcs
    <3> QED BY <1>b, <1>d, <2>1, <2>2, <3>1, <3>2 DEF Undisturbed, Replacing
  <2>3. PICK path \in Paths : StartMkdir(t, path) \/ StartSend(t, path) \/ StartRm(t, path) \/ StartMv(t, path)
    BY <1>5 DEF Start
  <2>4. CASE StartMkdir(t, path)
    <3> DEFINE st == [Idle EXCEPT !.pc = "mkdir_look", !.path = path, !.parent = RootId]
    <3>1. Become(t, st) /\ st.pc = "mkdir_look"
      BY <1>a, <2>4 DEF StartMkdir, ThreadState
    <3> QED BY <2>2, <3>1
  <2>5. CASE StartSend(t, path)
    <3>1. PICK c \in Contents, overwrite \in BOOLEAN :
            Become(t, [Idle EXCEPT !.pc = "send_look", !.path = path, !.parent = Resolve(Front(path)),
                         !.name = Last(path), !.content = c, !.overwrite = overwrite])
      BY <2>5 DEF StartSend
    <3> DEFINE st == [Idle EXCEPT !.pc = "send_look", !.path = path, !.parent = Resolve(Front(path)),
                         !.name = Last(path), !.content = c, !.overwrite = overwrite]
    <3>2. st.pc = "send_look"
      BY <1>a DEF ThreadState
    <3> QED BY <2>2, <3>1, <3>2
  <2>6. CASE StartRm(t, path)
    <3>1. PICK pc \in {"rm_read", "rm_meta"} : Become(t, [Idle EXCEPT !.pc = pc, !.node = Resolve(path)])
      BY <2>6 DEF StartRm
    <3>2. [Idle EXCEPT !.pc = pc, !.node = Resolve(path)].pc = pc
      BY <1>a DEF ThreadState
    <3> QED BY <2>2, <3>1, <3>2
  <2>7. CASE StartMv(t, path)
    <3>1. PICK dst \in Paths : Become(t, [Idle EXCEPT !.pc = "mv_dst", !.path = dst, !.node = Resolve(path),
                                                      !.name = Last(path)])
      BY <2>7 DEF StartMv
    <3>2. [Idle EXCEPT !.pc = "mv_dst", !.path = dst, !.node = Resolve(path), !.name = Last(path)].pc = "mv_dst"
      BY <1>a DEF ThreadState
    <3> QED BY <2>2, <3>1, <3>2
  <2> QED BY <2>3, <2>4, <2>5, <2>6, <2>7
<1>6. ASSUME NEW t \in Threads, MkdirLook(t) PROVE Owned' /\ Readable'
  <2> DEFINE st == thread[t]
             new == [st EXCEPT !.parent = Child(st.parent, Head(st.path)), !.path = Tail(st.path)]
  <2>1. /\ st.pc = "mkdir_look" /\ UNCHANGED <<inodes, meta, disk, lastBlob, counters>>
        /\ Goto(t, "mkdir_make") \/ Reply(t) \/ Become(t, new)
    BY <1>6 DEF MkdirLook, Reading, tables, blobs
  <2>2. st.pc \notin HoldPcs /\ st.pc \notin OldPcs /\ st.pc \notin GonePcs /\ st.pc \notin {"stuck", "send_newmeta"}
    BY <2>1 DEF HoldPcs, OldPcs, GonePcs
  <2>3. "mkdir_make" \notin HoldPcs /\ "mkdir_make" \notin OldPcs
    BY DEF HoldPcs, OldPcs
  <2>4. new.pc = st.pc
    BY <1>a DEF ThreadState
  <2> HIDE DEF st, new
  <2>5. CASE Become(t, new)
    BY <1>b, <1>d, <2>1, <2>2, <2>4, <2>5 DEF Replacing, st
  <2> QED BY <1>b, <1>e, <1>f, <2>1, <2>2, <2>3, <2>5 DEF st
<1>7. ASSUME NEW t \in Threads, MkdirMake(t) PROVE Owned' /\ Readable'
  <2> DEFINE st == thread[t]
             n == Head(st.path)
             new == [st EXCEPT !.pc = "mkdir_look", !.parent = lastInode + 1, !.path = Tail(st.path)]
  <2>1. st.pc = "mkdir_make" /\ UNCHANGED <<meta, disk, lastBlob, counters>>
    BY <1>7 DEF MkdirMake, blobs, tables
  <2>2. FileIds' = FileIds
    <3>1. \/ UNCHANGED inodes
          \/ inodes' = NewInode(st.parent, n, TRUE)
      BY <1>7 DEF MkdirMake, tables
    <3>2. CASE inodes' = NewInode(st.parent, n, TRUE)
      <4>1. lastInode + 1 \notin DOMAIN inodes
        BY DEF TypeInv, TablesOK, TreeOK
      <4>2. /\ DOMAIN inodes' = DOMAIN inodes \cup {lastInode + 1} /\ inodes'[lastInode + 1].dir
            /\ \A i \in DOMAIN inodes : inodes'[i] = inodes[i]
        BY <3>2, <4>1 DEF NewInode
      <4> QED BY <4>2 DEF FileIds
    <3> QED BY <1>b, <3>1, <3>2
  <2>3. Reply(t) \/ Become(t, new)
    BY <1>7 DEF MkdirMake
  <2>4. st.pc \notin HoldPcs /\ st.pc \notin OldPcs /\ st.pc \notin GonePcs /\ st.pc \notin {"stuck", "send_newmeta"}
    BY <2>1 DEF HoldPcs, OldPcs, GonePcs
  <2>5. new.pc \notin HoldPcs /\ new.pc \notin OldPcs
    BY <1>a DEF ThreadState, HoldPcs, OldPcs
  <2> HIDE DEF st, new
  <2>6. CASE Become(t, new)
    BY <1>b, <1>d, <2>1, <2>2, <2>4, <2>5, <2>6 DEF Replacing, st
  <2> QED BY <1>b, <1>e, <2>1, <2>2, <2>3, <2>4, <2>6 DEF st
<1>8. ASSUME NEW t \in Threads, SendLook(t) \/ MvDst(t) \/ MvExists(t) \/ MvRead(t) PROVE Owned' /\ Readable'
  <2> DEFINE st == thread[t]
             send == [st EXCEPT !.pc = "send_blob", !.path = <<>>, !.node = Resolve(st.path)]
             into == [st EXCEPT !.pc = "mv_exists", !.path = <<>>, !.parent = Resolve(st.path)]
             at == [st EXCEPT !.pc = "mv_exists", !.path = <<>>, !.parent = Resolve(Front(st.path)),
                              !.name = Last(st.path)]
             read == [st EXCEPT !.pc = "mv_read"]
             write == [st EXCEPT !.pc = "mv_write", !.old = inodes[st.node].parent, !.size = Weight(st.node)]
  <2>1. /\ st.pc \in {"send_look", "mv_dst", "mv_exists", "mv_read"}
        /\ UNCHANGED <<inodes, meta, disk, lastBlob, counters>>
    BY <1>8 DEF SendLook, MvDst, MvExists, MvRead, Reading, tables, blobs
  <2>2. \/ Reply(t) \/ Become(t, send) \/ Become(t, into) \/ Become(t, at) \/ Become(t, read)
        \/ Become(t, write)
    BY <1>8 DEF SendLook, MvDst, MvExists, MvRead, ReadWeight, Goto
  <2>3. st.pc \notin HoldPcs /\ st.pc \notin OldPcs /\ st.pc \notin GonePcs /\ st.pc \notin {"stuck", "send_newmeta"}
    BY <2>1 DEF HoldPcs, OldPcs, GonePcs
  <2>4. /\ send.pc = "send_blob" /\ into.pc = "mv_exists" /\ at.pc = "mv_exists" /\ read.pc = "mv_read"
        /\ write.pc = "mv_write"
    BY <1>a DEF ThreadState
  <2> HIDE DEF st, send, into, at, read, write
  <2>5. ASSUME NEW new, Become(t, new), new.pc \in {"send_blob", "mv_exists", "mv_read", "mv_write"}
        PROVE  Owned' /\ Readable'
    <3>1. new.pc \notin HoldPcs /\ new.pc \notin OldPcs
      BY <2>5 DEF HoldPcs, OldPcs
    <3> QED BY <1>b, <1>d, <2>1, <2>3, <2>5, <3>1 DEF Replacing, st
  <2>6. CASE Reply(t)
    BY <1>b, <1>e, <2>1, <2>3, <2>6 DEF st
  <2> QED BY <2>2, <2>4, <2>5, <2>6
<1>9. ASSUME NEW t \in Threads, WriteBlob(t) PROVE Owned' /\ Readable'
  <2> DEFINE st == thread[t]
             b == lastBlob + 1
             new == [st EXCEPT !.blob = b, !.pc = IF st.node = None THEN "send_inode" ELSE "send_meta"]
  <2>1. /\ st.pc = "send_blob" /\ UNCHANGED <<inodes, meta, counters>> /\ Become(t, new)
        /\ lastBlob' = b /\ DOMAIN disk' = DOMAIN disk \cup {b}
    BY <1>9 DEF WriteBlob, tables
  <2>2. new.pc \in {"send_inode", "send_meta"} /\ new.blob = b
    BY <1>a DEF ThreadState
  <2>3. /\ st.pc \notin HoldPcs /\ st.pc \notin OldPcs /\ st.pc \notin GonePcs
        /\ st.pc \notin {"stuck", "send_newmeta"} /\ new.pc \notin OldPcs
    BY <2>1, <2>2 DEF HoldPcs, OldPcs, GonePcs
  <2>4. thread'[t] = new /\ \A u \in Threads \ {t} : thread'[u] = thread[u]
    BY <2>1, OneMoves
  <2>5. /\ \A n \in 1 .. lastBlob : n # b /\ n \in 1 .. b
        /\ \A i \in DOMAIN meta : meta[i].blob \in 1 .. lastBlob
        /\ \A u \in Threads : /\ thread[u].pc \in HoldPcs => thread[u].blob \in 1 .. lastBlob
                              /\ thread[u].pc \in OldPcs => thread[u].old \in 1 .. lastBlob
    BY <1>a, <1>c DEF TypeInv, TablesOK, ThreadOK, Unlinking
  <2> HIDE DEF b, new
  <2>6. \A u \in Threads : Unlinking(u)'
    BY <1>c, <2>1, <2>3, <2>4, <2>5 DEF Unlinking
  <2>7. ASSUME NEW u \in Threads PROVE Held(u)'
    <3> DEFINE blob == IF u = t THEN b ELSE thread[u].blob
    <3> SUFFICES ASSUME u = t \/ thread[u].pc \in HoldPcs
                 PROVE  /\ blob \in DOMAIN disk' /\ Free(meta', blob)
                        /\ \A v \in Threads \ {u} : ~Holds(thread'[v], blob)
                        /\ \A v \in Threads : ~Unlinks(thread'[v], blob)
      BY <2>2, <2>4 DEF Held
    <3>1. CASE u = t
      BY <2>1, <2>3, <2>4, <2>5, <3>1 DEF Free, Holds, Unlinks
    <3>2. CASE u # t
      <4>1. /\ blob \in DOMAIN disk /\ Free(meta, blob)
            /\ \A v \in Threads \ {u} : ~Holds(thread[v], blob)
            /\ \A v \in Threads : ~Unlinks(thread[v], blob) /\ blob \in 1 .. lastBlob
        BY <1>c, <2>5, <3>2 DEF Held
      <4> HIDE DEF blob
      <4> QED BY <2>1, <2>2, <2>3, <2>4, <2>5, <4>1 DEF Holds, Unlinks
    <3> QED BY <3>1, <3>2
  <2>8. Owned'
    BY <1>c, <2>1, <2>6, <2>7 DEF Owned, OneRow
  <2>9. Readable'
    BY <1>b, <2>1, <2>3, ReadableStep DEF Filling, Replacing
  <2> QED BY <2>8, <2>9
<1>10. ASSUME NEW t \in Threads, InsertFile(t) PROVE Owned' /\ Readable'
  <2> DEFINE st == thread[t]
             new == [st EXCEPT !.pc = "send_newmeta", !.node = lastInode + 1]
  <2>1. st.pc = "send_inode" /\ UNCHANGED <<meta, disk, lastBlob, counters>>
    BY <1>10 DEF InsertFile, tables, blobs
  <2>2. st.pc \notin OldPcs /\ st.pc \notin GonePcs /\ st.pc \notin {"stuck", "send_newmeta"} /\ st.pc \in HoldPcs
    BY <2>1 DEF HoldPcs, OldPcs, GonePcs
  <2>3. CASE Reply(t) /\ UNCHANGED tables
    BY <1>b, <1>e, <2>1, <2>2, <2>3 DEF tables
  <2>4. CASE inodes' = NewInode(st.parent, st.name, FALSE) /\ Become(t, new)
    <3>1. new.pc = "send_newmeta" /\ new.node = lastInode + 1 /\ new.blob = st.blob
      BY <1>a DEF ThreadState
    <3>2. new.pc \in HoldPcs /\ new.pc \notin OldPcs
      BY <3>1 DEF HoldPcs, OldPcs
    <3>3. DOMAIN inodes' = DOMAIN inodes \cup {lastInode + 1}
          /\ \A i \in DOMAIN inodes : i # lastInode + 1 => inodes'[i] = inodes[i]
      BY <2>4 DEF NewInode
    <3> HIDE DEF new
    <3>4. Owned'
      BY <1>c, <2>1, <2>2, <2>4, <3>1, <3>2, OwnedStep
    <3>5. ASSUME NEW i \in FileIds'
          PROVE  i \in DOMAIN meta' \/ Filling(new, i) \/ (i \in FileIds \ DOMAIN meta /\ ~Filling(st, i))
      BY <2>1, <3>1, <3>3 DEF FileIds, Filling
    <3>6. Readable'
      BY <1>b, <2>1, <2>2, <2>4, <3>5, ReadableStep DEF Replacing
    <3> QED BY <3>4, <3>6
  <2> QED BY <1>10, <2>3, <2>4 DEF InsertFile
<1>11. ASSUME NEW t \in Threads, InsertMeta(t) PROVE Owned' /\ Readable'
  <2> DEFINE st == thread[t]
             row == [blob |-> st.blob, size |-> st.content, hash |-> st.content]
             met == [i \in DOMAIN meta \cup {st.node} |-> IF i = st.node THEN row ELSE meta[i]]
             up == [at |-> inodes[st.node].parent, by |-> st.content]
  <2>1. st.pc = "send_newmeta" /\ UNCHANGED <<disk, lastBlob, counters>>
    BY <1>11 DEF InsertMeta, blobs
  <2>2. st.pc \in HoldPcs /\ st.pc \notin GonePcs
    BY <2>1 DEF HoldPcs, GonePcs
  <2>3. CASE st.node \notin DOMAIN inodes /\ Reply(t) /\ UNCHANGED <<inodes, meta>>
    <3>1. Idle.pc \notin HoldPcs /\ Idle.pc \notin OldPcs
      BY <1>a DEF HoldPcs, OldPcs
    <3> HIDE DEF Idle
    <3>2. Owned'
      BY <1>c, <2>1, <2>3, <3>1, OwnedStep DEF Reply
    <3>3. \A i \in FileIds' : i \in DOMAIN meta' \/ (i \in FileIds \ DOMAIN meta /\ ~Filling(st, i))
      BY <2>3 DEF FileIds, Filling
    <3>4. Readable'
      BY <1>b, <2>1, <2>2, <2>3, <3>3, ReadableStep DEF Reply, Replacing
    <3> QED BY <3>2, <3>4
  <2>4. CASE st.node \in DOMAIN inodes /\ Commit(t, inodes, met, up, Nowhere, Idle)
    <3>1. \/ Goto(t, "stuck") /\ UNCHANGED <<inodes, meta>>
          \/ SameRows(inodes', inodes) /\ meta' = met /\ Become(t, Idle)
      <4>1. \A i \in DOMAIN inodes : inodes[i] \in Inode
        BY DEF TypeInv, TablesOK, TreeOK
      <4>2. up.by \in Int /\ Nowhere.by \in Int
        <5>1. \A c \in Contents \cup {0} : c \in Int
          BY VfsAssumption
        <5>2. st.content \in Contents \cup {0}
          BY <1>a DEF ThreadState
        <5> QED BY <5>1, <5>2 DEF Nowhere
      <4> HIDE DEF met, up
      <4> QED BY <2>4, <4>1, <4>2, CommitStep
    <3>2. CASE Goto(t, "stuck") /\ UNCHANGED <<inodes, meta>>
      BY <2>1, <3>2, GetsStuck
    <3>3. CASE SameRows(inodes', inodes) /\ meta' = met /\ Become(t, Idle)
      <4>1. DOMAIN meta' = DOMAIN meta \cup {st.node}
        BY <3>3
      <4>2. \A i \in DOMAIN meta' : IF i = st.node THEN meta'[i].blob = st.blob
                                    ELSE i \in DOMAIN meta /\ meta'[i].blob = meta[i].blob
        BY <3>3
      <4> HIDE DEF Idle
      <4> HIDE DEF met, up
      <4>3. Owned'
        <5>1. UNCHANGED <<disk, lastBlob>> /\ Become(t, Idle) /\ thread[t].pc \in HoldPcs
          BY <2>1, <2>2, <3>3
        <5> QED BY <4>2, <5>1, OwnedPut
      <4>4. \A i \in FileIds' : i \in DOMAIN meta' \/ (i \in FileIds \ DOMAIN meta /\ ~Filling(st, i))
        BY <3>3, <4>1 DEF FileIds, Filling, SameRows
      <4>5. \A i \in DOMAIN meta' : \/ meta'[i].blob \in DOMAIN disk'
                                    \/ i \in DOMAIN meta /\ meta[i].blob \notin DOMAIN disk /\ ~Replacing(st, i)
        BY <1>c, <2>1, <2>2, <4>2 DEF Replacing
      <4>6. Readable'
        BY <1>b, <2>1, <3>3, <4>4, <4>5, ReadableStep
      <4> QED BY <4>3, <4>6
    <3> QED BY <3>1, <3>2, <3>3
  <2> QED BY <1>11, <2>3, <2>4 DEF InsertMeta
<1>12. ASSUME NEW t \in Threads, ReadOldBlob(t) \/ RmMeta(t) PROVE Owned' /\ Readable'
  <2> DEFINE st == thread[t]
  <2>1. st.pc \in {"send_meta", "rm_meta"} /\ UNCHANGED <<inodes, meta, disk, lastBlob, counters>>
    BY <1>12 DEF ReadOldBlob, RmMeta, Reading, tables, blobs
  <2>2. \E pc \in {"send_unlink", "rm_unlink", "send_oldsize", "rm_read"} :
           /\ pc \in HoldPcs => st.pc \in HoldPcs
           /\ \/ /\ pc \in OldPcs /\ st.node \in DOMAIN meta
                 /\ Become(t, [st EXCEPT !.pc = pc, !.old = meta[st.node].blob])
              \/ pc \notin OldPcs /\ Goto(t, pc)
    BY <1>12 DEF ReadOldBlob, RmMeta, OldPcs, HoldPcs
  <2>3. PICK pc \in {"send_unlink", "rm_unlink", "send_oldsize", "rm_read"} :
           /\ pc \in HoldPcs => st.pc \in HoldPcs
           /\ \/ /\ pc \in OldPcs /\ st.node \in DOMAIN meta
                 /\ Become(t, [st EXCEPT !.pc = pc, !.old = meta[st.node].blob])
              \/ pc \notin OldPcs /\ Goto(t, pc)
    BY <2>2
  <2>4. st.pc \notin GonePcs /\ st.pc \notin {"stuck", "send_newmeta"}
    BY <2>1 DEF GonePcs
  <2> DEFINE read == [st EXCEPT !.pc = pc, !.old = meta[st.node].blob]
             go == [st EXCEPT !.pc = pc]
  <2>5. /\ read.pc = pc /\ read.blob = st.blob /\ read.node = st.node /\ read.old = meta[st.node].blob
        /\ go.pc = pc /\ go.blob = st.blob
    BY <1>a DEF ThreadState
  <2>6. \/ pc \in OldPcs /\ st.node \in DOMAIN meta /\ Become(t, read)
        \/ pc \notin OldPcs /\ Become(t, go)
    BY <2>3 DEF Goto
  <2> HIDE DEF st, read, go
  <2>7. pc \in HoldPcs => st.pc \in HoldPcs
    BY <2>3
  <2> QED BY <1>b, <1>d, <2>1, <2>4, <2>5, <2>6, <2>7 DEF st, Replacing
<1>13. ASSUME NEW t \in Threads, UnlinkOld(t) \/ RmUnlink(t) PROVE Owned' /\ Readable'
  <2> DEFINE st == thread[t]
  <2>1. /\ st.pc \in {"send_unlink", "rm_unlink"} /\ UNCHANGED <<inodes, meta, lastBlob, counters>>
        /\ disk' = [c \in DOMAIN disk \ {st.old} |-> disk[c]]
    BY <1>13 DEF UnlinkOld, RmUnlink, tables, Unlink
  <2>2. PICK pc \in {"send_oldsize", "rm_read"} :
          /\ pc \in HoldPcs => st.pc \in HoldPcs
          /\ Become(t, [st EXCEPT !.pc = pc, !.old = None])
    BY <1>13 DEF UnlinkOld, RmUnlink, HoldPcs
  <2> DEFINE new == [st EXCEPT !.pc = pc, !.old = None]
  <2>3. new.pc = pc /\ new.blob = st.blob /\ new.node = st.node /\ Become(t, new)
    BY <1>a, <2>2 DEF ThreadState
  <2> HIDE DEF new
  <2>4. /\ pc \notin OldPcs /\ pc \in GonePcs /\ st.pc \in OldPcs /\ st.pc \notin GonePcs
        /\ st.pc \notin {"stuck", "send_newmeta"}
    BY <2>1 DEF OldPcs, GonePcs
  <2>5. DOMAIN disk' = DOMAIN disk \ {st.old}
    BY <2>1
  <2>6. ASSUME NEW u \in Threads, thread[u].pc \in HoldPcs PROVE thread[u].blob \in DOMAIN disk'
    BY <1>c, <2>4, <2>5, <2>6 DEF Held, Unlinks
  <2>7. Owned'
    BY <2>1, <2>2, <2>3, <2>4, <2>6, OwnedStep
  <2>8. \A i \in FileIds' : i \in DOMAIN meta' \/ (i \in FileIds \ DOMAIN meta /\ ~Filling(st, i))
    BY <1>b, <2>1, <2>4 DEF Filling
  <2>9. \A i \in DOMAIN meta' :
          \/ meta'[i].blob \in DOMAIN disk' \/ Replacing(new, i)
          \/ i \in DOMAIN meta /\ meta[i].blob \notin DOMAIN disk /\ ~Replacing(st, i)
    <3>1. \A i \in DOMAIN meta : meta[i].blob = st.old => i = st.node
      BY <1>c, <2>4 DEF Unlinking
    <3> QED BY <2>1, <2>3, <2>4, <2>5, <3>1 DEF Replacing
  <2>10. Readable'
    BY <1>b, <2>1, <2>3, <2>4, <2>8, <2>9, ReadableStep
  <2> QED BY <2>7, <2>10
<1>14. ASSUME NEW t \in Threads, ReadOldSize(t) PROVE Owned' /\ Readable'
  <2> DEFINE st == thread[t]
             new == [st EXCEPT !.pc = "send_update",
                               !.size = IF st.node \in DOMAIN meta THEN meta[st.node].size ELSE 0]
  <2>1. st.pc = "send_oldsize" /\ UNCHANGED <<inodes, meta, disk, lastBlob, counters>> /\ Become(t, new)
    BY <1>14 DEF ReadOldSize, Reading, tables, blobs
  <2>2. new.pc = "send_update" /\ new.blob = st.blob /\ new.node = st.node
    BY <1>a DEF ThreadState
  <2> HIDE DEF new
  <2>3. /\ new.pc \in HoldPcs /\ new.pc \in GonePcs /\ new.pc \notin OldPcs /\ st.pc \in HoldPcs
        /\ st.pc \notin {"stuck", "send_newmeta"}
    BY <2>1, <2>2 DEF HoldPcs, OldPcs, GonePcs
  <2> QED BY <1>b, <1>d, <2>1, <2>2, <2>3 DEF Replacing
\* Thread t commits: rows of files stay or go with their metadata.
<1>g. ASSUME NEW t \in Threads, NEW ino, \A i \in DOMAIN ino : ino[i] \in Inode, NEW met,
             NEW first, NEW second, first.by \in Int, second.by \in Int,
             NEW st, Commit(t, ino, met, first, second, st), UNCHANGED <<disk, lastBlob, counters>>,
             thread[t].pc \notin {"stuck", "send_newmeta"},
             \A i \in DOMAIN ino : i \in DOMAIN inodes /\ ino[i].dir = inodes[i].dir,
             \A i \in DOMAIN met : i \in DOMAIN meta /\ met[i].blob = meta[i].blob,
             \A i \in DOMAIN ino : i \in DOMAIN meta => i \in DOMAIN met,
             st.pc \in HoldPcs => thread[t].pc \in HoldPcs /\ st.blob = thread[t].blob, st.pc \notin OldPcs,
             \A i \in DOMAIN met : Replacing(thread[t], i) => Replacing(st, i)
      PROVE  Owned' /\ Readable'
  <2>1. CASE Goto(t, "stuck") /\ UNCHANGED <<inodes, meta>>
    BY <1>g, <2>1, GetsStuck
  <2>2. CASE SameRows(inodes', ino) /\ meta' = met /\ Become(t, st)
    <3>1. Owned'
      BY <1>c, <1>g, <2>2, OwnedStep
    <3>2. \A i \in FileIds' : i \in DOMAIN meta' \/ (i \in FileIds \ DOMAIN meta /\ ~Filling(thread[t], i))
      BY <1>g, <2>2 DEF FileIds, Filling, SameRows
    <3>3. \A i \in DOMAIN meta' :
            \/ meta'[i].blob \in DOMAIN disk' \/ Replacing(st, i)
            \/ i \in DOMAIN meta /\ meta[i].blob \notin DOMAIN disk /\ ~Replacing(thread[t], i)
      BY <1>g, <2>2
    <3>4. Readable'
      <4>1. thread[t].pc # "stuck" /\ Become(t, st) /\ (Undisturbed' => Undisturbed)
        BY <1>b, <1>g, <2>2
      <4> QED BY <3>2, <3>3, <4>1, ReadableStep
    <3> QED BY <3>1, <3>4
  <2> QED BY <1>g, <2>1, <2>2, CommitStep
<1>h. /\ \A i \in DOMAIN inodes : inodes[i] \in Inode
      /\ \A t \in Threads : thread[t].content \in Int /\ thread[t].size \in Int /\ Counted(thread[t]) \in Int
      /\ Nowhere.by \in Int
  <2>1. \A c \in Contents \cup {0} : c \in Int
    BY VfsAssumption
  <2>2. \A t \in Threads : thread[t].content \in Contents \cup {0} /\ thread[t].size \in Int
    BY <1>a DEF ThreadState
  <2> QED BY <2>1, <2>2 DEF Nowhere, Counted, TypeInv, TablesOK, TreeOK
<1>15. ASSUME NEW t \in Threads, UpdateSize(t) PROVE Owned' /\ Readable'
  <2> DEFINE st == thread[t]
             met == IF st.node \in DOMAIN meta
                    THEN [meta EXCEPT ![st.node].size = st.content, ![st.node].hash = st.content]
                    ELSE meta
             up == [at |-> IF st.node \in DOMAIN inodes THEN inodes[st.node].parent ELSE None,
                    by |-> Delta(st)]
             new == [st EXCEPT !.pc = "send_point", !.size = 0]
  <2>1. /\ st.pc = "send_update" /\ UNCHANGED <<disk, lastBlob, counters>>
        /\ Commit(t, inodes, met, up, Nowhere, new)
    BY <1>15 DEF UpdateSize, blobs
  <2>2. new.pc = "send_point" /\ new.blob = st.blob /\ new.node = st.node
    BY <1>a DEF ThreadState
  <2>3. /\ st.pc \in HoldPcs /\ st.pc \notin {"stuck", "send_newmeta"}
        /\ new.pc \in HoldPcs /\ new.pc \notin OldPcs /\ new.pc \in GonePcs
    BY <2>1, <2>2 DEF HoldPcs, OldPcs, GonePcs
  <2>4. DOMAIN met = DOMAIN meta /\ \A i \in DOMAIN met : met[i].blob = meta[i].blob
    BY DEF TypeInv, TablesOK, Meta
  <2>5. up.by \in Int
    BY <1>h DEF Delta
  <2> HIDE DEF met, up, new
  <2>6. \A i \in DOMAIN met : Replacing(st, i) => Replacing(new, i)
    BY <2>2, <2>3 DEF Replacing
  <2> QED BY <1>g, <1>h, <2>1, <2>2, <2>3, <2>4, <2>5, <2>6
<1>16. ASSUME NEW t \in Threads, PointMeta(t) PROVE Owned' /\ Readable'
  <2> DEFINE st == thread[t]
  <2>1. /\ st.pc = "send_point" /\ UNCHANGED <<inodes, disk, lastBlob, counters>> /\ Become(t, Idle)
        /\ meta' = IF st.node \in DOMAIN meta THEN [meta EXCEPT ![st.node].blob = st.blob] ELSE meta
    BY <1>16 DEF PointMeta, Reply, blobs
  <2>2. st.pc \in HoldPcs /\ st.pc \notin {"stuck", "send_newmeta"}
    BY <2>1 DEF HoldPcs
  <2>3. /\ DOMAIN meta' = DOMAIN meta
        /\ \A i \in DOMAIN meta' : IF i = st.node THEN meta'[i].blob = st.blob ELSE meta'[i].blob = meta[i].blob
    BY <2>1 DEF TypeInv, TablesOK, Meta
  <2> HIDE DEF Idle
  <2>4. Owned'
    BY <2>1, <2>2, <2>3, OwnedPut
  <2>5. \A i \in FileIds' : i \in DOMAIN meta' \/ (i \in FileIds \ DOMAIN meta /\ ~Filling(st, i))
    BY <1>b, <2>1, <2>2, <2>3 DEF Filling
  <2>6. \A i \in DOMAIN meta' : \/ meta'[i].blob \in DOMAIN disk'
                                \/ i \in DOMAIN meta /\ meta[i].blob \notin DOMAIN disk /\ ~Replacing(st, i)
    BY <1>c, <2>1, <2>2, <2>3 DEF Replacing
  <2>7. Readable'
    BY <1>b, <2>1, <2>2, <2>5, <2>6, ReadableStep
  <2> QED BY <2>4, <2>7
<1>17. ASSUME NEW t \in Threads, RmRead(t) PROVE Owned' /\ Readable'
  <2> DEFINE st == thread[t]
             new == [st EXCEPT !.pc = "rm_delete", !.old = inodes[st.node].parent, !.size = Weight(st.node)]
  <2>1. /\ st.pc = "rm_read" /\ UNCHANGED <<inodes, meta, disk, lastBlob, counters>>
        /\ (st.node \notin DOMAIN inodes /\ Reply(t)) \/ Become(t, new)
    BY <1>17 DEF RmRead, ReadWeight, Reading, tables, blobs
  <2>2. new.pc = "rm_delete" /\ new.node = st.node
    BY <1>a DEF ThreadState
  <2> HIDE DEF new
  <2>3. st.pc \notin {"stuck", "send_newmeta"} /\ new.pc \notin HoldPcs /\ new.pc \notin OldPcs /\ new.pc \in GonePcs
    BY <2>1, <2>2 DEF HoldPcs, OldPcs, GonePcs
  <2>4. CASE st.node \notin DOMAIN inodes /\ Reply(t)
    BY <1>a, <1>b, <1>e, <2>1, <2>3, <2>4
  <2>5. CASE Become(t, new)
    BY <1>b, <1>d, <2>1, <2>2, <2>3, <2>5 DEF Replacing
  <2> QED BY <2>1, <2>4, <2>5
<1>18. ASSUME NEW t \in Threads, RmDelete(t) PROVE Owned' /\ Readable'
  <2> DEFINE st == thread[t]
             gone == Cascade(st.node)
             left == [i \in DOMAIN inodes \ gone |-> inodes[i]]
             met == [i \in DOMAIN meta \ gone |-> meta[i]]
             up == [at |-> IF gone = {} THEN None ELSE st.old, by |-> -Counted(st)]
  <2>1. /\ st.pc = "rm_delete" /\ UNCHANGED <<disk, lastBlob, counters>>
        /\ Commit(t, left, met, up, Nowhere, Idle)
    BY <1>18 DEF RmDelete
  <2>2. st.node # RootId /\ (st.node \in DOMAIN inodes => st.node \in gone)
    <3>1. st.node # RootId
      BY <1>a, <2>1 DEF ThreadOK, NodePcs
    <3> QED BY <3>1, CascadeTree DEF TypeInv, TablesOK
  <2>3. /\ Idle.pc \notin HoldPcs /\ Idle.pc \notin OldPcs /\ up.by \in Int
        /\ st.pc \notin {"stuck", "send_newmeta"}
    BY <1>a, <1>h, <2>1 DEF HoldPcs, OldPcs
  <2> HIDE DEF gone, Idle
  <2>4. /\ \A i \in DOMAIN left : i \in DOMAIN inodes /\ left[i] = inodes[i]
        /\ \A i \in DOMAIN met : i \in DOMAIN meta /\ met[i] = meta[i] /\ i # st.node
        /\ \A i \in DOMAIN left : i \in DOMAIN meta => i \in DOMAIN met
    BY <1>a, <2>2
  <2> HIDE DEF left, met, up
  <2>5. \A i \in DOMAIN met : ~Replacing(st, i)
    BY <2>4 DEF Replacing
  <2>6. \A i \in DOMAIN left : left[i] \in Inode
    BY <1>h, <2>4
  <2> QED BY <1>g, <1>h, <2>1, <2>3, <2>4, <2>5, <2>6
<1>19. ASSUME NEW t \in Threads, MvWrite(t) PROVE Owned' /\ Readable'
  <2> DEFINE st == thread[t]
             moved == [inodes EXCEPT ![st.node].parent = st.parent, ![st.node].name = st.name]
             from == [at |-> st.old, by |-> -Counted(st)]
             to == [at |-> st.parent, by |-> Counted(st)]
  <2>1. /\ st.pc = "mv_write" /\ UNCHANGED <<disk, lastBlob, counters>>
        /\ \/ Reply(t) /\ UNCHANGED <<inodes, meta>>
           \/ /\ st.node \in DOMAIN inodes /\ MayPut(st.node, st.parent, st.name)
              /\ Commit(t, moved, meta, from, to, Idle)
    BY <1>19 DEF MvWrite, blobs
  <2>2. st.pc \notin {"stuck", "send_newmeta"} /\ st.pc \notin GonePcs
    BY <2>1 DEF GonePcs
  <2>3. CASE Reply(t) /\ UNCHANGED <<inodes, meta>>
    BY <1>b, <1>e, <2>1, <2>2, <2>3
  <2>4. CASE /\ st.node \in DOMAIN inodes /\ MayPut(st.node, st.parent, st.name)
             /\ Commit(t, moved, meta, from, to, Idle)
    <3>1. TreeOK(moved, lastInode) /\ DOMAIN moved = DOMAIN inodes
          /\ \A i \in DOMAIN inodes : moved[i].dir = inodes[i].dir
      <4>1. st.node \in DOMAIN inodes /\ MayPut(st.node, st.parent, st.name)
        BY <2>4
      <4>2. st.node # RootId /\ st.name \in Segments \cup {RootName}
        BY <1>a, <2>1 DEF ThreadOK, NodePcs, ThreadState
      <4>3. TreeOK(inodes, lastInode) /\ lastInode \in Nat
        BY DEF TypeInv, TablesOK
      <4>4. \A i \in DOMAIN inodes : moved[i].dir = inodes[i].dir
        BY <1>h, <4>1 DEF Inode
      <4>5. TreeOK(moved, lastInode) /\ DOMAIN moved = DOMAIN inodes
        <5> HIDE DEF st
        <5> QED BY <4>1, <4>2, <4>3, MovedTree
      <4> QED BY <4>4, <4>5
    <3>2. /\ Idle.pc \notin HoldPcs /\ Idle.pc \notin OldPcs /\ from.by \in Int /\ to.by \in Int
      BY <1>a, <1>h DEF HoldPcs, OldPcs
    <3> HIDE DEF moved, from, to, Idle
    <3>3. \A i \in DOMAIN moved : moved[i] \in Inode
      BY <3>1 DEF TreeOK
    <3>4. \A i \in DOMAIN meta : ~Replacing(st, i)
      BY <2>2 DEF Replacing
    <3>5. Commit(t, moved, meta, from, to, Idle)
      BY <2>4
    <3> QED BY <1>g, <2>1, <2>2, <3>1, <3>2, <3>3, <3>4, <3>5
  <2> QED BY <2>1, <2>3, <2>4
<1> QED BY <1>1, <1>2, <1>3, <1>4, <1>5, <1>6, <1>7, <1>8, <1>9, <1>10, <1>11, <1>12, <1>13, <1>14,
           <1>15, <1>16, <1>17, <1>18, <1>19 DEF Next, Step, Serve

LEMMA FilesInit == Init => Owned /\ Readable
<1> SUFFICES ASSUME Init PROVE Owned /\ Readable
  OBVIOUS
<1>1. /\ DOMAIN inodes = {RootId} /\ inodes[RootId].dir /\ DOMAIN meta = {}
      /\ \A t \in Threads : thread[t] = Idle
  BY DEF Init, NoInode
<1>2. Idle.pc \notin HoldPcs /\ Idle.pc \notin OldPcs
  BY IdleType DEF HoldPcs, OldPcs
<1> HIDE DEF Idle
<1>3. Owned
  BY <1>1, <1>2 DEF Owned, OneRow, Held, Unlinking
<1>4. Readable
  BY <1>1 DEF Readable, FileIds
<1> QED BY <1>3, <1>4

\* Unless a request was cut short, every file can be read when none is running,
\* whatever requests overlap: uploads to one path, removals and moves cannot leave a
\* file without metadata or a row that names a blob which is not there.
THEOREM EveryFileHasItsBlob == Spec => []FilesReadable
<1>1. Init => FilesInv
  BY TypeInit, FilesInit DEF FilesInv
<1>2. FilesInv /\ [Next]_vars => FilesInv'
  BY TypeNext, FilesNext DEF FilesInv
<1>3. FilesInv => FilesReadable
  <2> SUFFICES ASSUME FilesInv, Undisturbed, Quiet, NEW i \in FileIds
               PROVE  i \in DOMAIN meta /\ meta[i].blob \in DOMAIN disk
    BY DEF FilesReadable, EveryFileReadable
  <2>1. \A t \in Threads : thread[t].pc = "idle"
    BY DEF Quiet
  <2>2. ~Stuck /\ \A t \in Threads : ~Filling(thread[t], i) /\ ~Replacing(thread[t], i)
    BY <2>1 DEF Stuck, Filling, Replacing, GonePcs
  <2>3. Filled(i) /\ (i \in DOMAIN meta => Backed(i))
    BY <2>2 DEF FilesInv, Readable
  <2> QED BY <2>2, <2>3 DEF Filled, Backed
<1> QED BY <1>1, <1>2, <1>3, PTL DEF Spec

-----------------------------------------------------------------------------
(* The inodes on the way of a path                                         *)

\* Every set of numbers that is not empty has a least one.
LEMMA LeastNumber == ASSUME NEW S \in SUBSET Nat, S # {} PROVE \E n \in S : \A m \in S : n <= m
<1> DEFINE upTo == {0 .. n : n \in S}
<1>1. upTo \subseteq FiniteSubsetsOf(Nat)
  <2>1. ASSUME NEW n \in S PROVE 0 .. n \in SUBSET Nat /\ IsFiniteSet(0 .. n)
    BY FS_Interval
  <2> QED BY <2>1 DEF FiniteSubsetsOf
<1>2. upTo # {}
  OBVIOUS
<1>3. PICK x \in upTo : \A y \in upTo : <<y, x>> \notin StrictSubsetOrdering(Nat)
  BY <1>1, <1>2, WFMin, FS_StrictSubsetOrderingWellFounded
<1>4. PICK n \in S : x = 0 .. n
  OBVIOUS
<1>5. ASSUME NEW m \in S, m < n PROVE FALSE
  <2>1. 0 .. m \subseteq 0 .. n /\ n \in 0 .. n /\ n \notin 0 .. m
    BY <1>5
  <2>2. <<0 .. m, x>> \in StrictSubsetOrdering(Nat)
    BY <1>4, <2>1 DEF StrictSubsetOrdering
  <2> QED BY <1>3, <2>2
<1> QED BY <1>5

\* The inodes on the way of a path, said without Child.
At(w, k) == IF k = 0 THEN RootId ELSE w[k]
Ways(ino, path) ==
  {w \in [1 .. Len(path) -> DOMAIN ino] :
     \A k \in 1 .. Len(path) : Place(ino[w[k]]) = <<At(w, k - 1), path[k]>>}
Leads(ino, path, i) == \E w \in Ways(ino, path) : At(w, Len(path)) = i

\* Two numbers that follow each other on a way.
LEMMA WayFacts ==
  ASSUME NEW ino, NEW last, TreeOK(ino, last), last \in Nat, NEW path \in Paths, NEW w \in Ways(ino, path)
  PROVE  /\ Len(path) \in Nat
         /\ \A k \in 0 .. Len(path) : At(w, k) \in DOMAIN ino
         /\ \A k \in 1 .. Len(path) : /\ At(w, k) # RootId /\ k - 1 \in 0 .. Len(path)
                                      /\ ino[At(w, k)].parent = At(w, k - 1)
                                      /\ ino[At(w, k)].name = path[k]
<1>1. Len(path) \in Nat
  BY PathFacts
<1>2. /\ w \in [1 .. Len(path) -> DOMAIN ino]
      /\ \A k \in 1 .. Len(path) : ino[w[k]].parent = At(w, k - 1) /\ ino[w[k]].name = path[k]
  BY DEF Ways, Place
<1>3. RootId \in DOMAIN ino /\ ino[RootId].parent = None /\ None \notin DOMAIN ino
  BY DEF TreeOK, None
<1>4. \A k \in 0 .. Len(path) : k # 0 => k \in 1 .. Len(path)
  BY <1>1
<1>5. \A k \in 0 .. Len(path) : At(w, k) \in DOMAIN ino
  BY <1>2, <1>3, <1>4 DEF At
<1>6. \A k \in 1 .. Len(path) : k - 1 \in 0 .. Len(path) /\ k # 0
  BY <1>1
<1>7. \A k \in 1 .. Len(path) : At(w, k) = w[k]
  BY <1>6 DEF At
<1> QED BY <1>1, <1>2, <1>3, <1>5, <1>6, <1>7

\* A walk of resolve_path is a way.
LEMMA WalkIsWay ==
  ASSUME TreeOK(inodes, lastInode), lastInode \in Nat, NEW path \in Paths
  PROVE  Walks(path) = Ways(inodes, path)
<1>1. Len(path) \in Nat /\ None \notin DOMAIN inodes
  BY PathFacts DEF TreeOK, None
<1>2. ASSUME NEW w \in [1 .. Len(path) -> DOMAIN inodes], NEW k \in 1 .. Len(path)
      PROVE  /\ w[k] \in DOMAIN inodes
             /\ (w[k] = Child(IF k = 1 THEN RootId ELSE w[k - 1], path[k]) <=>
                 Place(inodes[w[k]]) = <<At(w, k - 1), path[k]>>)
  <2> DEFINE p == At(w, k - 1)
             n == path[k]
  <2>1. p = IF k = 1 THEN RootId ELSE w[k - 1]
    BY <1>1 DEF At
  <2>2. w[k] \in DOMAIN inodes
    BY <1>2
  <2>3. p # None
    <3>1. k # 1 => k - 1 \in 1 .. Len(path)
      BY <1>1
    <3>2. RootId \in DOMAIN inodes
      BY DEF TreeOK
    <3> QED BY <1>1, <2>1, <3>1, <3>2
  <2> HIDE DEF p, n
  <2>4. w[k] = Child(p, n) => inodes[w[k]].parent = p /\ inodes[w[k]].name = n
    BY <1>1, <2>2, ChildFacts
  <2>5. inodes[w[k]].parent = p /\ inodes[w[k]].name = n => w[k] = Child(p, n)
    <3> SUFFICES ASSUME inodes[w[k]].parent = p, inodes[w[k]].name = n PROVE w[k] = Child(p, n)
      OBVIOUS
    <3>1. Child(p, n) \in DOMAIN inodes /\ inodes[Child(p, n)].parent = p /\ inodes[Child(p, n)].name = n
      BY <2>2, ChildFacts
    <3>2. w[k] # RootId
      BY <2>3 DEF TreeOK
    <3> QED BY <2>2, <3>1, <3>2 DEF TreeOK, Place
  <2>6. Place(inodes[w[k]]) = <<p, n>> <=> inodes[w[k]].parent = p /\ inodes[w[k]].name = n
    BY DEF Place
  <2> QED BY <2>1, <2>2, <2>4, <2>5, <2>6 DEF p, n
<1> QED BY <1>2 DEF Walks, Ways

\* There is one way at most.
LEMMA OneWay ==
  ASSUME NEW ino, NEW last, TreeOK(ino, last), last \in Nat, NEW path \in Paths,
         NEW w \in Ways(ino, path), NEW v \in Ways(ino, path)
  PROVE  w = v
<1>1. Len(path) \in Nat /\ w \in [1 .. Len(path) -> DOMAIN ino] /\ v \in [1 .. Len(path) -> DOMAIN ino]
  BY PathFacts DEF Ways
<1> DEFINE differ == {k \in 1 .. Len(path) : w[k] # v[k]}
<1>2. CASE differ = {}
  BY <1>1, <1>2
<1>3. CASE differ # {}
  <2>1. differ \in SUBSET Nat
    BY <1>1
  <2>2. PICK k \in differ : \A m \in differ : k <= m
    BY <1>3, <2>1, LeastNumber
  <2>3. k \in 1 .. Len(path) /\ w[k] # v[k]
    BY <2>2
  <2>4. At(w, k - 1) = At(v, k - 1)
    <3>1. k # 1 => k - 1 \in 1 .. Len(path) /\ ~(k <= k - 1)
      BY <1>1, <2>3
    <3>2. k # 1 => w[k - 1] = v[k - 1]
      BY <2>2, <3>1
    <3>3. k - 1 = 0 <=> k = 1
      BY <1>1, <2>3
    <3> QED BY <3>2, <3>3 DEF At
  <2>5. At(w, k) = w[k] /\ At(v, k) = v[k] /\ k \in 0 .. Len(path)
    BY <1>1, <2>3 DEF At
  <2>6. /\ w[k] \in DOMAIN ino /\ v[k] \in DOMAIN ino /\ w[k] # RootId
        /\ ino[w[k]].parent = ino[v[k]].parent /\ ino[w[k]].name = ino[v[k]].name
    BY <2>3, <2>4, <2>5, WayFacts
  <2> QED BY <2>3, <2>6 DEF TreeOK, Place
<1> QED BY <1>2, <1>3

LEMMA LeadsIsResolve ==
  ASSUME TreeOK(inodes, lastInode), lastInode \in Nat, NEW path \in Paths
  PROVE  /\ Resolve(path) # None => Leads(inodes, path, Resolve(path))
         /\ \A i : Leads(inodes, path, i) => Resolve(path) = i /\ i \in DOMAIN inodes
<1>1. Walks(path) = Ways(inodes, path) /\ Len(path) \in Nat
  BY WalkIsWay, PathFacts
<1>2. path = <<>> <=> Len(path) = 0
  BY PathFacts, EmptySeq
<1>3. CASE path = <<>>
  <2>1. Resolve(path) = RootId /\ \A w : At(w, Len(path)) = RootId
    BY <1>2, <1>3 DEF Resolve, At
  <2>2. Ways(inodes, path) # {}
    <3>1. [k \in 1 .. 0 |-> RootId] \in [1 .. Len(path) -> DOMAIN inodes] /\ 1 .. Len(path) = {}
      BY <1>2, <1>3
    <3> QED BY <3>1 DEF Ways
  <2>3. RootId \in DOMAIN inodes
    BY DEF TreeOK
  <2> QED BY <2>1, <2>2, <2>3 DEF Leads
<1>4. CASE path # <<>> /\ Walks(path) = {}
  BY <1>1, <1>4 DEF Resolve, Leads
<1>5. CASE path # <<>> /\ Walks(path) # {}
  <2>1. PICK v \in Walks(path) : Resolve(path) = v[Len(path)]
    BY <1>5 DEF Resolve
  <2>2. At(v, Len(path)) = v[Len(path)] /\ \A w \in Ways(inodes, path) : w = v
    BY <1>1, <1>2, <1>5, <2>1, OneWay DEF At
  <2>3. At(v, Len(path)) \in DOMAIN inodes
    <3>1. Len(path) \in 0 .. Len(path)
      BY <1>1
    <3> QED BY <1>1, <2>1, <3>1, WayFacts
  <2> QED BY <1>1, <2>1, <2>2, <2>3 DEF Leads
<1> QED BY <1>3, <1>4, <1>5

LEMMA FrontFacts ==
  ASSUME NEW path \in Paths, path # <<>>
  PROVE  Len(Front(path)) = Len(path) - 1 /\ \A m \in 1 .. Len(Front(path)) : Front(path)[m] = path[m]
<1> DEFINE n == Len(path)
           front == SubSeq(path, 1, n - 1)
<1>1. n \in Nat \ {0} /\ path \in Seq(Segments)
  BY PathFacts
<1>2. Front(path) = front
  BY DEF Front
<1>3. \A m \in 1 .. n - 1 : path[m] \in Segments
  BY <1>1
<1> HIDE DEF n
<1>4. Len(front) = n - 1 /\ \A m \in 1 .. n - 1 - 1 + 1 : front[m] = path[1 + m - 1]
  BY <1>1, <1>3, SubSeqProperties
<1>5. n - 1 - 1 + 1 = n - 1 /\ \A m \in 1 .. n - 1 : 1 + m - 1 = m
  BY <1>1
<1> QED BY <1>1, <1>2, <1>4, <1>5 DEF n

\* A way goes on to what is in its last inode.
LEMMA WayGoesOn ==
  ASSUME NEW ino, NEW path \in Paths, path # <<>>, NEW p, Leads(ino, Front(path), p),
         NEW i \in DOMAIN ino, Place(ino[i]) = <<p, Last(path)>>
  PROVE  Leads(ino, path, i)
<1> DEFINE n == Len(path)
<1>1. /\ n \in Nat \ {0} /\ path \in Seq(Segments) /\ Front(path) \in Paths
      /\ Len(Front(path)) = n - 1 /\ Last(path) = path[n]
      /\ \A k \in 1 .. n - 1 : Front(path)[k] = path[k]
  <2>1. n \in Nat \ {0} /\ path \in Seq(Segments) /\ Front(path) \in Paths
    BY PathFacts
  <2>2. Last(path) = path[n]
    BY DEF Last
  <2> QED BY <2>1, <2>2, FrontFacts
<1>2. PICK v \in Ways(ino, Front(path)) : At(v, n - 1) = p
  BY <1>1 DEF Leads
<1> DEFINE w == [k \in 1 .. n |-> IF k = n THEN i ELSE v[k]]
<1>3. v \in [1 .. n - 1 -> DOMAIN ino]
  BY <1>1, <1>2 DEF Ways
<1>4. \A k \in 1 .. n : k # n => k \in 1 .. n - 1
  BY <1>1
<1>5. w \in [1 .. n -> DOMAIN ino]
  BY <1>3, <1>4
<1>6. w[n] = i /\ At(w, n - 1) = p /\ At(w, n) = i
  BY <1>1, <1>2 DEF At
<1>7. \A k \in 1 .. n - 1 : w[k] = v[k] /\ At(w, k - 1) = At(v, k - 1)
  BY <1>1 DEF At
<1> HIDE DEF w, n
<1>8. ASSUME NEW k \in 1 .. n PROVE Place(ino[w[k]]) = <<At(w, k - 1), path[k]>>
  <2>1. CASE k = n
    BY <1>1, <1>6, <2>1
  <2>2. CASE k # n
    <3>1. k \in 1 .. n - 1
      BY <1>4, <2>2
    <3>2. Place(ino[v[k]]) = <<At(v, k - 1), Front(path)[k]>>
      BY <1>1, <1>2, <3>1 DEF Ways
    <3> QED BY <1>1, <1>7, <3>1, <3>2
  <2> QED BY <2>1, <2>2
<1>9. w \in Ways(ino, path)
  BY <1>5, <1>8 DEF Ways, n
<1> QED BY <1>6, <1>9 DEF Leads, n

-----------------------------------------------------------------------------
(* One request at a time: files and their blobs                            *)

\* Only files have metadata; the blob of a row went away with no directory and, if it is
\* there, is the one that the row describes.
RowsOK(ino, met, dsk, swp) ==
  \A i \in DOMAIN met :
    /\ ~ino[i].dir /\ met[i].blob \notin swp
    /\ met[i].blob \in DOMAIN dsk => met[i].hash = dsk[met[i].blob] /\ met[i].size = dsk[met[i].blob]

\* A thread holds the blob it has written; an overwrite describes it before the row names
\* it, when the old blob is gone; what a thread is to unlink is the blob of its file.
DescribePcs == {"send_oldsize", "send_update", "send_point"}
Doing(st, ino, met, dsk, swp) ==
  /\ st.pc \in HoldPcs => dsk[st.blob] = st.content /\ st.blob \notin swp
  /\ st.pc \in DescribePcs /\ st.node \in DOMAIN met => met[st.node].blob \notin DOMAIN dsk
  /\ st.pc = "send_point" /\ st.node \in DOMAIN met =>
       met[st.node].size = st.content /\ met[st.node].hash = st.content
  /\ st.pc \in OldPcs => st.node \in DOMAIN met /\ met[st.node].blob = st.old
  /\ st.pc \in {"send_newmeta", "send_meta"} \/ (st.pc = "send_blob" /\ st.node # None) =>
       st.node \in DOMAIN ino /\ ~ino[st.node].dir
  /\ st.pc = "send_newmeta" => st.node \notin DOMAIN met

\* The place of a new file is free from the look at the path on.
Placed(st, ino) ==
  /\ st.pc = "send_look" => Leads(ino, Front(st.path), st.parent) /\ st.name = Last(st.path)
  /\ st.pc = "send_inode" \/ (st.pc = "send_blob" /\ st.node = None) =>
       st.parent \in DOMAIN ino /\ \A i \in DOMAIN ino : Place(ino[i]) # <<st.parent, st.name>>

\* An overwrite has a row to write to.
HasRow(st, met) == st.pc \in {"send_unlink"} \cup DescribePcs => st.node \in DOMAIN met

\* A blob on disk is named by a row, but for those that are gone, or held by a thread.
NamedBy(st, met, dsk, swp) ==
  \A b : b \in DOMAIN dsk \ swp <=>
           (\E i \in DOMAIN met : met[i].blob = b /\ ~Replacing(st, i)) \/ Holds(st, b)
Named ==
  \A b : b \in DOMAIN disk \ swept <=>
           \/ \E i \in DOMAIN meta : meta[i].blob = b /\ \A t \in Threads : ~Replacing(thread[t], i)
           \/ \E t \in Threads : Holds(thread[t], b)

LoneInv ==
  /\ Alone /\ RowsOK(inodes, meta, disk, swept)
  /\ \A t \in Threads : Doing(thread[t], inodes, meta, disk, swept) /\ Placed(thread[t], inodes)
  /\ Undisturbed => Stuck \/ (Named /\ \A t \in Threads : HasRow(thread[t], meta))

\* Elsewhere a thread has nothing to do with blobs.
OtherPcs == {"idle", "mkdir_look", "mkdir_make", "rm_meta", "mv_dst", "mv_exists", "mv_read", "mv_write",
             "stuck"}

LEMMA OtherPlaces ==
  ASSUME NEW st, st.pc \in OtherPcs, NEW ino, NEW met, NEW dsk, NEW swp
  PROVE  /\ Doing(st, ino, met, dsk, swp) /\ Placed(st, ino) /\ HasRow(st, met)
         /\ \A i : ~Replacing(st, i)
         /\ \A b : ~Holds(st, b)
         /\ st.pc \notin HoldPcs
BY DEF OtherPcs, Doing, Placed, HasRow, Replacing, Holds, HoldPcs, OldPcs, GonePcs, DescribePcs

LEMMA OthersIdle ==
  ASSUME TypeInv, Alone, Alone', NEW t \in Threads, NEW st, Become(t, st),
         thread[t].pc # "idle" \/ st.pc # "idle"
  PROVE  \A u \in Threads \ {t} : thread[u] = Idle
<1>1. thread'[t] = st /\ \A u \in Threads \ {t} : thread'[u] = thread[u]
  BY OneMoves
<1>2. Idle.pc = "idle"
  BY IdleType
<1> HIDE DEF Idle
<1> QED BY <1>1, <1>2 DEF Alone

LEMMA LoneBefore ==
  ASSUME LoneInv, NEW t \in Threads, \A u \in Threads \ {t} : thread[u] = Idle
  PROVE  Undisturbed /\ thread[t].pc # "stuck" =>
           NamedBy(thread[t], meta, disk, swept) /\ HasRow(thread[t], meta)
<1>1. Idle.pc \in OtherPcs /\ Idle.pc = "idle"
  BY IdleType DEF OtherPcs
<1>2. (\A i : ~Replacing(Idle, i)) /\ \A b : ~Holds(Idle, b)
  BY <1>1, OtherPlaces
<1> HIDE DEF Idle
<1> SUFFICES ASSUME Undisturbed, thread[t].pc # "stuck"
             PROVE  NamedBy(thread[t], meta, disk, swept) /\ HasRow(thread[t], meta)
  OBVIOUS
<1>3. ~Stuck
  BY <1>1 DEF Stuck
<1>4. Named /\ HasRow(thread[t], meta)
  BY <1>3 DEF LoneInv
<1>5. \A i : (\A u \in Threads : ~Replacing(thread[u], i)) <=> ~Replacing(thread[t], i)
  BY <1>2
<1>6. \A b : (\E u \in Threads : Holds(thread[u], b)) <=> Holds(thread[t], b)
  BY <1>2
<1> QED BY <1>4, <1>5, <1>6 DEF Named, NamedBy

LEMMA LoneStep ==
  ASSUME TypeInv, NEW t \in Threads, NEW st, Become(t, st), \A u \in Threads \ {t} : thread[u] = Idle,
         Alone', RowsOK(inodes', meta', disk', swept'), Doing(st, inodes', meta', disk', swept'),
         Placed(st, inodes'),
         Undisturbed' /\ st.pc # "stuck" => NamedBy(st, meta', disk', swept') /\ HasRow(st, meta')
  PROVE  LoneInv'
<1>1. Idle.pc \in OtherPcs /\ Idle.pc = "idle"
  BY IdleType DEF OtherPcs
<1>2. (\A i : ~Replacing(Idle, i)) /\ \A b : ~Holds(Idle, b)
  BY <1>1, OtherPlaces
<1> HIDE DEF Idle
<1>3. thread'[t] = st /\ \A u \in Threads \ {t} : thread'[u] = Idle
  BY OneMoves
<1>4. ASSUME NEW u \in Threads
      PROVE  Doing(thread'[u], inodes', meta', disk', swept') /\ Placed(thread'[u], inodes')
  <2>1. CASE u = t
    BY <1>3, <2>1
  <2>2. CASE u # t
    BY <1>1, <1>3, <2>2, OtherPlaces
  <2> QED BY <2>1, <2>2
<1>5. ASSUME Undisturbed', ~Stuck' PROVE Named' /\ \A u \in Threads : HasRow(thread'[u], meta')
  <2>1. NamedBy(st, meta', disk', swept') /\ HasRow(st, meta')
    BY <1>3, <1>5 DEF Stuck
  <2>2. \A i : (\A u \in Threads : ~Replacing(thread'[u], i)) <=> ~Replacing(st, i)
    BY <1>2, <1>3
  <2>3. \A b : (\E u \in Threads : Holds(thread'[u], b)) <=> Holds(st, b)
    BY <1>2, <1>3
  <2>4. Named'
    BY <2>1, <2>2, <2>3 DEF Named, NamedBy
  <2>5. \A u \in Threads : HasRow(thread'[u], meta')
    BY <1>1, <1>3, <2>1, OtherPlaces
  <2> QED BY <2>4, <2>5
<1> QED BY <1>4, <1>5 DEF LoneInv

LEMMA LoneNext ==
  ASSUME TypeInv, TypeInv', Owned, Owned', Readable, LoneInv, Alone', [Next]_vars
  PROVE  LoneInv'
<1>a. /\ lastBlob \in Nat /\ DOMAIN meta \subseteq DOMAIN inodes
      /\ \A t \in Threads : thread[t] \in ThreadState /\ ThreadOK(thread[t], lastBlob)
      /\ Idle \in ThreadState /\ Idle.pc = "idle" /\ Idle.pc \in OtherPcs
      /\ TreeOK(inodes, lastInode) /\ lastInode \in Nat
  BY IdleType DEF TypeInv, TablesOK, ThreadsOK, ThreadOK, OtherPcs
<1>b. /\ UNCHANGED counters => (Undisturbed' => Undisturbed)
      /\ UNCHANGED <<requests, fails, crashes>> => (Undisturbed' => Undisturbed)
  BY DEF counters, Undisturbed
<1>c. /\ OneRow /\ \A t \in Threads : Held(t) /\ Unlinking(t)
      /\ RowsOK(inodes, meta, disk, swept) /\ Alone
      /\ \A t \in Threads : Doing(thread[t], inodes, meta, disk, swept) /\ Placed(thread[t], inodes)
  BY DEF Owned, LoneInv
\* Thread t comes to st and nothing else changes.
<1>d. ASSUME NEW t \in Threads, NEW st, Become(t, st), UNCHANGED <<inodes, meta, disk, swept>>,
             thread[t].pc # "idle" \/ st.pc # "idle", thread[t].pc # "stuck",
             Undisturbed' => Undisturbed,
             Doing(st, inodes, meta, disk, swept), Placed(st, inodes), Undisturbed => HasRow(st, meta),
             \A i \in DOMAIN meta : Replacing(st, i) <=> Replacing(thread[t], i),
             \A b : Holds(st, b) <=> Holds(thread[t], b)
      PROVE  LoneInv'
  <2>1. \A u \in Threads \ {t} : thread[u] = Idle
    BY <1>c, <1>d, OthersIdle
  <2>2. Undisturbed => NamedBy(thread[t], meta, disk, swept)
    BY <1>d, <2>1, LoneBefore
  <2>3. Undisturbed => NamedBy(st, meta, disk, swept)
    BY <1>d, <2>2 DEF NamedBy
  <2>4. RowsOK(inodes', meta', disk', swept') /\ Doing(st, inodes', meta', disk', swept') /\ Placed(st, inodes')
    BY <1>c, <1>d
  <2>5. Undisturbed' => NamedBy(st, meta', disk', swept') /\ HasRow(st, meta')
    BY <1>d, <2>3
  <2> QED BY <1>d, <2>1, <2>4, <2>5, LoneStep
\* It comes to a place, from one, that has nothing to do with blobs.
<1>e. ASSUME NEW t \in Threads, NEW st, Become(t, st), UNCHANGED <<inodes, meta, disk, swept>>,
             thread[t].pc # "idle" \/ st.pc # "idle", thread[t].pc # "stuck",
             Undisturbed' => Undisturbed, st.pc \in OtherPcs,
             thread[t].pc \notin HoldPcs, Undisturbed => \A i \in DOMAIN meta : ~Replacing(thread[t], i)
      PROVE  LoneInv'
  <2>1. \A u \in Threads \ {t} : thread[u] = Idle
    BY <1>c, <1>e, OthersIdle
  <2>2. Undisturbed => NamedBy(thread[t], meta, disk, swept)
    BY <1>e, <2>1, LoneBefore
  <2>3. /\ Doing(st, inodes, meta, disk, swept) /\ Placed(st, inodes) /\ HasRow(st, meta)
        /\ \A i : ~Replacing(st, i)
        /\ \A b : ~Holds(st, b)
    BY <1>e, OtherPlaces
  <2>4. \A b : ~Holds(thread[t], b)
    BY <1>e DEF Holds
  <2>5. Undisturbed => NamedBy(st, meta, disk, swept)
    BY <1>e, <2>2, <2>3, <2>4 DEF NamedBy
  <2>6. RowsOK(inodes', meta', disk', swept') /\ Doing(st, inodes', meta', disk', swept') /\ Placed(st, inodes')
    BY <1>c, <1>e, <2>3
  <2>7. Undisturbed' => NamedBy(st, meta', disk', swept') /\ HasRow(st, meta')
    BY <1>e, <2>3, <2>5
  <2> QED BY <1>e, <2>1, <2>6, <2>7, LoneStep
\* A request is cut short, or its walk does not end.
<1>f. ASSUME NEW t \in Threads, NEW st, Become(t, st), UNCHANGED <<inodes, meta, disk, swept>>,
             thread[t].pc # "idle", st.pc \in OtherPcs, ~Undisturbed' \/ st.pc = "stuck"
      PROVE  LoneInv'
  <2>1. \A u \in Threads \ {t} : thread[u] = Idle
    BY <1>c, <1>f, OthersIdle
  <2>2. Doing(st, inodes', meta', disk', swept') /\ Placed(st, inodes')
    BY <1>f, OtherPlaces
  <2>3. RowsOK(inodes', meta', disk', swept')
    BY <1>c, <1>f
  <2> QED BY <1>f, <2>1, <2>2, <2>3, LoneStep
<1>g. ASSUME NEW t \in Threads, Goto(t, "stuck"), UNCHANGED <<inodes, meta, disk, swept>>, thread[t].pc # "idle"
      PROVE  LoneInv'
  <2> DEFINE st == [thread[t] EXCEPT !.pc = "stuck"]
  <2>1. st.pc = "stuck" /\ Become(t, st) /\ st.pc \in OtherPcs
    BY <1>a, <1>g DEF Goto, ThreadState, OtherPcs
  <2> HIDE DEF st
  <2> QED BY <1>f, <1>g, <2>1
<1>1. CASE UNCHANGED vars
  <2>1. UNCHANGED <<inodes, meta, disk, swept, thread, fails, crashes>>
    BY <1>1 DEF vars, tables, blobs, counters
  <2>2. (Undisturbed' <=> Undisturbed) /\ (Stuck' <=> Stuck) /\ (Named' <=> Named)
    BY <2>1 DEF Undisturbed, Stuck, Named
  <2> QED BY <2>1, <2>2 DEF LoneInv
<1>2. CASE Crash
  <2>1. /\ thread' = [t \in Threads |-> Idle] /\ UNCHANGED <<inodes, meta, disk, swept>>
        /\ crashes' = crashes + 1 /\ crashes \in Nat
    BY <1>2 DEF Crash, TypeInv, CountersOK, tables, blobs
  <2>2. ~Undisturbed'
    BY <2>1 DEF Undisturbed
  <2> HIDE DEF Idle
  <2>3. \A t \in Threads : thread'[t] = Idle
    BY <2>1
  <2>4. RowsOK(inodes', meta', disk', swept')
    BY <1>c, <2>1
  <2>5. \A t \in Threads : Doing(thread'[t], inodes', meta', disk', swept') /\ Placed(thread'[t], inodes')
    BY <1>a, <2>3, OtherPlaces
  <2> QED BY <2>2, <2>4, <2>5 DEF LoneInv
<1>3. ASSUME NEW t \in Threads, Fail(t) PROVE LoneInv'
  <2>1. /\ Become(t, Idle) /\ UNCHANGED <<inodes, meta, disk, swept>> /\ fails' = fails + 1 /\ fails \in Nat
        /\ thread[t].pc # "idle"
    BY <1>3 DEF Fail, Reply, TypeInv, CountersOK, tables, blobs, DatabasePcs
  <2>2. ~Undisturbed'
    BY <2>1 DEF Undisturbed
  <2> HIDE DEF Idle
  <2> QED BY <1>a, <1>f, <2>1, <2>2
<1>4. ASSUME NEW t \in Threads, Busy(t) PROVE FALSE
  <2>1. PICK u \in Threads : thread[u].pc = "stuck"
    BY <1>4 DEF Busy, Writable
  <2>2. thread[t].pc \in WritePcs
    BY <1>4 DEF Busy
  <2>3. thread[t].pc # "idle" /\ thread[t].pc # "stuck"
    BY <2>2 DEF WritePcs
  <2> HIDE DEF Idle
  <2>4. thread[t] # Idle /\ thread[u] # Idle
    BY <1>a, <2>1, <2>3
  <2>5. t = u
    BY <1>c, <2>4 DEF Alone
  <2> QED BY <2>1, <2>3, <2>5
<1>5. ASSUME NEW t \in Threads, Start(t) PROVE LoneInv'
  <2>1. /\ thread[t].pc = "idle" /\ UNCHANGED <<inodes, meta, disk, swept>>
        /\ Undisturbed' => Undisturbed
        /\ thread[t].pc # "stuck"
    BY <1>5 DEF Start, Arrive, tables, blobs, Undisturbed
  <2>2. thread[t].pc \notin HoldPcs /\ \A i : ~Replacing(thread[t], i)
    BY <2>1 DEF HoldPcs, GonePcs, Replacing
  <2>3. \A b : ~Holds(thread[t], b)
    BY <2>2 DEF Holds
  <2>4. PICK path \in Paths : StartMkdir(t, path) \/ StartSend(t, path) \/ StartRm(t, path) \/ StartMv(t, path)
    BY <1>5 DEF Start
  <2>5. ASSUME NEW st, Become(t, st), st.pc \in {"mkdir_look", "rm_meta", "mv_dst"} PROVE LoneInv'
    <3>1. st.pc \in OtherPcs /\ st.pc # "idle"
      BY <2>5 DEF OtherPcs
    <3> QED BY <1>e, <2>1, <2>2, <2>5, <3>1
  <2>6. CASE StartMkdir(t, path)
    <3> DEFINE st == [Idle EXCEPT !.pc = "mkdir_look", !.path = path, !.parent = RootId]
    <3>1. Become(t, st) /\ st.pc = "mkdir_look"
      BY <1>a, <2>6 DEF StartMkdir, ThreadState
    <3> HIDE DEF st
    <3> QED BY <2>5, <3>1
  <2>7. CASE StartSend(t, path)
    <3>1. PICK c \in Contents, overwrite \in BOOLEAN :
            Become(t, [Idle EXCEPT !.pc = "send_look", !.path = path, !.parent = Resolve(Front(path)),
                         !.name = Last(path), !.content = c, !.overwrite = overwrite])
      BY <2>7 DEF StartSend
    <3> DEFINE st == [Idle EXCEPT !.pc = "send_look", !.path = path, !.parent = Resolve(Front(path)),
                         !.name = Last(path), !.content = c, !.overwrite = overwrite]
    <3>2. st.pc = "send_look" /\ st.path = path /\ st.parent = Resolve(Front(path)) /\ st.name = Last(path)
      BY <1>a DEF ThreadState
    <3>3. path # <<>> /\ Resolve(Front(path)) # None
      BY <2>7 DEF StartSend
    <3>4. Become(t, st)
      BY <3>1
    <3> HIDE DEF st
    <3>5. Leads(inodes, Front(path), Resolve(Front(path)))
      BY <1>a, <3>3, PathFacts, LeadsIsResolve
    <3>6. Placed(st, inodes)
      BY <3>2, <3>5 DEF Placed
    <3>7. /\ Doing(st, inodes, meta, disk, swept) /\ HasRow(st, meta)
          /\ \A i : ~Replacing(st, i)
          /\ \A b : ~Holds(st, b)
      BY <3>2 DEF Doing, HasRow, Replacing, Holds, HoldPcs, OldPcs, GonePcs, DescribePcs
    <3> QED BY <1>d, <2>1, <2>2, <2>3, <3>2, <3>4, <3>6, <3>7
  <2>8. CASE StartRm(t, path)
    <3> DEFINE i == Resolve(path)
               st == [Idle EXCEPT !.pc = IF IsDir(i) THEN "rm_read" ELSE "rm_meta", !.node = i]
    <3>1. Become(t, st)
      BY <2>8 DEF StartRm
    <3>2. st.pc = (IF IsDir(i) THEN "rm_read" ELSE "rm_meta") /\ st.node = i
      BY <1>a DEF ThreadState
    <3> HIDE DEF st, i
    <3>3. CASE IsDir(i)
      <4>1. i \notin DOMAIN meta
        BY <1>c, <3>3 DEF IsDir, RowsOK
      <4>2. /\ Doing(st, inodes, meta, disk, swept) /\ HasRow(st, meta) /\ Placed(st, inodes)
            /\ \A j \in DOMAIN meta : ~Replacing(st, j)
            /\ \A b : ~Holds(st, b)
        BY <3>2, <3>3, <4>1
           DEF Doing, HasRow, Placed, Replacing, Holds, HoldPcs, OldPcs, GonePcs, DescribePcs
      <4>3. st.pc # "idle"
        BY <3>2, <3>3
      <4> QED BY <1>d, <2>1, <2>2, <2>3, <3>1, <4>2, <4>3
    <3>4. CASE ~IsDir(i)
      BY <2>5, <3>1, <3>2, <3>4
    <3> QED BY <3>3, <3>4
  <2>9. CASE StartMv(t, path)
    <3>1. PICK dst \in Paths : Become(t, [Idle EXCEPT !.pc = "mv_dst", !.path = dst, !.node = Resolve(path),
                                                      !.name = Last(path)])
      BY <2>9 DEF StartMv
    <3> DEFINE st == [Idle EXCEPT !.pc = "mv_dst", !.path = dst, !.node = Resolve(path), !.name = Last(path)]
    <3>2. st.pc = "mv_dst" /\ Become(t, st)
      BY <1>a, <3>1 DEF ThreadState
    <3> HIDE DEF st
    <3> QED BY <2>5, <3>2
  <2> QED BY <2>4, <2>6, <2>7, <2>8, <2>9
<1>6. ASSUME NEW t \in Threads, MkdirLook(t) \/ MvDst(t) \/ MvExists(t) \/ MvRead(t) PROVE LoneInv'
  <2> DEFINE st == thread[t]
             make == [st EXCEPT !.pc = "mkdir_make"]
             next == [st EXCEPT !.parent = Child(st.parent, Head(st.path)), !.path = Tail(st.path)]
             into == [st EXCEPT !.pc = "mv_exists", !.path = <<>>, !.parent = Resolve(st.path)]
             at == [st EXCEPT !.pc = "mv_exists", !.path = <<>>, !.parent = Resolve(Front(st.path)),
                              !.name = Last(st.path)]
             read == [st EXCEPT !.pc = "mv_read"]
             write == [st EXCEPT !.pc = "mv_write", !.old = inodes[st.node].parent, !.size = Weight(st.node)]
  <2>1. /\ st.pc \in {"mkdir_look", "mv_dst", "mv_exists", "mv_read"}
        /\ UNCHANGED <<inodes, meta, disk, swept, counters>>
    BY <1>6 DEF MkdirLook, MvDst, MvExists, MvRead, Reading, tables, blobs
  <2>2. \/ Become(t, Idle) \/ Become(t, make) \/ Become(t, next) \/ Become(t, into) \/ Become(t, at)
        \/ Become(t, read) \/ Become(t, write)
    BY <1>6 DEF MkdirLook, MvDst, MvExists, MvRead, ReadWeight, Goto, Reply
  <2>3. st.pc \notin HoldPcs /\ st.pc \notin {"idle", "stuck"} /\ \A i : ~Replacing(st, i)
    BY <2>1 DEF HoldPcs, GonePcs, Replacing
  <2>4. /\ make.pc = "mkdir_make" /\ next.pc = st.pc /\ into.pc = "mv_exists" /\ at.pc = "mv_exists"
        /\ read.pc = "mv_read" /\ write.pc = "mv_write"
    BY <1>a DEF ThreadState
  <2> HIDE DEF st, make, next, into, at, read, write, Idle
  <2>5. ASSUME NEW new, Become(t, new), new.pc \in {"idle", "mkdir_look", "mkdir_make", "mv_dst", "mv_exists", "mv_read", "mv_write"}
        PROVE  LoneInv'
    <3>1. new.pc \in OtherPcs
      BY <2>5 DEF OtherPcs
    <3> QED BY <1>b, <1>e, <2>1, <2>3, <2>5, <3>1 DEF st
  <2> QED BY <1>a, <2>1, <2>2, <2>4, <2>5
<1>7. ASSUME NEW t \in Threads, MkdirMake(t) PROVE LoneInv'
  <2> DEFINE st == thread[t]
             n == Head(st.path)
             new == [st EXCEPT !.pc = "mkdir_look", !.parent = lastInode + 1, !.path = Tail(st.path)]
  <2>1. st.pc = "mkdir_make" /\ UNCHANGED <<meta, disk, swept, counters>>
    BY <1>7 DEF MkdirMake, blobs, tables
  <2>2. \A i \in DOMAIN inodes : i \in DOMAIN inodes' /\ inodes'[i] = inodes[i]
    <3>1. UNCHANGED inodes \/ inodes' = NewInode(st.parent, n, TRUE)
      BY <1>7 DEF MkdirMake, tables
    <3>2. lastInode + 1 \notin DOMAIN inodes
      BY <1>a DEF TreeOK
    <3> QED BY <3>1, <3>2 DEF NewInode
  <2>3. Become(t, Idle) \/ Become(t, new)
    BY <1>7 DEF MkdirMake, Reply
  <2>4. st.pc \notin HoldPcs /\ st.pc \notin {"idle", "stuck"} /\ \A i : ~Replacing(st, i)
    BY <2>1 DEF HoldPcs, GonePcs, Replacing
  <2>5. new.pc = "mkdir_look"
    BY <1>a DEF ThreadState
  <2> HIDE DEF new, Idle
  <2>6. ASSUME NEW to, Become(t, to), to.pc \in OtherPcs PROVE LoneInv'
    <3>1. \A u \in Threads \ {t} : thread[u] = Idle
      BY <1>c, <2>4, <2>6, OthersIdle
    <3>2. Undisturbed => NamedBy(st, meta, disk, swept)
      BY <2>4, <3>1, LoneBefore
    <3>3. /\ Doing(to, inodes', meta', disk', swept') /\ Placed(to, inodes') /\ HasRow(to, meta')
          /\ \A i : ~Replacing(to, i)
          /\ \A b : ~Holds(to, b)
      BY <2>6, OtherPlaces
    <3>4. \A b : ~Holds(st, b)
      BY <2>4 DEF Holds
    <3>5. RowsOK(inodes', meta', disk', swept')
      BY <1>a, <1>c, <2>1, <2>2 DEF RowsOK
    <3>6. Undisturbed' => NamedBy(to, meta', disk', swept') /\ HasRow(to, meta')
      BY <1>b, <2>1, <2>4, <3>2, <3>3, <3>4 DEF NamedBy
    <3> QED BY <2>6, <3>1, <3>3, <3>5, <3>6, LoneStep
  <2>7. Idle.pc \in OtherPcs /\ new.pc \in OtherPcs
    BY <1>a, <2>5 DEF OtherPcs
  <2> QED BY <2>3, <2>6, <2>7
<1>8. ASSUME NEW t \in Threads, SendLook(t) PROVE LoneInv'
  <2> DEFINE st == thread[t]
             existing == Resolve(st.path)
             new == [st EXCEPT !.pc = "send_blob", !.path = <<>>, !.node = existing]
  <2>1. /\ st.pc = "send_look" /\ UNCHANGED <<inodes, meta, disk, swept, counters>>
        /\ \/ Become(t, Idle)
           \/ ~IsDir(existing) /\ Become(t, new)
    BY <1>8 DEF SendLook, Reading, tables, blobs, Reply
  <2>2. /\ new.pc = "send_blob" /\ new.node = existing /\ new.parent = st.parent /\ new.name = st.name
    BY <1>a DEF ThreadState
  <2>3. st.path \in Paths /\ st.path # <<>> /\ existing \in DOMAIN inodes \cup {None}
    BY <1>a, <2>1, ResolveFacts DEF ThreadOK, ThreadState
  <2>4. st.pc \notin HoldPcs /\ st.pc \notin {"idle", "stuck"} /\ \A i : ~Replacing(st, i)
    BY <2>1 DEF HoldPcs, GonePcs, Replacing
  <2>5. existing = None => \A i \in DOMAIN inodes : Place(inodes[i]) # <<st.parent, st.name>>
    <3> SUFFICES ASSUME existing = None, NEW i \in DOMAIN inodes, Place(inodes[i]) = <<st.parent, st.name>>
                 PROVE  FALSE
      OBVIOUS
    <3>1. Leads(inodes, Front(st.path), st.parent) /\ st.name = Last(st.path)
      BY <1>c, <2>1 DEF Placed
    <3>2. Leads(inodes, st.path, i)
      <4> HIDE DEF st
      <4> QED BY <2>3, <3>1, WayGoesOn
    <3>3. existing = i
      BY <1>a, <2>3, <3>2, LeadsIsResolve
    <3> QED BY <1>a, <3>3 DEF TreeOK, None
  <2>6. st.parent \in DOMAIN inodes
    <3>1. Leads(inodes, Front(st.path), st.parent) /\ Front(st.path) \in Paths
      BY <1>c, <2>1, <2>3, PathFacts DEF Placed
    <3> QED BY <1>a, <3>1, LeadsIsResolve
  <2> HIDE DEF st, new, existing, Idle
  <2>7. CASE Become(t, Idle)
    BY <1>a, <1>b, <1>e, <2>1, <2>4, <2>7 DEF st
  <2>8. CASE ~IsDir(existing) /\ Become(t, new)
    <3>1. Placed(new, inodes)
      BY <2>2, <2>5, <2>6 DEF Placed
    <3>2. Doing(new, inodes, meta, disk, swept)
      BY <2>2, <2>3, <2>8 DEF Doing, IsDir, HoldPcs, OldPcs, DescribePcs
    <3>3. HasRow(new, meta) /\ (\A i : ~Replacing(new, i)) /\ \A b : ~Holds(new, b)
      BY <2>2 DEF HasRow, Replacing, Holds, HoldPcs, GonePcs, DescribePcs
    <3>4. \A b : ~Holds(st, b)
      BY <2>4 DEF Holds
    <3> QED BY <1>b, <1>d, <2>1, <2>4, <2>8, <3>1, <3>2, <3>3, <3>4 DEF st
  <2> QED BY <2>1, <2>7, <2>8
<1>9. ASSUME NEW t \in Threads, WriteBlob(t) PROVE LoneInv'
  <2> DEFINE st == thread[t]
             b == lastBlob + 1
             new == [st EXCEPT !.blob = b, !.pc = IF st.node = None THEN "send_inode" ELSE "send_meta"]
  <2>1. /\ st.pc = "send_blob" /\ UNCHANGED <<inodes, meta, swept, counters>> /\ Become(t, new)
        /\ DOMAIN disk' = DOMAIN disk \cup {b} /\ disk'[b] = st.content
        /\ \A x \in DOMAIN disk : x # b => disk'[x] = disk[x]
    BY <1>9 DEF WriteBlob, tables
  <2>2. /\ new.pc = (IF st.node = None THEN "send_inode" ELSE "send_meta") /\ new.blob = b
        /\ new.node = st.node /\ new.content = st.content /\ new.parent = st.parent /\ new.name = st.name
    BY <1>a DEF ThreadState
  <2>3. b \notin DOMAIN disk /\ b \notin swept /\ \A i \in DOMAIN meta : meta[i].blob # b
    <3>1. \A n \in 1 .. lastBlob : n # b
      BY <1>a
    <3> QED BY <3>1 DEF TypeInv, TablesOK
  <2>4. st.pc \notin HoldPcs /\ st.pc \notin {"idle", "stuck"} /\ \A i : ~Replacing(st, i)
    BY <2>1 DEF HoldPcs, GonePcs, Replacing
  <2>5. Doing(st, inodes, meta, disk, swept) /\ Placed(st, inodes) /\ RowsOK(inodes, meta, disk, swept)
    BY <1>c
  <2> HIDE DEF st, new, b
  <2>6. \A u \in Threads \ {t} : thread[u] = Idle
    BY <1>c, <2>1, <2>4, OthersIdle DEF st
  <2>7. Undisturbed => NamedBy(st, meta, disk, swept)
    BY <2>4, <2>6, LoneBefore DEF st
  <2>8. RowsOK(inodes', meta', disk', swept')
    BY <2>1, <2>3, <2>5 DEF RowsOK
  <2>9. Doing(new, inodes', meta', disk', swept')
    <3>1. new.pc \notin DescribePcs /\ new.pc \notin OldPcs /\ new.pc \in {"send_inode", "send_meta"}
      BY <2>2 DEF DescribePcs, OldPcs
    <3> QED BY <2>1, <2>2, <2>3, <2>5, <3>1 DEF Doing
  <2>10. Placed(new, inodes')
    BY <2>1, <2>2, <2>5 DEF Placed
  <2>11. HasRow(new, meta') /\ (\A i : ~Replacing(new, i)) /\ \A x : Holds(new, x) <=> x = b
    BY <2>2 DEF HasRow, Replacing, Holds, HoldPcs, GonePcs, DescribePcs
  <2>12. Undisturbed' => NamedBy(new, meta', disk', swept')
    <3>1. \A x : ~Holds(st, x)
      BY <2>4 DEF Holds
    <3> QED BY <1>b, <2>1, <2>3, <2>4, <2>7, <2>11, <3>1 DEF NamedBy
  <2> QED BY <2>1, <2>6, <2>8, <2>9, <2>10, <2>11, <2>12, LoneStep
<1>10. ASSUME NEW t \in Threads, InsertFile(t) PROVE LoneInv'
  <2> DEFINE st == thread[t]
             id == lastInode + 1
             new == [st EXCEPT !.pc = "send_newmeta", !.node = id]
  <2>1. st.pc = "send_inode" /\ UNCHANGED <<meta, disk, swept, counters>>
    BY <1>10 DEF InsertFile, blobs, tables
  <2>2. MayPut(None, st.parent, st.name)
    <3>1. st.parent \in DOMAIN inodes /\ \A i \in DOMAIN inodes : Place(inodes[i]) # <<st.parent, st.name>>
      BY <1>c, <2>1 DEF Placed
    <3>2. Child(st.parent, st.name) = None
      BY <1>a, <3>1, ChildFacts DEF Place
    <3> QED BY <3>1, <3>2 DEF MayPut
  <2>3. inodes' = NewInode(st.parent, st.name, FALSE) /\ Become(t, new)
    BY <1>10, <2>2 DEF InsertFile
  <2>4. /\ new.pc = "send_newmeta" /\ new.node = id /\ new.blob = st.blob /\ new.content = st.content
    BY <1>a DEF ThreadState
  <2>5. /\ id \notin DOMAIN inodes /\ id \in DOMAIN inodes' /\ ~inodes'[id].dir
        /\ \A i \in DOMAIN inodes : i \in DOMAIN inodes' /\ inodes'[i] = inodes[i]
    <3>1. id \notin DOMAIN inodes
      BY <1>a DEF TreeOK
    <3> QED BY <2>3, <3>1 DEF NewInode
  <2>6. Doing(st, inodes, meta, disk, swept) /\ RowsOK(inodes, meta, disk, swept)
    BY <1>c
  <2>7. /\ st.pc \in HoldPcs /\ st.pc \notin {"idle", "stuck"} /\ (\A i : ~Replacing(st, i))
        /\ new.pc \in HoldPcs /\ (\A i : ~Replacing(new, i)) /\ HasRow(new, meta')
    BY <2>1, <2>4 DEF HoldPcs, GonePcs, Replacing, HasRow, DescribePcs
  <2> HIDE DEF st, new, id
  <2>8. \A u \in Threads \ {t} : thread[u] = Idle
    BY <1>c, <2>3, <2>7, OthersIdle DEF st
  <2>9. Undisturbed => NamedBy(st, meta, disk, swept)
    BY <2>7, <2>8, LoneBefore DEF st
  <2>10. RowsOK(inodes', meta', disk', swept')
    BY <1>a, <2>1, <2>5, <2>6 DEF RowsOK
  <2>11. Doing(new, inodes', meta', disk', swept')
    <3>1. new.pc \notin DescribePcs /\ new.pc \notin OldPcs
      BY <2>4 DEF DescribePcs, OldPcs
    <3> QED BY <1>a, <2>1, <2>4, <2>5, <2>6, <2>7, <3>1 DEF Doing
  <2>12. Placed(new, inodes')
    BY <2>4 DEF Placed
  <2>13. Undisturbed' => NamedBy(new, meta', disk', swept')
    <3>1. \A x : Holds(new, x) <=> Holds(st, x)
      BY <2>4, <2>7 DEF Holds
    <3> QED BY <1>b, <2>1, <2>7, <2>9, <3>1 DEF NamedBy
  <2> QED BY <2>3, <2>7, <2>8, <2>10, <2>11, <2>12, <2>13, LoneStep
\* While a request is served and none was cut short, every file has its row.
<1>h. ASSUME NEW t \in Threads, thread[t].pc \notin {"idle", "stuck", "send_newmeta"}, Undisturbed,
             NEW i \in DOMAIN inodes, ~inodes[i].dir
      PROVE  i \in DOMAIN meta
  <2> HIDE DEF Idle
  <2>1. \A u \in Threads \ {t} : thread[u] = Idle
    BY <1>a, <1>c, <1>h DEF Alone
  <2>2. ~Stuck /\ \A u \in Threads : ~Filling(thread[u], i)
    BY <1>a, <1>h, <2>1 DEF Stuck, Filling
  <2> QED BY <1>h, <2>2 DEF Readable, FileIds, Filled
<1>i. /\ \A i \in DOMAIN inodes : inodes[i] \in Inode
      /\ \A t \in Threads : thread[t].content \in Int /\ thread[t].size \in Int /\ Counted(thread[t]) \in Int
      /\ Nowhere.by \in Int
  <2>1. \A c \in Contents \cup {0} : c \in Int
    BY VfsAssumption
  <2>2. \A t \in Threads : thread[t].content \in Contents \cup {0} /\ thread[t].size \in Int
    BY <1>a DEF ThreadState
  <2> QED BY <2>1, <2>2 DEF Nowhere, Counted, TypeInv, TablesOK, TreeOK
<1>11. ASSUME NEW t \in Threads, InsertMeta(t) PROVE LoneInv'
  <2> DEFINE st == thread[t]
             row == [blob |-> st.blob, size |-> st.content, hash |-> st.content]
             met == [i \in DOMAIN meta \cup {st.node} |-> IF i = st.node THEN row ELSE meta[i]]
             up == [at |-> inodes[st.node].parent, by |-> st.content]
  <2>1. st.pc = "send_newmeta" /\ UNCHANGED <<disk, swept, counters>>
    BY <1>11 DEF InsertMeta, blobs
  <2>2. Doing(st, inodes, meta, disk, swept) /\ RowsOK(inodes, meta, disk, swept)
    BY <1>c
  <2>3. st.node \in DOMAIN inodes /\ ~inodes[st.node].dir /\ st.node \notin DOMAIN meta
    BY <2>1, <2>2 DEF Doing
  <2>4. Commit(t, inodes, met, up, Nowhere, Idle)
    BY <1>11, <2>3 DEF InsertMeta
  <2>5. /\ st.pc \in HoldPcs /\ st.pc \notin {"idle", "stuck"} /\ \A i : ~Replacing(st, i)
    BY <2>1 DEF HoldPcs, GonePcs, Replacing
  <2>6. /\ DOMAIN met = DOMAIN meta \cup {st.node} /\ met[st.node].blob = st.blob
        /\ met[st.node].size = st.content /\ met[st.node].hash = st.content
        /\ \A i \in DOMAIN meta : met[i] = meta[i]
    BY <2>3
  <2>8. up.by \in Int /\ Nowhere.by \in Int
    BY <1>i
  <2>9. disk[st.blob] = st.content /\ st.blob \notin swept
    BY <2>2, <2>5 DEF Doing
  <2> HIDE DEF st, met, up, Idle
  <2>10. CASE Goto(t, "stuck") /\ UNCHANGED <<inodes, meta>>
    BY <1>g, <2>1, <2>5, <2>10 DEF st
  <2>11. CASE SameRows(inodes', inodes) /\ meta' = met /\ Become(t, Idle)
    <3>1. \A u \in Threads \ {t} : thread[u] = Idle
      BY <1>c, <2>5, <2>11, OthersIdle DEF st
    <3>2. Undisturbed => NamedBy(st, meta, disk, swept)
      BY <2>5, <3>1, LoneBefore DEF st
    <3>3. RowsOK(inodes', meta', disk', swept')
      BY <1>a, <2>1, <2>2, <2>3, <2>6, <2>9, <2>11 DEF RowsOK, SameRows
    <3>4. /\ Doing(Idle, inodes', meta', disk', swept') /\ Placed(Idle, inodes') /\ HasRow(Idle, meta')
          /\ \A i : ~Replacing(Idle, i)
          /\ \A b : ~Holds(Idle, b)
      BY <1>a, OtherPlaces
    <3>5. \A b : Holds(st, b) <=> b = st.blob
      BY <2>5 DEF Holds
    <3>6. \A b : (\E i \in DOMAIN met : met[i].blob = b) <=> (\E i \in DOMAIN meta : meta[i].blob = b) \/ b = st.blob
      BY <2>6
    <3>7. Undisturbed' => NamedBy(Idle, meta', disk', swept')
      BY <1>b, <2>1, <2>5, <2>11, <3>2, <3>4, <3>5, <3>6 DEF NamedBy
    <3> QED BY <2>11, <3>1, <3>3, <3>4, <3>7, LoneStep
  <2> QED BY <1>i, <2>4, <2>8, <2>10, <2>11, CommitStep
<1>12. ASSUME NEW t \in Threads, ReadOldBlob(t) \/ RmMeta(t) PROVE LoneInv'
  <2> DEFINE st == thread[t]
             unlink == IF st.pc = "send_meta" THEN "send_unlink" ELSE "rm_unlink"
             on == IF st.pc = "send_meta" THEN "send_oldsize" ELSE "rm_read"
             read == [st EXCEPT !.pc = unlink, !.old = meta[st.node].blob]
             go == [st EXCEPT !.pc = on]
  <2>1. st.pc \in {"send_meta", "rm_meta"} /\ UNCHANGED <<inodes, meta, disk, swept, counters>>
    BY <1>12 DEF ReadOldBlob, RmMeta, Reading, tables, blobs
  <2>2. \/ st.node \in DOMAIN meta /\ Become(t, read)
        \/ st.node \notin DOMAIN meta /\ Become(t, go)
    BY <1>12 DEF ReadOldBlob, RmMeta, Goto
  <2>3. /\ read.pc = unlink /\ read.blob = st.blob /\ read.node = st.node /\ read.old = meta[st.node].blob
        /\ read.content = st.content
        /\ go.pc = on /\ go.blob = st.blob /\ go.node = st.node /\ go.content = st.content
    BY <1>a DEF ThreadState
  <2>4. st.pc \notin {"idle", "stuck", "send_newmeta"} /\ \A i : ~Replacing(st, i)
    BY <2>1 DEF GonePcs, Replacing
  <2>5. Doing(st, inodes, meta, disk, swept)
    BY <1>c
  <2>6. unlink \in HoldPcs <=> st.pc \in HoldPcs
    BY <2>1 DEF HoldPcs
  <2>7. on \in HoldPcs <=> st.pc \in HoldPcs
    BY <2>1 DEF HoldPcs
  <2>8. unlink \in {"send_unlink", "rm_unlink"} /\ on \in {"send_oldsize", "rm_read"}
    OBVIOUS
  <2>9. Undisturbed /\ st.pc = "send_meta" => st.node \in DOMAIN meta
    <3>1. st.pc = "send_meta" => st.node \in DOMAIN inodes /\ ~inodes[st.node].dir
      BY <2>5 DEF Doing
    <3> QED BY <1>h, <2>4, <3>1
  <2>10. on = "send_oldsize" => st.pc = "send_meta"
    OBVIOUS
  <2> HIDE DEF st, read, go, on, unlink
  <2>11. CASE st.node \in DOMAIN meta /\ Become(t, read)
    <3>1. Doing(read, inodes, meta, disk, swept) /\ Placed(read, inodes) /\ HasRow(read, meta)
      BY <2>3, <2>5, <2>6, <2>8, <2>11 DEF Doing, Placed, HasRow, DescribePcs, OldPcs
    <3>2. (\A i : ~Replacing(read, i)) /\ \A b : Holds(read, b) <=> Holds(st, b)
      BY <2>3, <2>6, <2>8 DEF Replacing, GonePcs, Holds
    <3> QED BY <1>b, <1>d, <2>1, <2>4, <2>11, <3>1, <3>2 DEF st
  <2>12. CASE st.node \notin DOMAIN meta /\ Become(t, go)
    <3>1. Doing(go, inodes, meta, disk, swept) /\ Placed(go, inodes)
      BY <2>3, <2>5, <2>7, <2>8, <2>12 DEF Doing, Placed, DescribePcs, OldPcs
    <3>2. (\A i \in DOMAIN meta : ~Replacing(go, i)) /\ \A b : Holds(go, b) <=> Holds(st, b)
      BY <2>3, <2>7, <2>12 DEF Replacing, Holds
    <3>3. Undisturbed => HasRow(go, meta)
      BY <2>3, <2>8, <2>9, <2>10, <2>12 DEF HasRow, DescribePcs
    <3> QED BY <1>b, <1>d, <2>1, <2>4, <2>12, <3>1, <3>2, <3>3 DEF st
  <2> QED BY <2>2, <2>11, <2>12
<1>13. ASSUME NEW t \in Threads, UnlinkOld(t) \/ RmUnlink(t) PROVE LoneInv'
  <2> DEFINE st == thread[t]
             on == IF st.pc = "send_unlink" THEN "send_oldsize" ELSE "rm_read"
             new == [st EXCEPT !.pc = on, !.old = None]
  <2>1. /\ st.pc \in {"send_unlink", "rm_unlink"} /\ UNCHANGED <<inodes, meta, swept, counters>>
        /\ disk' = [c \in DOMAIN disk \ {st.old} |-> disk[c]] /\ Become(t, new)
    BY <1>13 DEF UnlinkOld, RmUnlink, tables, Unlink
  <2>2. new.pc = on /\ new.blob = st.blob /\ new.node = st.node /\ new.content = st.content
    BY <1>a DEF ThreadState
  <2>3. /\ on \in {"send_oldsize", "rm_read"} /\ (on = "send_oldsize" <=> st.pc = "send_unlink")
        /\ (on \in HoldPcs <=> st.pc \in HoldPcs)
    BY <2>1 DEF HoldPcs
  <2>4. st.pc \notin {"idle", "stuck"} /\ st.pc \in OldPcs /\ (\A i : ~Replacing(st, i)) /\ on \in GonePcs
    BY <2>1, <2>3 DEF OldPcs, GonePcs, Replacing
  <2>5. Doing(st, inodes, meta, disk, swept) /\ RowsOK(inodes, meta, disk, swept)
    BY <1>c
  <2>6. st.node \in DOMAIN meta /\ meta[st.node].blob = st.old /\ \A i \in DOMAIN meta : meta[i].blob = st.old => i = st.node
    BY <1>c, <2>4, <2>5 DEF Doing, OneRow
  <2>7. st.pc \in HoldPcs => st.blob \in DOMAIN disk /\ st.blob # st.old
    BY <1>c, <2>4 DEF Held, Unlinks
  <2>8. DOMAIN disk' = DOMAIN disk \ {st.old} /\ \A c \in DOMAIN disk' : disk'[c] = disk[c]
    BY <2>1
  <2> HIDE DEF st, on, new
  <2>9. \A u \in Threads \ {t} : thread[u] = Idle
    BY <1>c, <2>1, <2>4, OthersIdle DEF st
  <2>10. Undisturbed => NamedBy(st, meta, disk, swept)
    BY <2>4, <2>9, LoneBefore DEF st
  <2>11. RowsOK(inodes', meta', disk', swept')
    BY <2>1, <2>5, <2>8 DEF RowsOK
  <2>12. Doing(new, inodes', meta', disk', swept') /\ Placed(new, inodes')
    <3>1. new.pc \notin OldPcs /\ new.pc \notin {"send_point", "send_newmeta", "send_meta", "send_blob", "send_look", "send_inode"}
      BY <2>2, <2>3 DEF OldPcs
    <3>2. new.pc \in HoldPcs => disk'[new.blob] = new.content /\ new.blob \notin swept
      BY <2>2, <2>3, <2>5, <2>7, <2>8 DEF Doing
    <3> QED BY <2>1, <2>2, <2>6, <2>8, <3>1, <3>2 DEF Doing, Placed
  <2>13. HasRow(new, meta')
    BY <2>1, <2>2, <2>6 DEF HasRow
  <2>14. Undisturbed' => NamedBy(new, meta', disk', swept')
    <3>1. \A i : Replacing(new, i) <=> i = st.node
      BY <2>2, <2>4 DEF Replacing
    <3>2. \A b : /\ Holds(new, b) <=> Holds(st, b)
                 /\ Holds(st, b) => b # st.old
      BY <2>2, <2>3, <2>7 DEF Holds
    <3> QED BY <1>b, <2>1, <2>4, <2>6, <2>8, <2>10, <3>1, <3>2 DEF NamedBy
  <2> QED BY <2>1, <2>9, <2>11, <2>12, <2>13, <2>14, LoneStep
<1>14. ASSUME NEW t \in Threads, ReadOldSize(t) PROVE LoneInv'
  <2> DEFINE st == thread[t]
             new == [st EXCEPT !.pc = "send_update",
                               !.size = IF st.node \in DOMAIN meta THEN meta[st.node].size ELSE 0]
  <2>1. st.pc = "send_oldsize" /\ UNCHANGED <<inodes, meta, disk, swept, counters>> /\ Become(t, new)
    BY <1>14 DEF ReadOldSize, Reading, tables, blobs
  <2>2. new.pc = "send_update" /\ new.blob = st.blob /\ new.node = st.node /\ new.content = st.content
    BY <1>a DEF ThreadState
  <2>3. /\ st.pc \in HoldPcs /\ st.pc \in DescribePcs /\ st.pc \in GonePcs /\ st.pc \notin {"idle", "stuck"}
        /\ new.pc \in HoldPcs /\ new.pc \in DescribePcs /\ new.pc \in GonePcs /\ new.pc \notin OldPcs
    BY <2>1, <2>2 DEF HoldPcs, OldPcs, GonePcs, DescribePcs
  <2>4. Doing(st, inodes, meta, disk, swept)
    BY <1>c
  <2> HIDE DEF st, new
  <2>5. \A u \in Threads \ {t} : thread[u] = Idle
    BY <1>c, <2>1, <2>3, OthersIdle DEF st
  <2>6. Undisturbed => HasRow(st, meta)
    BY <2>3, <2>5, LoneBefore DEF st
  <2>7. Doing(new, inodes, meta, disk, swept) /\ Placed(new, inodes)
    BY <2>2, <2>3, <2>4 DEF Doing, Placed
  <2>8. Undisturbed => HasRow(new, meta)
    BY <2>2, <2>3, <2>6 DEF HasRow
  <2>9. (\A i : Replacing(new, i) <=> Replacing(st, i)) /\ \A b : Holds(new, b) <=> Holds(st, b)
    BY <2>2, <2>3 DEF Replacing, Holds
  <2> QED BY <1>b, <1>d, <2>1, <2>3, <2>7, <2>8, <2>9 DEF st
<1>15. ASSUME NEW t \in Threads, UpdateSize(t) PROVE LoneInv'
  <2> DEFINE st == thread[t]
             met == IF st.node \in DOMAIN meta
                    THEN [meta EXCEPT ![st.node].size = st.content, ![st.node].hash = st.content]
                    ELSE meta
             up == [at |-> IF st.node \in DOMAIN inodes THEN inodes[st.node].parent ELSE None,
                    by |-> Delta(st)]
             new == [st EXCEPT !.pc = "send_point", !.size = 0]
  <2>1. /\ st.pc = "send_update" /\ UNCHANGED <<disk, swept, counters>>
        /\ Commit(t, inodes, met, up, Nowhere, new)
    BY <1>15 DEF UpdateSize, blobs
  <2>2. new.pc = "send_point" /\ new.blob = st.blob /\ new.node = st.node /\ new.content = st.content
    BY <1>a DEF ThreadState
  <2>3. /\ st.pc \in HoldPcs /\ st.pc \in DescribePcs /\ st.pc \in GonePcs /\ st.pc \notin {"idle", "stuck"}
        /\ new.pc \in HoldPcs /\ new.pc \in DescribePcs /\ new.pc \in GonePcs /\ new.pc \notin OldPcs
    BY <2>1, <2>2 DEF HoldPcs, OldPcs, GonePcs, DescribePcs
  <2>4. Doing(st, inodes, meta, disk, swept) /\ RowsOK(inodes, meta, disk, swept)
    BY <1>c
  <2>5. /\ DOMAIN met = DOMAIN meta /\ \A i \in DOMAIN met : met[i].blob = meta[i].blob
        /\ \A i \in DOMAIN met \ {st.node} : met[i] = meta[i]
        /\ st.node \in DOMAIN met => met[st.node].size = st.content /\ met[st.node].hash = st.content
    BY DEF TypeInv, TablesOK, Meta
  <2>6. up.by \in Int
    BY <1>i DEF Delta
  <2> HIDE DEF st, met, up, new
  <2>7. CASE Goto(t, "stuck") /\ UNCHANGED <<inodes, meta>>
    BY <1>g, <2>1, <2>3, <2>7 DEF st
  <2>8. CASE SameRows(inodes', inodes) /\ meta' = met /\ Become(t, new)
    <3>1. \A u \in Threads \ {t} : thread[u] = Idle
      BY <1>c, <2>3, <2>8, OthersIdle DEF st
    <3>2. Undisturbed => NamedBy(st, meta, disk, swept) /\ HasRow(st, meta)
      BY <2>3, <3>1, LoneBefore DEF st
    <3>3. st.node \in DOMAIN meta => meta[st.node].blob \notin DOMAIN disk
      BY <2>3, <2>4 DEF Doing
    <3>4. RowsOK(inodes', meta', disk', swept')
      BY <1>a, <2>1, <2>4, <2>5, <2>8, <3>3 DEF RowsOK, SameRows
    <3>5. Doing(new, inodes', meta', disk', swept') /\ Placed(new, inodes')
      BY <2>1, <2>2, <2>3, <2>4, <2>5, <2>8, <3>3 DEF Doing, Placed
    <3>6. (\A i : Replacing(new, i) <=> Replacing(st, i)) /\ \A b : Holds(new, b) <=> Holds(st, b)
      BY <2>2, <2>3 DEF Replacing, Holds
    <3>7. Undisturbed' => NamedBy(new, meta', disk', swept') /\ HasRow(new, meta')
      BY <1>b, <2>1, <2>2, <2>3, <2>5, <2>8, <3>2, <3>6 DEF NamedBy, HasRow
    <3> QED BY <2>8, <3>1, <3>4, <3>5, <3>7, LoneStep
  <2> QED BY <1>i, <2>1, <2>6, <2>7, <2>8, CommitStep
<1>16. ASSUME NEW t \in Threads, PointMeta(t) PROVE LoneInv'
  <2> DEFINE st == thread[t]
  <2>1. /\ st.pc = "send_point" /\ UNCHANGED <<inodes, disk, swept, counters>> /\ Become(t, Idle)
        /\ meta' = IF st.node \in DOMAIN meta THEN [meta EXCEPT ![st.node].blob = st.blob] ELSE meta
    BY <1>16 DEF PointMeta, Reply, blobs
  <2>2. /\ st.pc \in HoldPcs /\ st.pc \in DescribePcs /\ st.pc \in GonePcs /\ st.pc \notin {"idle", "stuck"}
    BY <2>1 DEF HoldPcs, GonePcs, DescribePcs
  <2>3. /\ DOMAIN meta' = DOMAIN meta
        /\ \A i \in DOMAIN meta : /\ meta'[i].size = meta[i].size /\ meta'[i].hash = meta[i].hash
                                  /\ i # st.node => meta'[i] = meta[i]
        /\ st.node \in DOMAIN meta => meta'[st.node].blob = st.blob
    BY <2>1 DEF TypeInv, TablesOK, Meta
  <2>4. Doing(st, inodes, meta, disk, swept) /\ RowsOK(inodes, meta, disk, swept)
    BY <1>c
  <2>5. disk[st.blob] = st.content /\ st.blob \notin swept
    BY <2>2, <2>4 DEF Doing
  <2>6. st.node \in DOMAIN meta => meta[st.node].size = st.content /\ meta[st.node].hash = st.content
    BY <2>1, <2>4 DEF Doing
  <2> HIDE DEF st, Idle
  <2>7. \A u \in Threads \ {t} : thread[u] = Idle
    BY <1>c, <2>1, <2>2, OthersIdle DEF st
  <2>8. Undisturbed => NamedBy(st, meta, disk, swept) /\ HasRow(st, meta)
    BY <2>2, <2>7, LoneBefore DEF st
  <2>9. RowsOK(inodes', meta', disk', swept')
    BY <2>1, <2>3, <2>4, <2>5, <2>6 DEF RowsOK
  <2>10. /\ Doing(Idle, inodes', meta', disk', swept') /\ Placed(Idle, inodes') /\ HasRow(Idle, meta')
         /\ \A i : ~Replacing(Idle, i)
         /\ \A b : ~Holds(Idle, b)
    BY <1>a, OtherPlaces
  <2>11. (\A i : Replacing(st, i) <=> i = st.node) /\ \A b : Holds(st, b) <=> b = st.blob
    BY <2>2 DEF Replacing, Holds
  <2>12. Undisturbed => st.node \in DOMAIN meta
    BY <2>2, <2>8 DEF HasRow
  <2>13. Undisturbed => \A b : (\E i \in DOMAIN meta' : meta'[i].blob = b) <=>
                               (\E i \in DOMAIN meta : meta[i].blob = b /\ i # st.node) \/ b = st.blob
    BY <2>3, <2>12
  <2>14. Undisturbed' => NamedBy(Idle, meta', disk', swept')
    BY <1>b, <2>1, <2>8, <2>10, <2>11, <2>13 DEF NamedBy
  <2> QED BY <2>1, <2>7, <2>9, <2>10, <2>14, LoneStep
<1>17. ASSUME NEW t \in Threads, RmRead(t) PROVE LoneInv'
  <2> DEFINE st == thread[t]
             new == [st EXCEPT !.pc = "rm_delete", !.old = inodes[st.node].parent, !.size = Weight(st.node)]
  <2>1. /\ st.pc = "rm_read" /\ UNCHANGED <<inodes, meta, disk, swept, counters>>
        /\ (st.node \notin DOMAIN inodes /\ Become(t, Idle)) \/ Become(t, new)
    BY <1>17 DEF RmRead, ReadWeight, Reply, Reading, tables, blobs
  <2>2. new.pc = "rm_delete" /\ new.node = st.node
    BY <1>a DEF ThreadState
  <2>3. st.pc \notin HoldPcs /\ st.pc \in GonePcs /\ st.pc \notin {"idle", "stuck"}
    BY <2>1 DEF HoldPcs, GonePcs
  <2> HIDE DEF st, new, Idle
  <2>4. CASE st.node \notin DOMAIN inodes /\ Become(t, Idle)
    <3>1. \A i \in DOMAIN meta : ~Replacing(st, i)
      BY <1>a, <2>4 DEF Replacing
    <3> QED BY <1>a, <1>b, <1>e, <2>1, <2>3, <2>4, <3>1 DEF st
  <2>5. CASE Become(t, new)
    <3>1. Doing(new, inodes, meta, disk, swept) /\ Placed(new, inodes) /\ HasRow(new, meta)
      BY <2>2 DEF Doing, Placed, HasRow, HoldPcs, OldPcs, DescribePcs
    <3>2. (\A i : Replacing(new, i) <=> Replacing(st, i)) /\ \A b : Holds(new, b) <=> Holds(st, b)
      BY <2>2, <2>3 DEF Replacing, Holds, HoldPcs, GonePcs
    <3> QED BY <1>b, <1>d, <2>1, <2>3, <2>5, <3>1, <3>2 DEF st
  <2> QED BY <2>1, <2>4, <2>5
<1>18. ASSUME NEW t \in Threads, RmDelete(t) PROVE LoneInv'
  <2> DEFINE st == thread[t]
             gone == Cascade(st.node)
             left == [i \in DOMAIN inodes \ gone |-> inodes[i]]
             met == [i \in DOMAIN meta \ gone |-> meta[i]]
             up == [at |-> IF gone = {} THEN None ELSE st.old, by |-> -Counted(st)]
             lost == {meta[i].blob : i \in (gone \ {st.node}) \cap DOMAIN meta}
  <2>1. /\ st.pc = "rm_delete" /\ UNCHANGED <<disk, counters>>
        /\ Commit(t, left, met, up, Nowhere, Idle)
        /\ swept' = IF meta' = meta THEN swept ELSE swept \cup lost
    BY <1>18 DEF RmDelete
  <2>2. st.node \in DOMAIN inodes => st.node \in gone
    <3>1. st.node # RootId
      BY <1>a, <2>1 DEF ThreadOK, NodePcs
    <3> QED BY <1>a, <3>1, CascadeTree
  <2>3. st.pc \notin HoldPcs /\ st.pc \in GonePcs /\ st.pc \notin {"idle", "stuck"} /\ up.by \in Int
    BY <1>i, <2>1 DEF HoldPcs, GonePcs
  <2> HIDE DEF gone
  <2>4. /\ DOMAIN left = DOMAIN inodes \ gone /\ \A i \in DOMAIN left : left[i] = inodes[i]
        /\ DOMAIN met = DOMAIN meta \ gone /\ \A i \in DOMAIN met : met[i] = meta[i]
    OBVIOUS
  <2>5. \A b : b \in lost <=> \E i \in DOMAIN meta : i \in gone /\ i # st.node /\ meta[i].blob = b
    OBVIOUS
  <2> HIDE DEF st, left, met, up, lost, Idle
  <2>6. CASE Goto(t, "stuck") /\ UNCHANGED <<inodes, meta>>
    BY <1>g, <2>1, <2>3, <2>6 DEF st
  <2>7. CASE SameRows(inodes', left) /\ meta' = met /\ Become(t, Idle)
    <3>1. \A u \in Threads \ {t} : thread[u] = Idle
      BY <1>c, <2>3, <2>7, OthersIdle DEF st
    <3>2. Undisturbed => NamedBy(st, meta, disk, swept)
      BY <2>3, <3>1, LoneBefore DEF st
    <3>3. \A b : b \in swept' <=> b \in swept \/ b \in lost
      <4>1. meta' = meta => lost = {}
        BY <2>4, <2>5, <2>7
      <4> QED BY <2>1, <4>1
    <3>4. ASSUME NEW i \in DOMAIN met PROVE met[i].blob \notin lost
      BY <1>c, <2>4, <2>5 DEF OneRow
    <3>5. RowsOK(inodes', meta', disk', swept')
      <4>1. \A i \in DOMAIN met : i \in DOMAIN left /\ i \in DOMAIN meta
        BY <1>a, <2>4
      <4> QED BY <1>c, <2>1, <2>4, <2>7, <3>3, <3>4, <4>1 DEF RowsOK, SameRows
    <3>6. /\ Doing(Idle, inodes', meta', disk', swept') /\ Placed(Idle, inodes') /\ HasRow(Idle, meta')
          /\ \A i : ~Replacing(Idle, i)
          /\ \A b : ~Holds(Idle, b)
      BY <1>a, OtherPlaces
    <3>7. (\A i : Replacing(st, i) <=> i = st.node) /\ \A b : ~Holds(st, b)
      BY <2>3 DEF Replacing, Holds
    <3>8. \A i \in DOMAIN meta : i # st.node => i \in DOMAIN met \/ meta[i].blob \in lost
      BY <2>4, <2>5
    <3>9. \A i \in DOMAIN met : i \in DOMAIN meta /\ i # st.node /\ met[i].blob = meta[i].blob
      BY <1>a, <2>2, <2>4
    <3>10. ASSUME Undisturbed, NEW b
           PROVE  b \in DOMAIN disk' \ swept' <=> \E i \in DOMAIN met : met[i].blob = b
      <4>1. b \in DOMAIN disk \ swept <=> \E i \in DOMAIN meta : meta[i].blob = b /\ i # st.node
        BY <3>2, <3>7, <3>10 DEF NamedBy
      <4> QED BY <2>1, <3>3, <3>4, <3>8, <3>9, <4>1
    <3>11. Undisturbed' => NamedBy(Idle, meta', disk', swept')
      BY <1>b, <2>1, <2>7, <3>6, <3>10 DEF NamedBy
    <3> QED BY <2>7, <3>1, <3>5, <3>6, <3>11, LoneStep
  <2>8. \A i \in DOMAIN left : left[i] \in Inode
    BY <1>i, <2>4
  <2> QED BY <1>i, <2>1, <2>3, <2>6, <2>7, <2>8, CommitStep
<1>19. ASSUME NEW t \in Threads, MvWrite(t) PROVE LoneInv'
  <2> DEFINE st == thread[t]
             moved == [inodes EXCEPT ![st.node].parent = st.parent, ![st.node].name = st.name]
             from == [at |-> st.old, by |-> -Counted(st)]
             to == [at |-> st.parent, by |-> Counted(st)]
  <2>1. /\ st.pc = "mv_write" /\ UNCHANGED <<disk, swept, counters>>
        /\ \/ Become(t, Idle) /\ UNCHANGED <<inodes, meta>>
           \/ /\ st.node \in DOMAIN inodes
              /\ Commit(t, moved, meta, from, to, Idle)
    BY <1>19 DEF MvWrite, Reply, blobs
  <2>2. /\ st.pc \notin HoldPcs /\ st.pc \notin {"idle", "stuck"} /\ (\A i : ~Replacing(st, i))
        /\ from.by \in Int /\ to.by \in Int
    BY <1>i, <2>1 DEF HoldPcs, GonePcs, Replacing
  <2>3. CASE Become(t, Idle) /\ UNCHANGED <<inodes, meta>>
    <3> HIDE DEF Idle
    <3> QED BY <1>a, <1>b, <1>e, <2>1, <2>2, <2>3
  <2>4. CASE st.node \in DOMAIN inodes /\ Commit(t, moved, meta, from, to, Idle)
    <3>1. DOMAIN moved = DOMAIN inodes /\ \A i \in DOMAIN inodes : moved[i] \in Inode /\ moved[i].dir = inodes[i].dir
      <4>1. st.name \in Segments \cup {RootName} /\ st.parent \in Nat
        BY <1>a DEF ThreadState
      <4> QED BY <1>i, <2>4, <4>1 DEF Inode
    <3> HIDE DEF st, moved, from, to, Idle
    <3>2. CASE Goto(t, "stuck") /\ UNCHANGED <<inodes, meta>>
      BY <1>g, <2>1, <2>2, <3>2 DEF st
    <3>3. CASE SameRows(inodes', moved) /\ meta' = meta /\ Become(t, Idle)
      <4>1. \A u \in Threads \ {t} : thread[u] = Idle
        BY <1>c, <2>2, <3>3, OthersIdle DEF st
      <4>2. Undisturbed => NamedBy(st, meta, disk, swept)
        BY <2>2, <4>1, LoneBefore DEF st
      <4>3. RowsOK(inodes', meta', disk', swept')
        BY <1>a, <1>c, <2>1, <3>1, <3>3 DEF RowsOK, SameRows
      <4>4. /\ Doing(Idle, inodes', meta', disk', swept') /\ Placed(Idle, inodes') /\ HasRow(Idle, meta')
            /\ \A i : ~Replacing(Idle, i)
            /\ \A b : ~Holds(Idle, b)
        BY <1>a, OtherPlaces
      <4>5. \A b : ~Holds(st, b)
        BY <2>2 DEF Holds
      <4>6. Undisturbed' => NamedBy(Idle, meta', disk', swept')
        BY <1>b, <2>1, <2>2, <3>3, <4>2, <4>4, <4>5 DEF NamedBy
      <4> QED BY <3>3, <4>1, <4>3, <4>4, <4>6, LoneStep
    <3>4. \A i \in DOMAIN moved : moved[i] \in Inode
      BY <3>1
    <3> QED BY <2>2, <2>4, <3>2, <3>3, <3>4, CommitStep
  <2> QED BY <2>1, <2>3, <2>4
<1> QED BY <1>1, <1>2, <1>3, <1>4, <1>5, <1>6, <1>7, <1>8, <1>9, <1>10, <1>11, <1>12, <1>13, <1>14,
           <1>15, <1>16, <1>17, <1>18, <1>19 DEF Next, Step, Serve

LEMMA LoneInit == Init => LoneInv
<1> SUFFICES ASSUME Init PROVE LoneInv
  OBVIOUS
<1>1. /\ DOMAIN meta = {} /\ DOMAIN disk = {} /\ thread = [t \in Threads |-> Idle]
  BY DEF Init
<1>2. Idle.pc \in OtherPcs
  BY IdleType DEF OtherPcs
<1> HIDE DEF Idle
<1>3. \A t \in Threads : thread[t] = Idle
  BY <1>1
<1>4. Alone /\ RowsOK(inodes, meta, disk, swept)
  BY <1>1, <1>3 DEF Alone, RowsOK
<1>5. \A t \in Threads : /\ Doing(thread[t], inodes, meta, disk, swept) /\ Placed(thread[t], inodes)
                         /\ HasRow(thread[t], meta)
                         /\ \A b : ~Holds(thread[t], b)
  BY <1>2, <1>3, OtherPlaces
<1>6. Named
  BY <1>1, <1>5 DEF Named
<1> QED BY <1>4, <1>5, <1>6 DEF LoneInv

\* When requests do not overlap a blob on disk is the one that a row describes, size and
\* hash, or was left behind by the removal of a directory; wherever a request is cut short
\* the row still describes the blob it names, if that is there.
THEOREM BlobsAreDescribed == MCSpec => []BlobsDescribed
<1> DEFINE Inv == ~overlap => TypeInv /\ Owned /\ Readable /\ LoneInv
<1>1. MCInit => Inv
  BY TypeInit, FilesInit, LoneInit DEF MCInit
<1>2. Inv /\ [MCNext]_<<vars, overlap>> => Inv'
  <2> SUFFICES ASSUME Inv, [MCNext]_<<vars, overlap>>, ~overlap'
               PROVE  TypeInv' /\ Owned' /\ Readable' /\ LoneInv'
    OBVIOUS
  <2>1. ~overlap
    BY DEF MCNext
  <2>2. [Next]_vars
    BY <2>1 DEF MCNext
  <2>3. Alone'
    <3>1. (UNCHANGED vars) \/ Alone'
      BY <2>1 DEF MCNext
    <3>2. UNCHANGED vars => (Alone' <=> Alone)
      BY DEF vars, Alone
    <3>3. Alone
      BY <2>1 DEF LoneInv
    <3> QED BY <3>1, <3>2, <3>3
  <2>4. TypeInv'
    BY <2>1, <2>2, TypeNext
  <2>5. Owned' /\ Readable'
    BY <2>1, <2>2, <2>4, FilesNext
  <2> QED BY <2>1, <2>2, <2>3, <2>4, <2>5, LoneNext
<1>3. Inv => BlobsDescribed
  <2> SUFFICES ASSUME Inv, ~overlap, Quiet PROVE MetaMatchesBlob /\ OrphansOnlyFromDirs
    BY DEF BlobsDescribed, MetaMatchesBlob, OrphansOnlyFromDirs
  <2>1. RowsOK(inodes, meta, disk, swept)
    BY DEF LoneInv
  <2>2. MetaMatchesBlob
    BY <2>1 DEF RowsOK, MetaMatchesBlob
  <2>3. \A t \in Threads : /\ thread[t].pc # "stuck"
                           /\ \A i : ~Replacing(thread[t], i)
                           /\ \A b : ~Holds(thread[t], b)
    BY DEF Quiet, Replacing, Holds, GonePcs, HoldPcs
  <2>4. Undisturbed => Named
    BY <2>3 DEF LoneInv, Stuck
  <2>5. Undisturbed => \A b : b \in DOMAIN disk \ swept <=> \E i \in DOMAIN meta : meta[i].blob = b
    BY <2>3, <2>4 DEF Named
  <2>6. OrphansOnlyFromDirs
    BY <2>5 DEF OrphansOnlyFromDirs, References
  <2> QED BY <2>2, <2>6
<1> QED BY <1>1, <1>2, <1>3, PTL DEF MCSpec

-----------------------------------------------------------------------------
(* One request at a time: one tree of directories                          *)

LEMMA UpIs ==
  ASSUME NEW ino, NEW i \in DOMAIN ino, NEW j
  PROVE  j \in UpFrom(ino, i) <=>
           j \in DOMAIN ino /\ \A S \in SUBSET DOMAIN ino : i \in S /\ Closed(ino, S) => j \in S
<1>1. ASSUME j \in DOMAIN ino, \A S \in SUBSET DOMAIN ino : i \in S /\ Closed(ino, S) => j \in S
      PROVE  j \in UpFrom(ino, i)
  BY <1>1 DEF UpFrom
<1>2. j \in UpFrom(ino, i) => j \in DOMAIN ino
  BY DEF UpFrom
<1> QED BY <1>1, <1>2, UpIsLeast

\* What is above an inode ends at the root or in a cycle.
LEMMA UpIsClosed ==
  ASSUME NEW ino, NEW i \in DOMAIN ino
  PROVE  i \in UpFrom(ino, i) /\ UpFrom(ino, i) \subseteq DOMAIN ino /\ Closed(ino, UpFrom(ino, i))
<1>1. i \in UpFrom(ino, i) /\ UpFrom(ino, i) \subseteq DOMAIN ino
  BY UpIs
<1>2. ASSUME NEW k \in UpFrom(ino, i), ino[k].parent \in DOMAIN ino PROVE ino[k].parent \in UpFrom(ino, i)
  <2>1. ASSUME NEW S \in SUBSET DOMAIN ino, i \in S, Closed(ino, S) PROVE ino[k].parent \in S
    <3>1. k \in S
      BY <2>1, UpIs
    <3> QED BY <1>2, <2>1, <3>1 DEF Closed
  <2> QED BY <1>2, <2>1, UpIs
<1> QED BY <1>1, <1>2 DEF Closed

Rooted(ino) == \A i \in DOMAIN ino : \A S \in SUBSET DOMAIN ino : i \in S /\ Closed(ino, S) => RootId \in S
DirsHold(ino) ==
  ino[RootId].dir /\ \A i \in DOMAIN ino \ {RootId} : ino[i].parent \in DOMAIN ino /\ ino[ino[i].parent].dir
Tree(ino) == Rooted(ino) /\ DirsHold(ino)

LEMMA RootedIs ==
  ASSUME NEW ino, NEW last, TreeOK(ino, last)
  PROVE  Rooted(ino) <=> \A i \in DOMAIN ino : RootId \in UpFrom(ino, i)
BY UpIs DEF Rooted, TreeOK

LEMMA SameRowsTree ==
  ASSUME NEW new, NEW old, SameRows(new, old), Tree(old), RootId \in DOMAIN old PROVE Tree(new)
<1>1. \A S \in SUBSET DOMAIN old : Closed(new, S) => Closed(old, S)
  BY DEF SameRows, Closed
<1>2. Rooted(new)
  BY <1>1 DEF Rooted, SameRows, Tree
<1>3. DirsHold(new)
  BY DEF DirsHold, SameRows, Tree
<1> QED BY <1>2, <1>3 DEF Tree

LEMMA NewInodeOneTree ==
  ASSUME TreeOK(inodes, lastInode), lastInode \in Nat, Tree(inodes), NEW p, NEW n \in Segments \cup {RootName},
         NEW dir \in BOOLEAN, MayPut(None, p, n), IsDir(p)
  PROVE  Tree(NewInode(p, n, dir))
<1> DEFINE id == lastInode + 1
           new == NewInode(p, n, dir)
<1>1. /\ DOMAIN new = DOMAIN inodes \cup {id} /\ id \notin DOMAIN inodes
      /\ \A i \in DOMAIN inodes : new[i] = inodes[i]
  BY NewInodeTree
<1>2. new[id].parent = p /\ p \in DOMAIN inodes /\ inodes[p].dir /\ RootId \in DOMAIN inodes
  BY DEF NewInode, IsDir, TreeOK
<1> HIDE DEF id, new
<1>3. ASSUME NEW S \in SUBSET DOMAIN new, Closed(new, S), NEW i \in S PROVE RootId \in S
  <2> DEFINE T == S \cap DOMAIN inodes
  <2>1. Closed(inodes, T)
    BY <1>1, <1>3 DEF Closed
  <2>2. \E k \in T : TRUE
    BY <1>1, <1>2, <1>3 DEF Closed
  <2>3. T \in SUBSET DOMAIN inodes
    OBVIOUS
  <2> HIDE DEF T
  <2>4. RootId \in T
    BY <2>1, <2>2, <2>3 DEF Tree, Rooted
  <2> QED BY <2>4 DEF T
<1>4. DirsHold(new)
  BY <1>1, <1>2 DEF Tree, DirsHold
<1> QED BY <1>3, <1>4 DEF Tree, Rooted, new

LEMMA CascadeOneTree ==
  ASSUME TreeOK(inodes, lastInode), lastInode \in Nat, Tree(inodes), NEW n, n # RootId
  PROVE  Tree([i \in DOMAIN inodes \ Cascade(n) |-> inodes[i]])
<1> DEFINE gone == Cascade(n)
           left == [i \in DOMAIN inodes \ gone |-> inodes[i]]
<1>1. RootId \notin gone /\ \A j \in DOMAIN inodes \ {RootId} : inodes[j].parent \in gone => j \in gone
  BY BelowFacts DEF Cascade
<1> HIDE DEF gone
<1>2. DOMAIN left = DOMAIN inodes \ gone /\ \A j \in DOMAIN left : left[j] = inodes[j]
  OBVIOUS
<1> HIDE DEF left
<1>3. inodes[RootId].parent \notin DOMAIN inodes /\ RootId \in DOMAIN inodes
  BY DEF TreeOK, None
<1>4. ASSUME NEW S \in SUBSET DOMAIN left, Closed(left, S), NEW i \in S PROVE RootId \in S
  <2>1. S \in SUBSET DOMAIN inodes
    BY <1>2
  <2>2. Closed(inodes, S)
    BY <1>1, <1>2, <1>3, <1>4 DEF Closed
  <2> QED BY <1>4, <2>1, <2>2 DEF Tree, Rooted
<1>5. DirsHold(left)
  BY <1>1, <1>2, <1>3 DEF Tree, DirsHold
<1> QED BY <1>4, <1>5 DEF Tree, Rooted, left, gone

\* A row that moves to a directory that is not below it stays in the tree.
LEMMA MovedOneTree ==
  ASSUME NEW ino, NEW last, TreeOK(ino, last), Tree(ino), NEW n \in DOMAIN ino, n # RootId,
         NEW p \in DOMAIN ino, ino[p].dir, n \notin UpFrom(ino, p),
         NEW moved, DOMAIN moved = DOMAIN ino, moved[n].parent = p,
         \A j \in DOMAIN ino : moved[j].dir = ino[j].dir /\ (j # n => moved[j] = ino[j])
  PROVE  Tree(moved)
<1>1. ASSUME NEW S \in SUBSET DOMAIN ino, Closed(moved, S), NEW i \in S PROVE RootId \in S
  <2>1. CASE n \notin S
    <3>1. Closed(ino, S)
      BY <1>1, <2>1 DEF Closed
    <3> QED BY <1>1, <3>1 DEF Tree, Rooted
  <2>2. CASE n \in S
    <3> DEFINE T == S \cap UpFrom(ino, p)
    <3>1. p \in UpFrom(ino, p) /\ Closed(ino, UpFrom(ino, p))
      BY UpIsClosed
    <3>2. p \in T /\ T \in SUBSET DOMAIN ino
      BY <1>1, <2>2, <3>1 DEF Closed
    <3>3. Closed(ino, T)
      BY <1>1, <3>1 DEF Closed
    <3> HIDE DEF T
    <3>4. RootId \in T
      BY <3>2, <3>3 DEF Tree, Rooted
    <3> QED BY <3>4 DEF T
  <2> QED BY <2>1, <2>2
<1>2. DirsHold(moved)
  BY DEF Tree, DirsHold, TreeOK
<1> QED BY <1>1, <1>2 DEF Tree, Rooted

\* What is above the end of a way is on the way.
LEMMA UpIsOnWay ==
  ASSUME NEW ino, NEW last, TreeOK(ino, last), last \in Nat, NEW path \in Paths, NEW w \in Ways(ino, path),
         NEW i \in UpFrom(ino, At(w, Len(path)))
  PROVE  \E k \in 0 .. Len(path) : i = At(w, k)
<1> DEFINE n == Len(path)
           S == {At(w, k) : k \in 0 .. n}
<1>1. n \in Nat /\ n \in 0 .. n /\ \A k \in 0 .. n : k = 0 \/ k \in 1 .. n
  BY PathFacts
<1>2. At(w, 0) = RootId /\ ino[RootId].parent \notin DOMAIN ino
  BY DEF At, TreeOK, None
<1>3. /\ \A k \in 0 .. n : At(w, k) \in DOMAIN ino
      /\ \A k \in 1 .. n : k - 1 \in 0 .. n /\ ino[At(w, k)].parent = At(w, k - 1)
  BY WayFacts
<1> HIDE DEF n
<1>4. S \in SUBSET DOMAIN ino /\ At(w, n) \in S
  BY <1>1, <1>3
<1>5. \A k \in 0 .. n : ino[At(w, k)].parent \in DOMAIN ino => ino[At(w, k)].parent \in S
  BY <1>1, <1>2, <1>3
<1>6. Closed(ino, S)
  BY <1>5 DEF Closed
<1> HIDE DEF S
<1>7. i \in S
  BY <1>4, <1>6, UpIsLeast DEF n
<1> QED BY <1>7 DEF S, n

\* An inode that a way passes is found by the part of the path up to it only.
LEMMA PassedByPrefix ==
  ASSUME NEW ino, NEW last, TreeOK(ino, last), last \in Nat, NEW path \in Paths, NEW w \in Ways(ino, path),
         NEW src \in Paths, NEW v \in Ways(ino, src), NEW k \in 0 .. Len(path),
         At(v, Len(src)) = At(w, k)
  PROVE  Len(src) = k /\ \A m \in 1 .. k : src[m] = path[m]
<1> DEFINE n == Len(src)
           far == {j \in Nat : j <= n /\ j <= k /\ At(v, n - j) # At(w, k - j)}
<1>1. n \in Nat /\ k \in Nat /\ Len(path) \in Nat /\ k <= Len(path)
  BY PathFacts
<1>2. \A j \in 1 .. n : /\ At(v, j) # RootId /\ ino[At(v, j)].parent = At(v, j - 1)
                        /\ ino[At(v, j)].name = src[j]
  BY WayFacts
<1>3. \A j \in 1 .. Len(path) : /\ At(w, j) # RootId /\ ino[At(w, j)].parent = At(w, j - 1)
                                /\ ino[At(w, j)].name = path[j]
  BY WayFacts
<1>4. At(v, 0) = RootId /\ At(w, 0) = RootId /\ At(v, n) = At(w, k)
  BY DEF At
<1> HIDE DEF n
<1>5. far = {}
  <2> SUFFICES ASSUME far # {} PROVE FALSE
    OBVIOUS
  <2>1. PICK j \in far : \A m \in far : j <= m
    BY LeastNumber
  <2>2. j \in Nat /\ j <= n /\ j <= k /\ At(v, n - j) # At(w, k - j)
    BY <2>1
  <2>3. j # 0
    <3>1. n - 0 = n /\ k - 0 = k
      BY <1>1
    <3> QED BY <1>4, <2>2, <3>1
  <2>4. j - 1 \in Nat /\ j - 1 <= n /\ j - 1 <= k /\ ~(j <= j - 1)
    BY <1>1, <2>2, <2>3
  <2>5. At(v, n - (j - 1)) = At(w, k - (j - 1))
    BY <2>1, <2>4
  <2>6. n - (j - 1) \in 1 .. n /\ k - (j - 1) \in 1 .. Len(path)
    BY <1>1, <2>2, <2>3
  <2>7. n - (j - 1) - 1 = n - j /\ k - (j - 1) - 1 = k - j
    BY <1>1, <2>2
  <2>8. ino[At(v, n - (j - 1))].parent = At(v, n - j) /\ ino[At(w, k - (j - 1))].parent = At(w, k - j)
    BY <1>2, <1>3, <2>6, <2>7
  <2> QED BY <2>2, <2>5, <2>8
<1>6. \A j \in Nat : j <= n /\ j <= k => At(v, n - j) = At(w, k - j)
  BY <1>5
<1> HIDE DEF far
<1>7. n = k
  <2>1. CASE n < k
    <3>1. n - n = 0 /\ k - n \in 1 .. Len(path) /\ n <= n /\ n <= k
      BY <1>1, <2>1
    <3>2. At(v, 0) = At(w, k - n)
      BY <1>1, <1>6, <3>1
    <3> QED BY <1>3, <1>4, <3>1, <3>2
  <2>2. CASE k < n
    <3>1. k - k = 0 /\ n - k \in 1 .. n /\ k <= n /\ k <= k
      BY <1>1, <2>2
    <3>2. At(v, n - k) = At(w, 0)
      BY <1>1, <1>6, <3>1
    <3> QED BY <1>2, <1>4, <3>1, <3>2
  <2> QED BY <1>1, <2>1, <2>2
<1>8. ASSUME NEW m \in 1 .. k PROVE src[m] = path[m]
  <2>1. k - m \in Nat /\ k - m <= k /\ k - (k - m) = m /\ m \in 1 .. Len(path)
    BY <1>1
  <2>2. At(v, m) = At(w, m)
    BY <1>6, <1>7, <2>1
  <2> QED BY <1>2, <1>3, <1>7, <2>1, <2>2
<1> QED BY <1>7, <1>8 DEF n

LEMMA PrefixIs ==
  ASSUME NEW s \in Paths, NEW path \in Paths, Len(s) <= Len(path), \A m \in 1 .. Len(s) : s[m] = path[m]
  PROVE  IsPrefix(s, path)
<1> DEFINE n == Len(s)
           a == SubSeq(s, 1, n)
           b == SubSeq(path, 1, n)
<1>1. n \in Nat /\ Len(path) \in Nat /\ s \in Seq(Segments) /\ path \in Seq(Segments)
  BY PathFacts
<1>2. \A m \in 1 .. n : s[m] \in Segments /\ m \in 1 .. Len(path) /\ path[m] \in Segments
  BY <1>1
<1> HIDE DEF n
<1>3. /\ a \in Seq(Segments) /\ Len(a) = (IF 1 <= n THEN n - 1 + 1 ELSE 0)
      /\ \A m \in 1 .. n - 1 + 1 : a[m] = s[1 + m - 1]
  BY <1>1, <1>2, SubSeqProperties
<1>4. /\ b \in Seq(Segments) /\ Len(b) = (IF 1 <= n THEN n - 1 + 1 ELSE 0)
      /\ \A m \in 1 .. n - 1 + 1 : b[m] = path[1 + m - 1]
  BY <1>1, <1>2, SubSeqProperties
<1> HIDE DEF a, b
<1>5. n - 1 + 1 = n /\ \A m \in 1 .. n : 1 + m - 1 = m
  BY <1>1
<1>6. Len(a) = Len(b) /\ \A m \in 1 .. Len(a) : m \in 1 .. n
  BY <1>1, <1>3, <1>4
<1>7. \A m \in 1 .. Len(a) : a[m] = b[m]
  BY <1>3, <1>4, <1>5, <1>6 DEF n
<1>8. a = b
  BY <1>3, <1>4, <1>6, <1>7, SeqEqual
<1> QED BY <1>8 DEF IsPrefix, n, a, b

\* An inode above one that a path leads to is on the path.
LEMMA AboveIsPrefix ==
  ASSUME NEW ino, NEW last, TreeOK(ino, last), last \in Nat, NEW path \in Paths, NEW i, Leads(ino, path, i),
         NEW src \in Paths, NEW n, Leads(ino, src, n), n \in UpFrom(ino, i)
  PROVE  Len(src) <= Len(path) /\ \A m \in 1 .. Len(src) : src[m] = path[m]
<1>1. PICK w \in Ways(ino, path) : At(w, Len(path)) = i
  BY DEF Leads
<1>2. PICK v \in Ways(ino, src) : At(v, Len(src)) = n
  BY DEF Leads
<1>3. PICK k \in 0 .. Len(path) : n = At(w, k)
  BY <1>1, UpIsOnWay
<1>4. Len(src) = k /\ \A m \in 1 .. k : src[m] = path[m]
  BY <1>1, <1>2, <1>3, PassedByPrefix
<1>5. Len(path) \in Nat
  BY PathFacts
<1> QED BY <1>4, <1>5

\* What a thread puts into a directory goes into one, and not below itself: until it has
\* looked where a move goes, what it moves is where a path led that the target does not
\* begin with.
IntoPcs == {"mkdir_look", "mkdir_make", "send_look", "send_inode", "mv_exists", "mv_read", "mv_write"}
MovePcs == {"mv_exists", "mv_read", "mv_write"}
Into(st, ino) ==
  st.pc \in IntoPcs \/ (st.pc = "send_blob" /\ st.node = None) =>
    st.parent \in DOMAIN ino /\ ino[st.parent].dir
Apart(st, ino) ==
  /\ st.pc = "mv_dst" => \E src \in Paths : Leads(ino, src, st.node) /\ ~IsPrefix(src, st.path)
  /\ st.pc \in MovePcs => st.node \notin UpFrom(ino, st.parent)

TreeInv ==
  Alone /\ Tree(inodes) /\ \A t \in Threads : Into(thread[t], inodes) /\ Apart(thread[t], inodes)

\* Where a thread puts nothing into a directory.
ElsewherePcs == Pcs \ (IntoPcs \cup {"send_blob", "mv_dst"})

LEMMA Elsewhere ==
  ASSUME NEW st, st.pc \in ElsewherePcs, NEW ino PROVE Into(st, ino) /\ Apart(st, ino)
BY DEF ElsewherePcs, IntoPcs, MovePcs, Into, Apart

LEMMA TreeStep ==
  ASSUME TypeInv, TreeInv, Alone', NEW t \in Threads, NEW st, Become(t, st),
         thread[t].pc # "idle" \/ st.pc # "idle",
         Tree(inodes'), Into(st, inodes'), Apart(st, inodes')
  PROVE  TreeInv'
<1>1. thread'[t] = st /\ \A u \in Threads \ {t} : thread'[u] = thread[u]
  BY OneMoves
<1>2. \A u \in Threads \ {t} : thread[u] = Idle
  BY OthersIdle DEF TreeInv
<1>3. Idle.pc \in ElsewherePcs
  BY IdleType DEF ElsewherePcs, IntoPcs, Pcs
<1> HIDE DEF Idle
<1>4. Into(Idle, inodes') /\ Apart(Idle, inodes')
  BY <1>3, Elsewhere
<1> QED BY <1>1, <1>2, <1>4 DEF TreeInv

LEMMA TreeNext == ASSUME Careful, TypeInv, TreeInv, Alone', [Next]_vars PROVE TreeInv'
<1>a. /\ \A t \in Threads : thread[t] \in ThreadState /\ ThreadOK(thread[t], lastBlob)
      /\ Idle \in ThreadState /\ Idle.pc = "idle" /\ Idle.pc \in ElsewherePcs
      /\ TreeOK(inodes, lastInode) /\ lastInode \in Nat /\ RootId \in DOMAIN inodes
      /\ Alone /\ Tree(inodes)
      /\ \A t \in Threads : Into(thread[t], inodes) /\ Apart(thread[t], inodes)
  BY IdleType DEF TypeInv, TablesOK, TreeOK, ThreadsOK, ThreadOK, TreeInv, ElsewherePcs, IntoPcs, Pcs
\* Thread t comes to a place where it puts nothing anywhere.
<1>e. ASSUME NEW t \in Threads, NEW st, Become(t, st), UNCHANGED inodes, thread[t].pc # "idle" \/ st.pc # "idle",
             st.pc \in ElsewherePcs
      PROVE  TreeInv'
  <2>1. Into(st, inodes') /\ Apart(st, inodes') /\ Tree(inodes')
    BY <1>a, <1>e, Elsewhere
  <2> QED BY <1>e, <2>1, TreeStep
<1>g. ASSUME NEW t \in Threads, Goto(t, "stuck"), UNCHANGED inodes, thread[t].pc # "idle" PROVE TreeInv'
  <2> DEFINE st == [thread[t] EXCEPT !.pc = "stuck"]
  <2>1. Become(t, st) /\ st.pc \in ElsewherePcs
    BY <1>a, <1>g DEF Goto, ThreadState, ElsewherePcs, IntoPcs, Pcs
  <2> HIDE DEF st
  <2> QED BY <1>e, <1>g, <2>1
\* It commits rows that are one tree.
<1>f. ASSUME NEW t \in Threads, NEW ino, NEW met, NEW first, NEW second, first.by \in Int, second.by \in Int,
             NEW st, Commit(t, ino, met, first, second, st), thread[t].pc # "idle", st.pc \in ElsewherePcs,
             TreeOK(ino, lastInode), Tree(ino)
      PROVE  TreeInv'
  <2>1. (\A i \in DOMAIN ino : ino[i] \in Inode) /\ RootId \in DOMAIN ino
    BY <1>f DEF TreeOK
  <2>2. CASE Goto(t, "stuck") /\ UNCHANGED <<inodes, meta>>
    BY <1>f, <1>g, <2>2
  <2>3. CASE SameRows(inodes', ino) /\ meta' = met /\ Become(t, st)
    <3>1. Tree(inodes') /\ Into(st, inodes') /\ Apart(st, inodes')
      BY <1>f, <2>1, <2>3, SameRowsTree, Elsewhere
    <3> QED BY <1>f, <2>3, <3>1, TreeStep
  <2> QED BY <1>f, <2>1, <2>2, <2>3, CommitStep
<1>i. /\ \A t \in Threads : thread[t].content \in Int /\ thread[t].size \in Int /\ Counted(thread[t]) \in Int
      /\ Nowhere.by \in Int
  <2>1. \A c \in Contents \cup {0} : c \in Int
    BY VfsAssumption
  <2>2. \A t \in Threads : thread[t].content \in Contents \cup {0} /\ thread[t].size \in Int
    BY <1>a DEF ThreadState
  <2> QED BY <2>1, <2>2 DEF Nowhere, Counted
<1>1. CASE UNCHANGED vars
  <2>1. UNCHANGED <<inodes, thread>>
    BY <1>1 DEF vars, tables
  <2> QED BY <1>a, <2>1 DEF TreeInv
<1>2. CASE Crash
  <2>1. thread' = [t \in Threads |-> Idle] /\ UNCHANGED inodes
    BY <1>2 DEF Crash, tables
  <2> HIDE DEF Idle
  <2>2. \A t \in Threads : Into(thread'[t], inodes') /\ Apart(thread'[t], inodes')
    BY <1>a, <2>1, Elsewhere
  <2> QED BY <1>a, <2>1, <2>2 DEF TreeInv
<1>3. ASSUME NEW t \in Threads, Fail(t) \/ Busy(t) PROVE TreeInv'
  <2>1. Become(t, Idle) /\ UNCHANGED inodes /\ thread[t].pc # "idle"
    BY <1>3 DEF Fail, Busy, Reply, Reading, tables, DatabasePcs, WritePcs
  <2> HIDE DEF Idle
  <2> QED BY <1>a, <1>e, <2>1
<1>4. ASSUME NEW t \in Threads, Start(t) PROVE TreeInv'
  <2>1. thread[t].pc = "idle" /\ UNCHANGED inodes /\ Tree(inodes')
    BY <1>4, <1>a DEF Start, Arrive, tables
  <2>2. PICK path \in Paths : StartMkdir(t, path) \/ StartSend(t, path) \/ StartRm(t, path) \/ StartMv(t, path)
    BY <1>4 DEF Start
  <2>3. CASE StartMkdir(t, path)
    <3> DEFINE st == [Idle EXCEPT !.pc = "mkdir_look", !.path = path, !.parent = RootId]
    <3>1. Become(t, st) /\ st.pc = "mkdir_look" /\ st.parent = RootId
      BY <1>a, <2>3 DEF StartMkdir, ThreadState
    <3> HIDE DEF st
    <3>2. Into(st, inodes') /\ Apart(st, inodes')
      BY <1>a, <2>1, <3>1 DEF Into, Apart, MovePcs, Tree, DirsHold
    <3> QED BY <2>1, <3>1, <3>2, TreeStep
  <2>4. CASE StartSend(t, path)
    <3>1. PICK c \in Contents, overwrite \in BOOLEAN :
            Become(t, [Idle EXCEPT !.pc = "send_look", !.path = path, !.parent = Resolve(Front(path)),
                         !.name = Last(path), !.content = c, !.overwrite = overwrite])
      BY <2>4 DEF StartSend
    <3> DEFINE st == [Idle EXCEPT !.pc = "send_look", !.path = path, !.parent = Resolve(Front(path)),
                         !.name = Last(path), !.content = c, !.overwrite = overwrite]
    <3>2. Become(t, st) /\ st.pc = "send_look" /\ st.parent = Resolve(Front(path))
      BY <1>a, <3>1 DEF ThreadState
    <3>3. IsDir(Resolve(Front(path)))
      BY <2>4 DEF StartSend
    <3> HIDE DEF st
    <3>4. Into(st, inodes') /\ Apart(st, inodes')
      BY <2>1, <3>2, <3>3 DEF Into, Apart, MovePcs, IsDir
    <3> QED BY <2>1, <3>2, <3>4, TreeStep
  <2>5. CASE StartRm(t, path)
    <3> DEFINE st == [Idle EXCEPT !.pc = IF IsDir(Resolve(path)) THEN "rm_read" ELSE "rm_meta", !.node = Resolve(path)]
    <3>1. Become(t, st) /\ st.pc \in {"rm_read", "rm_meta"}
      BY <1>a, <2>5 DEF StartRm, ThreadState
    <3> HIDE DEF st
    <3>2. st.pc \in ElsewherePcs /\ st.pc # "idle"
      BY <3>1 DEF ElsewherePcs, IntoPcs, Pcs
    <3> QED BY <1>e, <2>1, <3>1, <3>2
  <2>6. CASE StartMv(t, path)
    <3>1. PICK dst \in Paths :
            /\ ~IsPrefix(path, dst)
            /\ Become(t, [Idle EXCEPT !.pc = "mv_dst", !.path = dst, !.node = Resolve(path), !.name = Last(path)])
      BY <2>6 DEF StartMv
    <3> DEFINE st == [Idle EXCEPT !.pc = "mv_dst", !.path = dst, !.node = Resolve(path), !.name = Last(path)]
    <3>2. Become(t, st) /\ st.pc = "mv_dst" /\ st.node = Resolve(path) /\ st.path = dst
      BY <1>a, <3>1 DEF ThreadState
    <3>3. Resolve(path) # None
      BY <2>6 DEF StartMv
    <3> HIDE DEF st
    <3>4. Leads(inodes, path, st.node)
      BY <1>a, <3>2, <3>3, LeadsIsResolve
    <3>5. Into(st, inodes') /\ Apart(st, inodes')
      BY <2>1, <3>1, <3>2, <3>4 DEF Into, Apart, MovePcs, IntoPcs
    <3> QED BY <2>1, <3>2, <3>5, TreeStep
  <2> QED BY <2>2, <2>3, <2>4, <2>5, <2>6
<1>5. ASSUME NEW t \in Threads, MkdirLook(t) PROVE TreeInv'
  <2> DEFINE st == thread[t]
             c == Child(st.parent, Head(st.path))
             make == [st EXCEPT !.pc = "mkdir_make"]
             next == [st EXCEPT !.parent = c, !.path = Tail(st.path)]
  <2>1. /\ st.pc = "mkdir_look" /\ UNCHANGED inodes
        /\ Become(t, Idle) \/ Become(t, make) \/ (IsDir(c) /\ Become(t, next))
    BY <1>5 DEF MkdirLook, Reading, tables, Goto, Reply, Blocked
  <2>2. make.pc = "mkdir_make" /\ make.parent = st.parent /\ next.pc = st.pc /\ next.parent = c
    BY <1>a DEF ThreadState
  <2>3. Into(st, inodes) /\ Tree(inodes')
    BY <1>a, <2>1
  <2> HIDE DEF st, c, make, next, Idle
  <2>4. Into(make, inodes') /\ Apart(make, inodes')
    BY <2>1, <2>2, <2>3 DEF Into, Apart, IntoPcs, MovePcs
  <2>5. IsDir(c) => Into(next, inodes') /\ Apart(next, inodes')
    BY <2>1, <2>2 DEF Into, Apart, IntoPcs, MovePcs, IsDir
  <2>6. CASE Become(t, Idle)
    BY <1>a, <1>e, <2>1, <2>6 DEF st
  <2>7. CASE Become(t, make)
    BY <2>2, <2>3, <2>4, <2>7, TreeStep
  <2>8. CASE IsDir(c) /\ Become(t, next)
    BY <2>1, <2>2, <2>3, <2>5, <2>8, TreeStep
  <2> QED BY <2>1, <2>6, <2>7, <2>8
\* A row is inserted under a directory.
<1>h. ASSUME NEW t \in Threads, thread[t].pc \in {"mkdir_make", "send_inode"}, NEW n \in Segments \cup {RootName},
             NEW dir \in BOOLEAN, MayPut(None, thread[t].parent, n), inodes' = NewInode(thread[t].parent, n, dir)
      PROVE  Tree(inodes') /\ lastInode + 1 \in DOMAIN inodes' /\ inodes'[lastInode + 1].dir = dir
  <2>1. IsDir(thread[t].parent)
    BY <1>a, <1>h DEF Into, IntoPcs, IsDir
  <2>2. Tree(NewInode(thread[t].parent, n, dir))
    BY <1>a, <1>h, <2>1, NewInodeOneTree
  <2> QED BY <1>a, <1>h, <2>2, NewInodeTree
<1>6. ASSUME NEW t \in Threads, MkdirMake(t) PROVE TreeInv'
  <2> DEFINE st == thread[t]
             n == Head(st.path)
             new == [st EXCEPT !.pc = "mkdir_look", !.parent = lastInode + 1, !.path = Tail(st.path)]
  <2>1. st.pc = "mkdir_make"
    BY <1>6 DEF MkdirMake
  <2>2. \/ Become(t, Idle) /\ UNCHANGED inodes
        \/ /\ MayPut(None, st.parent, n) /\ inodes' = NewInode(st.parent, n, TRUE)
           /\ Become(t, Idle) \/ Become(t, new)
    BY <1>6 DEF MkdirMake, Reply, tables
  <2>3. n \in Segments \cup {RootName}
    BY <1>a, <2>1, PathFacts DEF ThreadOK, ThreadState
  <2>4. new.pc = "mkdir_look" /\ new.parent = lastInode + 1
    BY <1>a DEF ThreadState
  <2> HIDE DEF n, new, Idle
  <2>5. CASE Become(t, Idle) /\ UNCHANGED inodes
    BY <1>a, <1>e, <2>1, <2>5
  <2>6. CASE /\ MayPut(None, st.parent, n) /\ inodes' = NewInode(st.parent, n, TRUE)
             /\ Become(t, Idle) \/ Become(t, new)
    <3>1. Tree(inodes') /\ lastInode + 1 \in DOMAIN inodes' /\ inodes'[lastInode + 1].dir
      BY <1>h, <2>1, <2>3, <2>6
    <3>2. Into(new, inodes') /\ Apart(new, inodes')
      BY <2>4, <3>1 DEF Into, Apart, MovePcs
    <3>3. Into(Idle, inodes') /\ Apart(Idle, inodes')
      BY <1>a, Elsewhere
    <3> QED BY <2>1, <2>6, <3>1, <3>2, <3>3, TreeStep
  <2> QED BY <2>2, <2>5, <2>6
<1>7. ASSUME NEW t \in Threads, SendLook(t) \/ WriteBlob(t) PROVE TreeInv'
  <2> DEFINE st == thread[t]
             look == [st EXCEPT !.pc = "send_blob", !.path = <<>>, !.node = Resolve(st.path)]
             write == [st EXCEPT !.blob = lastBlob + 1, !.pc = IF st.node = None THEN "send_inode" ELSE "send_meta"]
  <2>1. /\ UNCHANGED inodes
        /\ \/ st.pc = "send_look" /\ (Become(t, Idle) \/ Become(t, look))
           \/ st.pc = "send_blob" /\ Become(t, write)
    BY <1>7 DEF SendLook, WriteBlob, Reading, tables, Reply
  <2>2. /\ look.pc = "send_blob" /\ look.parent = st.parent /\ write.parent = st.parent
        /\ write.pc = IF st.node = None THEN "send_inode" ELSE "send_meta"
    BY <1>a DEF ThreadState
  <2>3. Into(st, inodes) /\ Tree(inodes')
    BY <1>a, <2>1
  <2> HIDE DEF st, look, write, Idle
  <2>4. CASE st.pc = "send_look" /\ Become(t, Idle)
    BY <1>a, <1>e, <2>1, <2>4 DEF st
  <2>5. CASE st.pc = "send_look" /\ Become(t, look)
    <3>1. Into(look, inodes') /\ Apart(look, inodes')
      BY <2>1, <2>2, <2>3, <2>5 DEF Into, Apart, IntoPcs, MovePcs
    <3> QED BY <2>2, <2>3, <2>5, <3>1, TreeStep
  <2>6. CASE st.pc = "send_blob" /\ Become(t, write)
    <3>1. Into(write, inodes') /\ Apart(write, inodes')
      BY <2>1, <2>2, <2>3, <2>6 DEF Into, Apart, IntoPcs, MovePcs
    <3>2. thread[t].pc # "idle"
      BY <2>6 DEF st
    <3> QED BY <2>3, <2>6, <3>1, <3>2, TreeStep
  <2> QED BY <2>1, <2>4, <2>5, <2>6
<1>8. ASSUME NEW t \in Threads, InsertFile(t) PROVE TreeInv'
  <2> DEFINE st == thread[t]
             new == [st EXCEPT !.pc = "send_newmeta", !.node = lastInode + 1]
  <2>1. /\ st.pc = "send_inode"
        /\ \/ Become(t, Idle) /\ UNCHANGED inodes
           \/ /\ MayPut(None, st.parent, st.name) /\ inodes' = NewInode(st.parent, st.name, FALSE)
              /\ Become(t, new)
    BY <1>8 DEF InsertFile, Reply, tables
  <2>2. new.pc \in ElsewherePcs /\ st.name \in Segments \cup {RootName}
    BY <1>a DEF ThreadState, ElsewherePcs, IntoPcs, Pcs
  <2> HIDE DEF new, Idle
  <2>3. CASE Become(t, Idle) /\ UNCHANGED inodes
    BY <1>a, <1>e, <2>1, <2>3
  <2>4. CASE /\ MayPut(None, st.parent, st.name) /\ inodes' = NewInode(st.parent, st.name, FALSE)
             /\ Become(t, new)
    <3>1. Tree(inodes')
      BY <1>h, <2>1, <2>2, <2>4
    <3>2. Into(new, inodes') /\ Apart(new, inodes')
      BY <2>2, Elsewhere
    <3> QED BY <2>1, <2>4, <3>1, <3>2, TreeStep
  <2> QED BY <2>1, <2>3, <2>4
<1>9. ASSUME NEW t \in Threads,
             ReadOldBlob(t) \/ UnlinkOld(t) \/ ReadOldSize(t) \/ PointMeta(t) \/ RmMeta(t) \/ RmUnlink(t) \/ RmRead(t)
      PROVE  TreeInv'
  <2>1. UNCHANGED inodes /\ thread[t].pc # "idle"
    BY <1>9 DEF ReadOldBlob, UnlinkOld, ReadOldSize, PointMeta, RmMeta, RmUnlink, RmRead, Reading, tables
  <2> DEFINE st == thread[t]
             unlink1 == [st EXCEPT !.pc = "send_unlink", !.old = meta[st.node].blob]
             none == [st EXCEPT !.pc = "send_oldsize"]
             gone1 == [st EXCEPT !.pc = "send_oldsize", !.old = None]
             size == [st EXCEPT !.pc = "send_update",
                                !.size = IF st.node \in DOMAIN meta THEN meta[st.node].size ELSE 0]
             unlink2 == [st EXCEPT !.pc = "rm_unlink", !.old = meta[st.node].blob]
             read == [st EXCEPT !.pc = "rm_read"]
             gone2 == [st EXCEPT !.pc = "rm_read", !.old = None]
             delete == [st EXCEPT !.pc = "rm_delete", !.old = inodes[st.node].parent, !.size = Weight(st.node)]
  <2>2. \/ Become(t, Idle) \/ Become(t, unlink1) \/ Become(t, none) \/ Become(t, gone1) \/ Become(t, size)
        \/ Become(t, unlink2) \/ Become(t, read) \/ Become(t, gone2) \/ Become(t, delete)
    BY <1>9 DEF ReadOldBlob, UnlinkOld, ReadOldSize, PointMeta, RmMeta, RmUnlink, RmRead, ReadWeight, Goto, Reply
  <2>3. /\ unlink1.pc = "send_unlink" /\ none.pc = "send_oldsize" /\ gone1.pc = "send_oldsize"
        /\ size.pc = "send_update" /\ unlink2.pc = "rm_unlink" /\ read.pc = "rm_read" /\ gone2.pc = "rm_read"
        /\ delete.pc = "rm_delete"
    BY <1>a DEF ThreadState
  <2> HIDE DEF st, unlink1, none, gone1, size, unlink2, read, gone2, delete, Idle
  <2>4. {"send_unlink", "send_oldsize", "send_update", "rm_unlink", "rm_read", "rm_delete"} \subseteq ElsewherePcs
    BY DEF ElsewherePcs, IntoPcs, Pcs
  <2> QED BY <1>a, <1>e, <2>1, <2>2, <2>3, <2>4
<1>10. ASSUME NEW t \in Threads, InsertMeta(t) \/ UpdateSize(t) PROVE TreeInv'
  <2> DEFINE st == thread[t]
             new == [st EXCEPT !.pc = "send_point", !.size = 0]
  <2>1. new.pc \in ElsewherePcs /\ Delta(st) \in Int
    BY <1>a, <1>i DEF ThreadState, ElsewherePcs, IntoPcs, Pcs, Delta
  <2>2. CASE InsertMeta(t)
    <3> DEFINE row == [blob |-> st.blob, size |-> st.content, hash |-> st.content]
               met == [i \in DOMAIN meta \cup {st.node} |-> IF i = st.node THEN row ELSE meta[i]]
               up == [at |-> inodes[st.node].parent, by |-> st.content]
    <3>1. /\ st.pc = "send_newmeta"
          /\ (Become(t, Idle) /\ UNCHANGED inodes) \/ Commit(t, inodes, met, up, Nowhere, Idle)
      BY <2>2 DEF InsertMeta, Reply
    <3>2. up.by \in Int
      BY <1>i
    <3> HIDE DEF met, up, Idle
    <3> QED BY <1>a, <1>e, <1>f, <1>i, <3>1, <3>2
  <2>3. CASE UpdateSize(t)
    <3> DEFINE met == IF st.node \in DOMAIN meta
                      THEN [meta EXCEPT ![st.node].size = st.content, ![st.node].hash = st.content]
                      ELSE meta
               up == [at |-> IF st.node \in DOMAIN inodes THEN inodes[st.node].parent ELSE None,
                      by |-> Delta(st)]
    <3>1. st.pc = "send_update" /\ Commit(t, inodes, met, up, Nowhere, new)
      BY <2>3 DEF UpdateSize
    <3>2. up.by \in Int
      BY <2>1
    <3> HIDE DEF met, up, new
    <3> QED BY <1>a, <1>f, <1>i, <2>1, <3>1, <3>2
  <2> QED BY <1>10, <2>2, <2>3
<1>11. ASSUME NEW t \in Threads, RmDelete(t) PROVE TreeInv'
  <2> DEFINE st == thread[t]
             gone == Cascade(st.node)
             left == [i \in DOMAIN inodes \ gone |-> inodes[i]]
             met == [i \in DOMAIN meta \ gone |-> meta[i]]
             up == [at |-> IF gone = {} THEN None ELSE st.old, by |-> -Counted(st)]
  <2>1. st.pc = "rm_delete" /\ Commit(t, left, met, up, Nowhere, Idle)
    BY <1>11 DEF RmDelete
  <2>2. up.by \in Int /\ st.node # RootId
    BY <1>a, <1>i, <2>1 DEF ThreadOK, NodePcs
  <2>3. TreeOK(left, lastInode)
    BY <1>a, <2>2, CascadeTree
  <2>4. Tree(left)
    BY <1>a, <2>2, CascadeOneTree
  <2> HIDE DEF left, met, up, Idle
  <2> QED BY <1>a, <1>f, <1>i, <2>1, <2>2, <2>3, <2>4
<1>12. ASSUME NEW t \in Threads, MvDst(t) PROVE TreeInv'
  <2> DEFINE st == thread[t]
             d == Resolve(st.path)
             p == Resolve(Front(st.path))
             into == [st EXCEPT !.pc = "mv_exists", !.path = <<>>, !.parent = d]
             at == [st EXCEPT !.pc = "mv_exists", !.path = <<>>, !.parent = p, !.name = Last(st.path)]
  <2>1. /\ st.pc = "mv_dst" /\ UNCHANGED inodes
        /\ \/ Become(t, Idle)
           \/ IsDir(d) /\ Become(t, into)
           \/ st.path # <<>> /\ IsDir(p) /\ Become(t, at)
    BY <1>12 DEF MvDst, Reading, tables, Reply
  <2>2. /\ into.pc = "mv_exists" /\ into.node = st.node /\ into.parent = d
        /\ at.pc = "mv_exists" /\ at.node = st.node /\ at.parent = p
    BY <1>a DEF ThreadState
  <2>3. PICK src \in Paths : Leads(inodes, src, st.node) /\ ~IsPrefix(src, st.path)
    BY <1>a, <2>1 DEF Apart
  <2>4. st.path \in Paths /\ None \notin DOMAIN inodes
    BY <1>a DEF ThreadState, TreeOK, None
  <2> HIDE DEF st, d, p, into, at, Idle
  <2>5. ASSUME IsDir(d) PROVE st.node \notin UpFrom(inodes, d)
    <3>1. Leads(inodes, st.path, d)
      BY <1>a, <2>4, <2>5, LeadsIsResolve DEF IsDir, d
    <3> QED BY <1>a, <2>3, <2>4, <3>1, AboveIsPrefix, PrefixIs
  <2>6. ASSUME st.path # <<>>, IsDir(p) PROVE st.node \notin UpFrom(inodes, p)
    <3>1. Front(st.path) \in Paths
      BY <2>4, <2>6, PathFacts
    <3>2. Leads(inodes, Front(st.path), p)
      BY <1>a, <2>4, <2>6, <3>1, LeadsIsResolve DEF IsDir, p
    <3>3. SUFFICES ASSUME st.node \in UpFrom(inodes, p) PROVE IsPrefix(src, st.path)
      BY <2>3
    <3>4. Len(src) <= Len(Front(st.path)) /\ \A m \in 1 .. Len(src) : src[m] = Front(st.path)[m]
      BY <1>a, <2>3, <3>1, <3>2, <3>3, AboveIsPrefix
    <3>5. Len(Front(st.path)) = Len(st.path) - 1 /\ \A m \in 1 .. Len(Front(st.path)) : Front(st.path)[m] = st.path[m]
      BY <2>4, <2>6, FrontFacts
    <3>6. Len(src) \in Nat /\ Len(st.path) \in Nat /\ Len(Front(st.path)) \in Nat
      BY <2>4, <3>1, PathFacts
    <3>7. Len(src) <= Len(st.path) /\ \A m \in 1 .. Len(src) : src[m] = st.path[m]
      BY <3>4, <3>5, <3>6
    <3> QED BY <2>4, <3>7, PrefixIs
  <2>7. CASE Become(t, Idle)
    BY <1>a, <1>e, <2>1, <2>7 DEF st
  <2>8. CASE IsDir(d) /\ Become(t, into)
    <3>1. Into(into, inodes') /\ Apart(into, inodes') /\ Tree(inodes')
      BY <1>a, <2>1, <2>2, <2>5, <2>8 DEF Into, Apart, IsDir
    <3> QED BY <2>2, <2>8, <3>1, TreeStep
  <2>9. CASE st.path # <<>> /\ IsDir(p) /\ Become(t, at)
    <3>1. Into(at, inodes') /\ Apart(at, inodes') /\ Tree(inodes')
      BY <1>a, <2>1, <2>2, <2>6, <2>9 DEF Into, Apart, IsDir
    <3> QED BY <2>2, <2>9, <3>1, TreeStep
  <2> QED BY <2>1, <2>7, <2>8, <2>9
<1>13. ASSUME NEW t \in Threads, MvExists(t) \/ MvRead(t) PROVE TreeInv'
  <2> DEFINE st == thread[t]
             read == [st EXCEPT !.pc = "mv_read"]
             write == [st EXCEPT !.pc = "mv_write", !.old = inodes[st.node].parent, !.size = Weight(st.node)]
  <2>1. /\ st.pc \in MovePcs /\ st.pc \in IntoPcs /\ st.pc # "idle" /\ UNCHANGED inodes
        /\ Become(t, Idle) \/ Become(t, read) \/ Become(t, write)
    BY <1>13 DEF MvExists, MvRead, ReadWeight, Reading, tables, Reply, Goto, MovePcs, IntoPcs
  <2>2. /\ read.pc = "mv_read" /\ read.node = st.node /\ read.parent = st.parent
        /\ write.pc = "mv_write" /\ write.node = st.node /\ write.parent = st.parent
    BY <1>a DEF ThreadState
  <2>3. Into(st, inodes) /\ Apart(st, inodes) /\ Tree(inodes')
    BY <1>a, <2>1
  <2> HIDE DEF st, read, write, Idle
  <2>4. ASSUME NEW new, new.pc \in {"mv_read", "mv_write"}, new.node = st.node, new.parent = st.parent
        PROVE  Into(new, inodes') /\ Apart(new, inodes')
    BY <2>1, <2>3, <2>4 DEF Into, Apart, MovePcs
  <2>5. CASE Become(t, Idle)
    BY <1>a, <1>e, <2>1, <2>5 DEF st
  <2>6. CASE Become(t, read)
    BY <2>2, <2>3, <2>4, <2>6, TreeStep
  <2>7. CASE Become(t, write)
    BY <2>2, <2>3, <2>4, <2>7, TreeStep
  <2> QED BY <2>1, <2>5, <2>6, <2>7
<1>14. ASSUME NEW t \in Threads, MvWrite(t) PROVE TreeInv'
  <2> DEFINE st == thread[t]
             moved == [inodes EXCEPT ![st.node].parent = st.parent, ![st.node].name = st.name]
             from == [at |-> st.old, by |-> -Counted(st)]
             to == [at |-> st.parent, by |-> Counted(st)]
  <2>1. /\ st.pc = "mv_write"
        /\ \/ Become(t, Idle) /\ UNCHANGED inodes
           \/ /\ st.node \in DOMAIN inodes /\ MayPut(st.node, st.parent, st.name)
              /\ Commit(t, moved, meta, from, to, Idle)
    BY <1>14 DEF MvWrite, Reply
  <2>2. /\ from.by \in Int /\ to.by \in Int /\ st.node # RootId /\ st.name \in Segments \cup {RootName}
    BY <1>a, <1>i, <2>1 DEF ThreadOK, NodePcs, ThreadState
  <2>3. st.parent \in DOMAIN inodes /\ inodes[st.parent].dir /\ st.node \notin UpFrom(inodes, st.parent)
    BY <1>a, <2>1 DEF Into, Apart, IntoPcs, MovePcs
  <2>4. CASE Become(t, Idle) /\ UNCHANGED inodes
    <3> HIDE DEF Idle
    <3> QED BY <1>a, <1>e, <2>1, <2>4
  <2>5. CASE /\ st.node \in DOMAIN inodes /\ MayPut(st.node, st.parent, st.name)
             /\ Commit(t, moved, meta, from, to, Idle)
    <3>1. TreeOK(inodes, lastInode) /\ lastInode \in Nat
      BY <1>a
    <3>2. st.node \in DOMAIN inodes /\ MayPut(st.node, st.parent, st.name)
      BY <2>5
    <3> HIDE DEF st
    <3>3. TreeOK(moved, lastInode) /\ DOMAIN moved = DOMAIN inodes
      BY <2>2, <3>1, <3>2, MovedTree
    <3>4. \A i \in DOMAIN inodes : inodes[i] \in Inode
      BY <3>1 DEF TreeOK
    <3>5. \A j \in DOMAIN inodes : moved[j].dir = inodes[j].dir /\ (j # st.node => moved[j] = inodes[j])
      BY <3>2, <3>4 DEF Inode
    <3>6. moved[st.node].parent = st.parent
      BY <3>2, <3>4 DEF Inode
    <3> HIDE DEF moved
    <3>7. Tree(moved)
      BY <1>a, <2>2, <2>3, <3>1, <3>2, <3>3, <3>5, <3>6, MovedOneTree
    <3> HIDE DEF from, to, Idle
    <3> QED BY <1>a, <1>f, <2>1, <2>2, <2>5, <3>3, <3>7 DEF st
  <2> QED BY <2>1, <2>4, <2>5
<1> QED BY <1>1, <1>2, <1>3, <1>4, <1>5, <1>6, <1>7, <1>8, <1>9, <1>10, <1>11, <1>12, <1>13, <1>14
        DEF Next, Step, Serve

LEMMA TreeInit == Init => TreeInv
<1> SUFFICES ASSUME Init PROVE TreeInv
  OBVIOUS
<1>1. DOMAIN inodes = {RootId} /\ inodes[RootId].dir /\ thread = [t \in Threads |-> Idle]
  BY DEF Init, NoInode
<1>2. Idle.pc \in ElsewherePcs
  BY IdleType DEF ElsewherePcs, IntoPcs, Pcs
<1> HIDE DEF Idle
<1>3. Tree(inodes)
  BY <1>1 DEF Tree, Rooted, DirsHold
<1>4. \A t \in Threads : Into(thread[t], inodes) /\ Apart(thread[t], inodes)
  BY <1>1, <1>2, Elsewhere
<1> QED BY <1>1, <1>3, <1>4 DEF TreeInv, Alone

\* With clients that put nothing into a file and no directory into itself the inodes are
\* one tree of directories when requests do not overlap, wherever one is cut short: mv
\* compares names, not inodes, and that is enough.
THEOREM InodesAreOneTree == ASSUME Careful PROVE MCSpec => []OneTree
<1> DEFINE Inv == ~overlap => TypeInv /\ TreeInv
<1>1. MCInit => Inv
  BY TypeInit, TreeInit DEF MCInit
<1>2. Inv /\ [MCNext]_<<vars, overlap>> => Inv'
  <2> SUFFICES ASSUME Inv, [MCNext]_<<vars, overlap>>, ~overlap' PROVE TypeInv' /\ TreeInv'
    OBVIOUS
  <2>1. ~overlap /\ TypeInv /\ TreeInv
    BY DEF MCNext
  <2>2. [Next]_vars /\ (UNCHANGED vars \/ Alone')
    BY <2>1 DEF MCNext
  <2>3. Alone'
    <3>1. UNCHANGED vars => (Alone' <=> Alone)
      BY DEF vars, Alone
    <3> QED BY <2>1, <2>2, <3>1 DEF TreeInv
  <2> QED BY <2>1, <2>2, <2>3, TypeNext, TreeNext
<1>3. Inv => OneTree
  <2> SUFFICES ASSUME TypeInv, TreeInv PROVE TreeRooted /\ ParentsAreDirs
    BY DEF OneTree
  <2>1. TreeOK(inodes, lastInode) /\ Rooted(inodes) /\ DirsHold(inodes)
    BY DEF TypeInv, TablesOK, TreeInv, Tree
  <2>2. TreeRooted
    BY <2>1, RootedIs DEF TreeRooted
  <2>3. ParentsAreDirs
    BY <2>1 DEF DirsHold, ParentsAreDirs, IsDir
  <2> QED BY <2>2, <2>3
<1> QED BY <1>1, <1>2, <1>3, PTL DEF MCSpec

-----------------------------------------------------------------------------
(* Sums of sizes                                                           *)

\* What the sum over S of the sizes in met is computed by: a function on the subsets of S
\* that takes one element at a time.
Total(met, S) == MapThenSumSet(LAMBDA i : met[i].size, S)
One(S) == CHOOSE x \in S : TRUE
Adds(g, met, Q) ==
  g = [S \in Q |-> IF S = {} THEN 0 ELSE met[One(S)].size + g[S \ {One(S)}]]

LEMMA TotalIs ==
  ASSUME NEW met, NEW S
  PROVE  Total(met, S) = (CHOOSE g : Adds(g, met, SUBSET S))[S]
BY DEF Total, Adds, One, MapThenSumSet, MapThenFoldSet

\* A family of subsets of a finite set that is not empty has a least one.
LEMMA LeastSet ==
  ASSUME NEW U, IsFiniteSet(U), NEW B \in SUBSET SUBSET U, B # {}
  PROVE  \E T \in B : \A R \in B : R \subseteq T => R = T
<1>1. B \subseteq FiniteSubsetsOf(U)
  BY FS_Subset DEF FiniteSubsetsOf
<1>2. PICK T \in B : \A R \in B : <<R, T>> \notin StrictSubsetOrdering(U)
  BY <1>1, WFMin, FS_StrictSubsetOrderingWellFounded
<1>3. ASSUME NEW R \in B, R \subseteq T, R # T PROVE FALSE
  BY <1>2, <1>3 DEF StrictSubsetOrdering
<1> QED BY <1>3

\* The function exists: it is made for larger and larger subsets.
LEMMA AddsExist ==
  ASSUME NEW met, NEW U, IsFiniteSet(U)
  PROVE  \E g : Adds(g, met, SUBSET U)
<1> DEFINE Q(n) == {S \in SUBSET U : Cardinality(S) <= n}
           Bad == {n \in Nat : ~ \E g : Adds(g, met, Q(n))}
<1>1. \A S \in SUBSET U : /\ IsFiniteSet(S) /\ Cardinality(S) \in Nat /\ Cardinality(S) <= Cardinality(U)
                          /\ (Cardinality(S) = 0 <=> S = {})
                          /\ S # {} => One(S) \in S /\ S \ {One(S)} \in SUBSET U
                                       /\ Cardinality(S \ {One(S)}) = Cardinality(S) - 1
  <2> SUFFICES ASSUME NEW S \in SUBSET U
               PROVE  /\ IsFiniteSet(S) /\ Cardinality(S) \in Nat /\ Cardinality(S) <= Cardinality(U)
                      /\ (Cardinality(S) = 0 <=> S = {})
                      /\ S # {} => One(S) \in S /\ S \ {One(S)} \in SUBSET U
                                   /\ Cardinality(S \ {One(S)}) = Cardinality(S) - 1
    OBVIOUS
  <2>1. IsFiniteSet(S) /\ Cardinality(S) \in Nat /\ Cardinality(S) <= Cardinality(U)
    BY FS_Subset, FS_CardinalityType
  <2>2. Cardinality(S) = 0 <=> S = {}
    BY <2>1, FS_EmptySet
  <2>3. S # {} => One(S) \in S
    BY DEF One
  <2>4. S # {} => Cardinality(S \ {One(S)}) = Cardinality(S) - 1
    BY <2>1, <2>3, FS_RemoveElement
  <2> QED BY <2>1, <2>2, <2>3, <2>4
<1>2. ASSUME NEW n \in Nat, \A m \in Nat : m < n => m \notin Bad PROVE n \notin Bad
  <2>1. CASE n = 0
    <3> DEFINE g == [S \in Q(0) |-> 0]
    <3>1. ASSUME NEW S \in SUBSET U, Cardinality(S) <= 0 PROVE S = {}
      <4>1. Cardinality(S) \in Nat /\ (Cardinality(S) = 0 <=> S = {})
        BY <1>1
      <4> QED BY <3>1, <4>1
    <3>2. Adds(g, met, Q(0))
      BY <3>1 DEF Adds
    <3> QED BY <2>1, <3>2
  <2>2. CASE n # 0
    <3>1. n - 1 \in Nat /\ n - 1 < n
      BY <2>2
    <3>2. PICK g : Adds(g, met, Q(n - 1))
      BY <1>2, <3>1
    <3> DEFINE h == [S \in Q(n) |-> IF S = {} THEN 0 ELSE met[One(S)].size + g[S \ {One(S)}]]
    <3>a. ASSUME NEW S \in SUBSET U, Cardinality(S) <= n - 1 PROVE Cardinality(S) <= n
      <4>1. Cardinality(S) \in Nat
        BY <1>1
      <4> QED BY <3>1, <3>a, <4>1
    <3>b. \A S \in Q(n - 1) : g[S] = IF S = {} THEN 0 ELSE met[One(S)].size + g[S \ {One(S)}]
      <4> DEFINE q == Q(n - 1)
      <4>1. Adds(g, met, q)
        BY <3>2
      <4> HIDE DEF q
      <4> QED BY <4>1 DEF Adds, q
    <3>3. \A S \in Q(n - 1) : S \in Q(n) /\ g[S] = IF S = {} THEN 0 ELSE met[One(S)].size + g[S \ {One(S)}]
      BY <3>a, <3>b
    <3>4. \A S \in Q(n - 1) : h[S] = g[S]
      BY <3>3
    <3>5. \A S \in Q(n) : S # {} => S \ {One(S)} \in Q(n - 1)
      BY <1>1, <3>1
    <3>6. h = [S \in Q(n) |-> IF S = {} THEN 0 ELSE met[One(S)].size + h[S \ {One(S)}]]
      BY <3>4, <3>5
    <3> QED BY <3>6 DEF Adds
  <2> QED BY <2>1, <2>2
<1>3. Bad = {}
  <2> SUFFICES ASSUME Bad # {} PROVE FALSE
    OBVIOUS
  <2>1. Bad \in SUBSET Nat
    OBVIOUS
  <2> HIDE DEF Bad
  <2>2. PICK n \in Bad : \A m \in Bad : n <= m
    BY <2>1, LeastNumber
  <2> QED BY <1>2, <2>1, <2>2
<1>4. PICK g : Adds(g, met, Q(Cardinality(U)))
  BY <1>1, <1>3
<1>5. Q(Cardinality(U)) = SUBSET U
  BY <1>1
<1> QED BY <1>4, <1>5

LEMMA AddsIs ==
  ASSUME NEW met, NEW Q, NEW g, Adds(g, met, Q), NEW S \in Q
  PROVE  g[S] = IF S = {} THEN 0 ELSE met[One(S)].size + g[S \ {One(S)}]
<1>1. g = [R \in Q |-> IF R = {} THEN 0 ELSE met[One(R)].size + g[R \ {One(R)}]]
  BY DEF Adds
<1> QED BY <1>1

Solves(g, met, U) ==
  \A S \in SUBSET U : g[S] = IF S = {} THEN 0 ELSE met[One(S)].size + g[S \ {One(S)}]

LEMMA AddsSolves ==
  ASSUME NEW met, NEW U, NEW g, Adds(g, met, SUBSET U) PROVE Solves(g, met, U)
<1> DEFINE Q == SUBSET U
<1>1. Adds(g, met, Q)
  OBVIOUS
<1>2. ASSUME NEW S \in SUBSET U
      PROVE  g[S] = IF S = {} THEN 0 ELSE met[One(S)].size + g[S \ {One(S)}]
  <2>1. S \in Q
    OBVIOUS
  <2> HIDE DEF Q
  <2> QED BY <1>1, <2>1, AddsIs
<1> QED BY <1>2 DEF Solves

\* There is one.
LEMMA AddsAgree ==
  ASSUME NEW met, NEW V, IsFiniteSet(V), NEW U \in SUBSET V, NEW g, Solves(g, met, U),
         NEW h, Solves(h, met, V)
  PROVE  \A S \in SUBSET U : g[S] = h[S]
<1> DEFINE B == {T \in SUBSET U : g[T] # h[T]}
<1> SUFFICES ASSUME B # {} PROVE FALSE
  OBVIOUS
<1>1. IsFiniteSet(U) /\ B \in SUBSET SUBSET U
  BY FS_Subset
<1> HIDE DEF B
<1>2. PICK T \in B : \A R \in B : R \subseteq T => R = T
  BY <1>1, LeastSet
<1>3. T \in SUBSET U /\ T \in SUBSET V /\ g[T] # h[T]
  BY <1>2 DEF B
<1>4. /\ g[T] = IF T = {} THEN 0 ELSE met[One(T)].size + g[T \ {One(T)}]
      /\ h[T] = IF T = {} THEN 0 ELSE met[One(T)].size + h[T \ {One(T)}]
  BY <1>3 DEF Solves
<1>5. T # {} /\ One(T) \in T
  BY <1>3, <1>4 DEF One
<1>6. T \ {One(T)} \notin B
  BY <1>2, <1>5
<1>7. g[T \ {One(T)}] = h[T \ {One(T)}]
  BY <1>3, <1>6 DEF B
<1> QED BY <1>3, <1>4, <1>5, <1>7

\* The sum of the sizes of a set takes one of its elements and the sum of the others.
LEMMA TotalTakes ==
  ASSUME NEW met, NEW S, IsFiniteSet(S)
  PROVE  /\ S = {} => Total(met, S) = 0
         /\ S # {} => One(S) \in S /\ Total(met, S) = met[One(S)].size + Total(met, S \ {One(S)})
<1> DEFINE T == S \ {One(S)}
           f == CHOOSE g : Adds(g, met, SUBSET S)
           h == CHOOSE g : Adds(g, met, SUBSET T)
<1>1. IsFiniteSet(T) /\ T \in SUBSET S /\ T \in SUBSET T /\ S \in SUBSET S
  BY FS_Subset
<1> HIDE DEF T
<1>2. Adds(f, met, SUBSET S) /\ Adds(h, met, SUBSET T)
  BY <1>1, AddsExist
<1>3. Total(met, S) = f[S] /\ Total(met, T) = h[T]
  BY TotalIs
<1>4. Solves(f, met, S) /\ Solves(h, met, T)
  BY <1>2, AddsSolves
<1> HIDE DEF f, h
<1>5. h[T] = f[T]
  BY <1>1, <1>4, AddsAgree
<1>6. f[S] = IF S = {} THEN 0 ELSE met[One(S)].size + f[T]
  BY <1>1, <1>4 DEF Solves, T
<1>7. S # {} => One(S) \in S
  BY DEF One
<1> QED BY <1>3, <1>5, <1>6, <1>7 DEF T

\* Metadata with sizes for a finite set of inodes.
Sizes(met, S) == IsFiniteSet(S) /\ \A i \in S : met[i].size \in Nat

LEMMA TotalNat ==
  ASSUME NEW met, NEW S, Sizes(met, S)
  PROVE  Total(met, S) \in Nat
<1> DEFINE B == {T \in SUBSET S : Total(met, T) \notin Nat}
<1>a. IsFiniteSet(S) /\ \A i \in S : met[i].size \in Nat
  BY DEF Sizes
<1> SUFFICES ASSUME B # {} PROVE FALSE
  OBVIOUS
<1>1. B \in SUBSET SUBSET S
  OBVIOUS
<1> HIDE DEF B
<1>2. PICK T \in B : \A R \in B : R \subseteq T => R = T
  BY <1>a, <1>1, LeastSet
<1>3. T \in SUBSET S /\ Total(met, T) \notin Nat /\ IsFiniteSet(T)
  BY <1>a, <1>2, FS_Subset DEF B
<1>4. T # {} /\ One(T) \in T /\ Total(met, T) = met[One(T)].size + Total(met, T \ {One(T)})
  BY <1>3, TotalTakes
<1>5. Total(met, T \ {One(T)}) \in Nat
  BY <1>2, <1>3, <1>4 DEF B
<1> QED BY <1>a, <1>3, <1>4, <1>5

\* Sums are of the same sizes.
LEMMA TotalSame ==
  ASSUME NEW met, NEW other, NEW S, IsFiniteSet(S), \A i \in S : other[i].size = met[i].size
  PROVE  Total(other, S) = Total(met, S)
<1> DEFINE B == {T \in SUBSET S : Total(other, T) # Total(met, T)}
<1> SUFFICES ASSUME B # {} PROVE FALSE
  OBVIOUS
<1>1. B \in SUBSET SUBSET S
  OBVIOUS
<1> HIDE DEF B
<1>2. PICK T \in B : \A R \in B : R \subseteq T => R = T
  BY <1>1, LeastSet
<1>3. T \in SUBSET S /\ Total(other, T) # Total(met, T) /\ IsFiniteSet(T)
  BY <1>2, FS_Subset DEF B
<1>4. /\ T # {} /\ One(T) \in T /\ Total(met, T) = met[One(T)].size + Total(met, T \ {One(T)})
      /\ Total(other, T) = other[One(T)].size + Total(other, T \ {One(T)})
  BY <1>3, TotalTakes
<1>5. Total(other, T \ {One(T)}) = Total(met, T \ {One(T)})
  BY <1>2, <1>3, <1>4 DEF B
<1> QED BY <1>3, <1>4, <1>5

\* The order does not matter: any element may be taken.
LEMMA TotalWithout ==
  ASSUME NEW met, NEW S, Sizes(met, S), NEW x \in S
  PROVE  Total(met, S) = met[x].size + Total(met, S \ {x})
<1> DEFINE Splits(T) == \A y \in T : Total(met, T) = met[y].size + Total(met, T \ {y})
           B == {T \in SUBSET S : ~Splits(T)}
<1>a. IsFiniteSet(S) /\ (\A i \in S : met[i].size \in Nat)
      /\ \A T \in SUBSET S : IsFiniteSet(T) /\ Total(met, T) \in Nat
  BY FS_Subset, TotalNat DEF Sizes
<1> SUFFICES ASSUME B # {} PROVE FALSE
  OBVIOUS
<1>1. B \in SUBSET SUBSET S
  OBVIOUS
<1> HIDE DEF B
<1>2. PICK T \in B : \A R \in B : R \subseteq T => R = T
  BY <1>a, <1>1, LeastSet
<1>3. T \in SUBSET S /\ ~Splits(T) /\ IsFiniteSet(T)
  BY <1>a, <1>2 DEF B
<1>4. PICK y \in T : Total(met, T) # met[y].size + Total(met, T \ {y})
  BY <1>3
<1> DEFINE z == One(T)
           W == T \ {y, z}
<1>5. z \in T /\ Total(met, T) = met[z].size + Total(met, T \ {z})
  BY <1>3, <1>4, TotalTakes
<1> HIDE DEF z
<1>6. z # y
  BY <1>4, <1>5
<1>7. Splits(T \ {z}) /\ Splits(T \ {y})
  BY <1>2, <1>3, <1>5 DEF B
<1>8. (T \ {z}) \ {y} = W /\ (T \ {y}) \ {z} = W
  OBVIOUS
<1>9. Total(met, T \ {z}) = met[y].size + Total(met, W) /\ Total(met, T \ {y}) = met[z].size + Total(met, W)
  BY <1>5, <1>6, <1>7, <1>8
<1>10. /\ met[y].size \in Nat /\ met[z].size \in Nat /\ Total(met, W) \in Nat
       /\ Total(met, T) \in Nat
  BY <1>a, <1>3, <1>5
<1> HIDE DEF W
<1> QED BY <1>4, <1>5, <1>9, <1>10

\* Sums over sets that are apart add up.
LEMMA TotalUnion ==
  ASSUME NEW met, NEW S, NEW R, Sizes(met, S \cup R), S \cap R = {}
  PROVE  Total(met, S \cup R) = Total(met, S) + Total(met, R)
<1> DEFINE B == {T \in SUBSET R : Total(met, S \cup T) # Total(met, S) + Total(met, T)}
<1>a. /\ IsFiniteSet(R) /\ (\A i \in S \cup R : met[i].size \in Nat)
      /\ \A T \in SUBSET (S \cup R) : Sizes(met, T) /\ Total(met, T) \in Nat
  BY FS_Subset, TotalNat DEF Sizes
<1> SUFFICES ASSUME B # {} PROVE FALSE
  OBVIOUS
<1>1. B \in SUBSET SUBSET R
  OBVIOUS
<1> HIDE DEF B
<1>2. PICK T \in B : \A Q \in B : Q \subseteq T => Q = T
  BY <1>a, <1>1, LeastSet
<1>3. /\ T \in SUBSET R /\ Total(met, S \cup T) # Total(met, S) + Total(met, T)
      /\ Sizes(met, T) /\ Sizes(met, S \cup T) /\ Total(met, S) \in Nat /\ Total(met, T) \in Nat
  BY <1>a, <1>2 DEF B
<1>4. T # {}
  <2> SUFFICES ASSUME T = {} PROVE FALSE
    OBVIOUS
  <2>1. S \cup T = S
    OBVIOUS
  <2>2. Total(met, T) = 0
    BY FS_EmptySet, TotalTakes
  <2> QED BY <1>3, <2>1, <2>2
<1>5. PICK x \in T : TRUE
  BY <1>4
<1> DEFINE Q == T \ {x}
<1>6. Total(met, S \cup Q) = Total(met, S) + Total(met, Q)
  BY <1>2, <1>3 DEF B
<1>7. (S \cup T) \ {x} = S \cup Q /\ x \in S \cup T
  BY <1>3
<1> HIDE DEF Q
<1>8. Total(met, S \cup T) = met[x].size + Total(met, S \cup Q)
  BY <1>3, <1>7, TotalWithout
<1>9. Total(met, T) = met[x].size + Total(met, Q)
  BY <1>3, TotalWithout DEF Q
<1>10. met[x].size \in Nat /\ Total(met, Q) \in Nat
  BY <1>a, <1>3 DEF Q
<1> QED BY <1>3, <1>6, <1>8, <1>9, <1>10

-----------------------------------------------------------------------------
(* What is above and below an inode                                        *)

\* What is above depends only on the rows on the way up.
LEMMA UpStays ==
  ASSUME NEW ino, NEW new, NEW j \in DOMAIN ino,
         \A k \in UpFrom(ino, j) : /\ k \in DOMAIN new /\ new[k].parent = ino[k].parent
                                   /\ ino[k].parent \in DOMAIN new <=> ino[k].parent \in DOMAIN ino
  PROVE  UpFrom(new, j) = UpFrom(ino, j)
<1> DEFINE up == UpFrom(ino, j)
           way == UpFrom(new, j)
<1>1. j \in up /\ up \subseteq DOMAIN ino /\ Closed(ino, up)
  BY UpIsClosed
<1>2. j \in DOMAIN new /\ up \subseteq DOMAIN new
  BY <1>1
<1>3. j \in way /\ way \subseteq DOMAIN new /\ Closed(new, way)
  BY <1>2, UpIsClosed
<1>4. Closed(new, up)
  BY <1>1 DEF Closed
<1>5. way \subseteq up
  <2>1. ASSUME NEW d \in way PROVE d \in up
    <3>1. d \in UpFrom(new, j) /\ up \in SUBSET DOMAIN new /\ j \in up
      BY <1>1, <1>2, <2>1
    <3> HIDE DEF up, way
    <3> QED BY <1>4, <3>1, UpIsLeast
  <2> QED BY <2>1
<1>6. Closed(ino, way)
  BY <1>3, <1>5 DEF Closed
<1>7. up \subseteq way
  <2>1. ASSUME NEW d \in up PROVE d \in way
    <3>1. d \in UpFrom(ino, j) /\ way \in SUBSET DOMAIN ino /\ j \in way
      BY <1>1, <1>3, <1>5, <2>1
    <3> HIDE DEF up, way
    <3> QED BY <1>6, <3>1, UpIsLeast
  <2> QED BY <2>1
<1> QED BY <1>5, <1>7

LEMMA UpNowhere == ASSUME NEW ino, NEW i, i \notin DOMAIN ino PROVE UpFrom(ino, i) = {}
BY DEF UpFrom

LEMMA UpTransitive ==
  ASSUME NEW ino, NEW j \in DOMAIN ino, NEW k \in UpFrom(ino, j), NEW d \in UpFrom(ino, k)
  PROVE  d \in UpFrom(ino, j)
<1>1. UpFrom(ino, j) \in SUBSET DOMAIN ino /\ Closed(ino, UpFrom(ino, j))
  BY UpIsClosed
<1> QED BY <1>1, UpIsLeast

\* What is above an inode, but for the inode, is above its parent.
LEMMA UpOfParent ==
  ASSUME NEW ino, NEW j \in DOMAIN ino, NEW d, d # j
  PROVE  d \in UpFrom(ino, j) <=> d \in UpFrom(ino, ino[j].parent)
<1> DEFINE p == ino[j].parent
           S == UpFrom(ino, p) \cup {j}
<1>1. j \in UpFrom(ino, j) /\ Closed(ino, UpFrom(ino, j))
  BY UpIsClosed
<1>2. CASE p \notin DOMAIN ino
  <2>1. UpFrom(ino, p) = {}
    BY <1>2, UpNowhere
  <2>2. {j} \in SUBSET DOMAIN ino /\ Closed(ino, {j})
    BY <1>2 DEF Closed
  <2>3. d \in UpFrom(ino, j) => d \in {j}
    BY <2>2, UpIsLeast
  <2> QED BY <2>1, <2>3
<1>3. CASE p \in DOMAIN ino
  <2>1. p \in UpFrom(ino, p) /\ UpFrom(ino, p) \subseteq DOMAIN ino /\ Closed(ino, UpFrom(ino, p))
    BY <1>3, UpIsClosed
  <2>2. S \in SUBSET DOMAIN ino /\ j \in S /\ Closed(ino, S)
    BY <2>1 DEF Closed
  <2>3. ASSUME d \in UpFrom(ino, j) PROVE d \in UpFrom(ino, p)
    <3>1. d \in S
      <4> HIDE DEF S
      <4> QED BY <2>2, <2>3, UpIsLeast
    <3> QED BY <3>1
  <2>4. p \in UpFrom(ino, j)
    BY <1>1, <1>3 DEF Closed
  <2>5. d \in UpFrom(ino, p) => d \in UpFrom(ino, j)
    BY <2>4, UpTransitive
  <2> QED BY <2>3, <2>5
<1> QED BY <1>2, <1>3

\* Of two inodes on one way up one is above the other.
LEMMA UpIsLine ==
  ASSUME NEW ino, NEW j \in DOMAIN ino, NEW a \in UpFrom(ino, j), NEW b \in UpFrom(ino, j)
  PROVE  a \in UpFrom(ino, b) \/ b \in UpFrom(ino, a)
<1> DEFINE S == {k \in UpFrom(ino, j) : a \in UpFrom(ino, k) \/ k \in UpFrom(ino, a)}
<1>1. j \in UpFrom(ino, j) /\ UpFrom(ino, j) \subseteq DOMAIN ino /\ Closed(ino, UpFrom(ino, j))
  BY UpIsClosed
<1>2. a \in DOMAIN ino
  BY <1>1
<1>3. a \in UpFrom(ino, a) /\ Closed(ino, UpFrom(ino, a))
  BY <1>2, UpIsClosed
<1>4. ASSUME NEW k \in S, ino[k].parent \in DOMAIN ino PROVE ino[k].parent \in S
  <2>1. k \in DOMAIN ino /\ ino[k].parent \in UpFrom(ino, j)
    BY <1>1, <1>4 DEF Closed
  <2>2. k \in UpFrom(ino, a) => ino[k].parent \in UpFrom(ino, a)
    BY <1>3, <1>4 DEF Closed
  <2>3. a \in UpFrom(ino, k) /\ k # a => a \in UpFrom(ino, ino[k].parent)
    BY <2>1, UpOfParent
  <2> QED BY <1>3, <2>1, <2>2, <2>3
<1>5. S \in SUBSET DOMAIN ino /\ j \in S
  BY <1>1
<1>6. Closed(ino, S)
  BY <1>4 DEF Closed
<1> HIDE DEF S
<1>7. b \in S
  BY <1>5, <1>6, UpIsLeast
<1> QED BY <1>7 DEF S

\* In a tree nothing is below itself.
LEMMA NotBelowItself ==
  ASSUME NEW ino, NEW last, TreeOK(ino, last), Tree(ino), NEW n \in DOMAIN ino, n # RootId
  PROVE  n \notin UpFrom(ino, ino[n].parent)
<1> SUFFICES ASSUME n \in UpFrom(ino, ino[n].parent) PROVE FALSE
  OBVIOUS
<1> DEFINE S == {k \in DOMAIN ino : n \in UpFrom(ino, k)}
<1>1. n \in UpFrom(ino, n)
  BY UpIsClosed
<1>2. ASSUME NEW k \in S, ino[k].parent \in DOMAIN ino PROVE ino[k].parent \in S
  <2>1. k \in DOMAIN ino /\ n \in UpFrom(ino, k)
    BY <1>2
  <2>2. k # n => n \in UpFrom(ino, ino[k].parent)
    BY <2>1, UpOfParent
  <2> QED BY <1>2, <2>2
<1>3. S \in SUBSET DOMAIN ino /\ n \in S
  BY <1>1
<1>4. Closed(ino, S)
  BY <1>2 DEF Closed
<1> HIDE DEF S
<1>5. RootId \in S
  BY <1>3, <1>4 DEF Tree, Rooted
<1>6. n \in UpFrom(ino, RootId) /\ RootId \in DOMAIN ino
  BY <1>5 DEF S
<1>7. ino[RootId].parent \notin DOMAIN ino
  BY DEF TreeOK, None
<1>8. n \in UpFrom(ino, ino[RootId].parent)
  BY <1>6, UpOfParent
<1> QED BY <1>7, <1>8, UpNowhere

\* Nothing is below a file.
LEMMA BelowFile ==
  ASSUME NEW ino, NEW last, TreeOK(ino, last), Tree(ino), NEW n \in DOMAIN ino, ~ino[n].dir
  PROVE  Below(ino, n) = {n}
<1>1. n \in Below(ino, n)
  BY UpIsClosed DEF Below
<1>2. ASSUME NEW j \in Below(ino, n), j # n PROVE FALSE
  <2> DEFINE S == UpFrom(ino, j) \ {n}
  <2>1. j \in DOMAIN ino /\ n \in UpFrom(ino, j)
    BY <1>2 DEF Below
  <2>2. j \in UpFrom(ino, j) /\ UpFrom(ino, j) \subseteq DOMAIN ino /\ Closed(ino, UpFrom(ino, j))
    BY <2>1, UpIsClosed
  <2>3. \A k \in DOMAIN ino : ino[k].parent # n
    <3>1. ino[RootId].parent \notin DOMAIN ino
      BY DEF TreeOK, None
    <3> QED BY <3>1 DEF Tree, DirsHold
  <2>4. S \in SUBSET DOMAIN ino /\ j \in S /\ Closed(ino, S)
    BY <1>2, <2>2, <2>3 DEF Closed
  <2>5. n \in S
    <3> HIDE DEF S
    <3> QED BY <2>1, <2>4, UpIsLeast
  <2> QED BY <2>5
<1> QED BY <1>1, <1>2

\* A walk up in a tree ends.
LEMMA WalksEnd ==
  ASSUME NEW ino, NEW last, TreeOK(ino, last), Tree(ino), NEW i PROVE ~Endless(ino, i)
<1>1. ino[RootId].parent \notin DOMAIN ino /\ RootId \in DOMAIN ino
  BY DEF TreeOK, None
<1>2. CASE i \notin DOMAIN ino
  BY <1>2, UpNowhere DEF Endless
<1>3. CASE i \in DOMAIN ino
  <2>1. RootId \in UpFrom(ino, i) /\ UpFrom(ino, i) \subseteq DOMAIN ino
    BY <1>3, RootedIs, UpIsClosed DEF Tree
  <2> QED BY <1>1, <2>1 DEF Endless
<1> QED BY <1>2, <1>3

\* Of what is below a row that moves, the rows above are those on the way to it and those
\* above its new place; for others they are the same.
LEMMA MovedUp ==
  ASSUME NEW ino, NEW last, TreeOK(ino, last), Tree(ino), NEW n \in DOMAIN ino, n # RootId,
         NEW p \in DOMAIN ino, n \notin UpFrom(ino, p),
         NEW moved, DOMAIN moved = DOMAIN ino, moved[n].parent = p,
         \A j \in DOMAIN ino : j # n => moved[j].parent = ino[j].parent,
         NEW j \in DOMAIN ino
  PROVE  UpFrom(moved, j) = IF n \in UpFrom(ino, j) THEN (UpFrom(ino, j) \cap Below(ino, n)) \cup UpFrom(ino, p)
                            ELSE UpFrom(ino, j)
<1>1. CASE n \notin UpFrom(ino, j)
  <2>1. UpFrom(ino, j) \subseteq DOMAIN ino
    BY UpIsClosed
  <2>2. \A k \in UpFrom(ino, j) : /\ k \in DOMAIN moved /\ moved[k].parent = ino[k].parent
                                  /\ ino[k].parent \in DOMAIN moved <=> ino[k].parent \in DOMAIN ino
    BY <1>1, <2>1
  <2> QED BY <1>1, <2>2, UpStays
<1>2. CASE n \in UpFrom(ino, j)
  <2> DEFINE up == UpFrom(ino, j)
             way == up \cap Below(ino, n)
             there == UpFrom(ino, p)
             new == UpFrom(moved, j)
  <2>1. j \in up /\ up \subseteq DOMAIN ino /\ Closed(ino, up)
    BY UpIsClosed
  <2>2. p \in there /\ there \subseteq DOMAIN ino /\ Closed(ino, there)
    BY UpIsClosed
  <2>3. \A k \in DOMAIN ino : k \in Below(ino, n) <=> n \in UpFrom(ino, k)
    BY DEF Below
  <2>4. \A k \in DOMAIN ino \ {n} : k \in Below(ino, n) <=> n \in UpFrom(ino, ino[k].parent)
    BY <2>3, UpOfParent
  <2>5. j \in new /\ new \subseteq DOMAIN ino /\ Closed(moved, new)
    BY UpIsClosed
  <2>6. UpFrom(moved, p) = there
    <3>1. \A k \in there : /\ k \in DOMAIN moved /\ moved[k].parent = ino[k].parent
                           /\ ino[k].parent \in DOMAIN moved <=> ino[k].parent \in DOMAIN ino
      BY <2>2
    <3> QED BY <3>1, UpStays
  <2>7. n \notin UpFrom(ino, ino[n].parent)
    BY NotBelowItself
  <2>8. n \notin there
    OBVIOUS
  <2>9. n \in way /\ j \in way
    BY <1>2, <2>1, <2>3, UpIsClosed
  <2>10. new \subseteq way \cup there
    <3> DEFINE S == way \cup there
    <3>1. ASSUME NEW k \in S, moved[k].parent \in DOMAIN ino PROVE moved[k].parent \in S
      <4>1. CASE k = n
        BY <2>2, <4>1
      <4>2. CASE k # n /\ k \in way
        <5>1. moved[k].parent = ino[k].parent /\ k \in DOMAIN ino
          BY <2>1, <4>2
        <5>2. ino[k].parent \in up
          BY <2>1, <3>1, <4>2, <5>1 DEF Closed
        <5>3. n \in UpFrom(ino, ino[k].parent)
          BY <2>4, <4>2, <5>1
        <5> QED BY <2>1, <2>3, <5>1, <5>2, <5>3
      <4>3. CASE k # n /\ k \in there
        BY <2>2, <3>1, <4>3 DEF Closed
      <4> QED BY <3>1, <4>1, <4>2, <4>3
    <3>2. S \in SUBSET DOMAIN moved /\ j \in S
      BY <2>1, <2>2, <2>9
    <3>3. Closed(moved, S)
      BY <3>1 DEF Closed
    <3> HIDE DEF S
    <3>4. \A d \in new : d \in S
      BY <3>2, <3>3, UpIsLeast
    <3> QED BY <3>4 DEF S
  <2>11. way \subseteq new
    <3> DEFINE S == (new \cap way) \cup (up \ way)
    <3>1. ASSUME NEW k \in S, ino[k].parent \in DOMAIN ino PROVE ino[k].parent \in S
      <4>1. k \in up /\ ino[k].parent \in up /\ k \in DOMAIN ino
        BY <2>1, <3>1 DEF Closed
      <4>2. CASE k = n
        <5>1. ino[k].parent \notin way
          BY <2>3, <2>7, <3>1, <4>2
        <5> QED BY <4>1, <5>1
      <4>3. CASE k # n /\ k \in way
        <5>1. k \in new /\ moved[k].parent = ino[k].parent
          BY <3>1, <4>1, <4>3
        <5>2. ino[k].parent \in new
          BY <2>5, <3>1, <5>1 DEF Closed
        <5>3. ino[k].parent \in way
          BY <2>3, <2>4, <3>1, <4>1, <4>3
        <5> QED BY <5>2, <5>3
      <4>4. CASE k # n /\ k \notin way
        <5>1. ino[k].parent \notin way
          BY <2>3, <2>4, <3>1, <4>1, <4>4
        <5> QED BY <4>1, <5>1
      <4> QED BY <4>2, <4>3, <4>4
    <3>2. S \in SUBSET DOMAIN ino /\ j \in S
      BY <2>1, <2>5, <2>9
    <3>3. Closed(ino, S)
      BY <3>1 DEF Closed
    <3> HIDE DEF S
    <3>4. \A d \in up : d \in S
      BY <3>2, <3>3, UpIsLeast
    <3> QED BY <3>4 DEF S
  <2>12. there \subseteq new
    <3>1. n \in new
      BY <2>9, <2>11
    <3>2. p \in new
      BY <2>5, <3>1 DEF Closed
    <3>3. \A d \in UpFrom(moved, p) : d \in new
      BY <3>2, UpTransitive
    <3> QED BY <2>6, <3>3
  <2> QED BY <1>2, <2>10, <2>11, <2>12
<1> QED BY <1>1, <1>2

-----------------------------------------------------------------------------
(* One request at a time: sizes                                            *)

Sized(ino, met) ==
  \A d \in DOMAIN ino : ino[d].dir => ino[d].dsize = Total(met, Below(ino, d) \cap DOMAIN met)

\* Metadata of the files of a tree.
Files(ino, met, last) ==
  /\ TreeOK(ino, last) /\ last \in Nat /\ Tree(ino)
  /\ DOMAIN met \subseteq DOMAIN ino
  /\ \A i \in DOMAIN met : met[i].size \in Nat /\ ~ino[i].dir

LEMMA FilesHaveSizes ==
  ASSUME NEW ino, NEW met, NEW last, Files(ino, met, last), NEW S \in SUBSET DOMAIN met
  PROVE  Sizes(met, S) /\ Total(met, S) \in Nat
<1>1. IsFiniteSet(1 .. last) /\ S \subseteq 1 .. last
  BY FS_Interval DEF Files, TreeOK
<1>2. IsFiniteSet(S)
  BY <1>1, FS_Subset
<1>3. Sizes(met, S)
  BY <1>2 DEF Files, Sizes
<1> QED BY <1>3, TotalNat

\* What a transaction adds to the directories above a place.
Added(ino, walk, d) == IF d \in UpFrom(ino, walk.at) THEN walk.by ELSE 0

LEMMA AdjustedSizes ==
  ASSUME NEW ino, \A i \in DOMAIN ino : ino[i] \in Inode, NEW start, NEW delta \in Int, NEW d \in DOMAIN ino
  PROVE  Adjusted(ino, start, delta)[d].dsize = ino[d].dsize + (IF d \in UpFrom(ino, start) THEN delta ELSE 0)
<1> DEFINE up == IF delta = 0 THEN {} ELSE UpFrom(ino, start)
<1>1. Adjusted(ino, start, delta) =
        [j \in DOMAIN ino |-> [ino[j] EXCEPT !.dsize = IF j \in up THEN @ + delta ELSE @]]
  BY DEF Adjusted, up
<1>2. d \in up <=> delta # 0 /\ d \in UpFrom(ino, start)
  OBVIOUS
<1> HIDE DEF up
<1>3. ino[d] \in Inode /\ ino[d].dsize \in Int
  BY DEF Inode
<1>4. Adjusted(ino, start, delta)[d].dsize = IF d \in up THEN ino[d].dsize + delta ELSE ino[d].dsize
  BY <1>1, <1>3 DEF Inode
<1> QED BY <1>2, <1>3, <1>4

LEMMA SameRowsUp ==
  ASSUME NEW new, NEW old, SameRows(new, old), NEW i PROVE UpFrom(new, i) = UpFrom(old, i)
<1>1. CASE i \in DOMAIN old
  <2>1. UpFrom(old, i) \subseteq DOMAIN old
    BY <1>1, UpIsClosed
  <2>2. \A k \in UpFrom(old, i) : /\ k \in DOMAIN new /\ new[k].parent = old[k].parent
                                  /\ old[k].parent \in DOMAIN new <=> old[k].parent \in DOMAIN old
    BY <2>1 DEF SameRows
  <2> QED BY <1>1, <2>2, UpStays
<1>2. CASE i \notin DOMAIN old
  BY <1>2, UpNowhere DEF SameRows
<1> QED BY <1>1, <1>2

\* In a tree a transaction is committed, and what it leaves is what it is to leave.
LEMMA TreeCommits ==
  ASSUME NEW t, NEW ino, NEW last, TreeOK(ino, last), Tree(ino), NEW met, NEW first, NEW second, NEW st,
         first.by \in Int, second.by \in Int, Commit(t, ino, met, first, second, st)
  PROVE  /\ SameRows(inodes', ino) /\ meta' = met /\ Become(t, st)
         /\ \A d \in DOMAIN ino : inodes'[d].dsize = ino[d].dsize + Added(ino, first, d) + Added(ino, second, d)
<1>a. \A i \in DOMAIN ino : ino[i] \in Inode
  BY DEF TreeOK
<1> DEFINE once == Adjusted(ino, first.at, first.by)
           twice == Adjusted(once, second.at, second.by)
<1>1. inodes' = twice /\ meta' = met /\ Become(t, st)
  BY WalksEnd DEF Commit
<1>2. SameRows(once, ino) /\ \A d \in DOMAIN ino : once[d].dsize = ino[d].dsize + Added(ino, first, d)
  BY <1>a, AdjustedRows, AdjustedSizes DEF Added
<1> HIDE DEF once
<1>3. (\A i \in DOMAIN once : once[i] \in Inode) /\ DOMAIN once = DOMAIN ino
  BY <1>2 DEF SameRows
<1>4. SameRows(twice, once)
  BY <1>3, AdjustedRows
<1>5. UpFrom(once, second.at) = UpFrom(ino, second.at)
  BY <1>2, SameRowsUp
<1>6. ASSUME NEW d \in DOMAIN ino PROVE twice[d].dsize = once[d].dsize + Added(ino, second, d)
  BY <1>3, <1>5, AdjustedSizes DEF Added
<1> HIDE DEF twice
<1>7. SameRows(twice, ino)
  BY <1>2, <1>4 DEF SameRows
<1> QED BY <1>1, <1>2, <1>6, <1>7

LEMMA SameRowsBelow ==
  ASSUME NEW new, NEW old, SameRows(new, old), NEW i PROVE Below(new, i) = Below(old, i)
<1>1. DOMAIN new = DOMAIN old
  BY DEF SameRows
<1> QED BY <1>1, SameRowsUp DEF Below

\* A commit keeps the sizes if it adds, to each directory, what its files have grown by.
Balanced(ino, met, first, second) ==
  \A d \in DOMAIN ino : ino[d].dir =>
     ino[d].dsize + Added(ino, first, d) + Added(ino, second, d) = Total(met, Below(ino, d) \cap DOMAIN met)

LEMMA CommitSizes ==
  ASSUME NEW t, NEW ino, NEW last, TreeOK(ino, last), Tree(ino), NEW met, NEW first, NEW second, NEW st,
         first.by \in Int, second.by \in Int, Commit(t, ino, met, first, second, st),
         Balanced(ino, met, first, second)
  PROVE  Sized(inodes', meta') /\ Become(t, st)
<1>1. /\ SameRows(inodes', ino) /\ meta' = met /\ Become(t, st)
      /\ \A d \in DOMAIN ino : inodes'[d].dsize = ino[d].dsize + Added(ino, first, d) + Added(ino, second, d)
  BY TreeCommits
<1>2. \A d \in DOMAIN ino : Below(inodes', d) = Below(ino, d)
  BY <1>1, SameRowsBelow
<1>3. DOMAIN inodes' = DOMAIN ino /\ \A d \in DOMAIN ino : inodes'[d].dir = ino[d].dir
  BY <1>1 DEF SameRows
<1> QED BY <1>1, <1>2, <1>3 DEF Sized, Balanced

\* A row without metadata that is added at the end changes no size.
LEMMA NewRowSizes ==
  ASSUME NEW ino, NEW met, NEW last, Files(ino, met, last), Sized(ino, met),
         NEW id, id \notin DOMAIN ino, id # None, NEW new, DOMAIN new = DOMAIN ino \cup {id},
         new[id].dsize = 0, \A i \in DOMAIN ino : new[i] = ino[i]
  PROVE  Sized(new, met)
<1>1. ASSUME NEW j \in DOMAIN ino PROVE UpFrom(new, j) = UpFrom(ino, j)
  <2>1. UpFrom(ino, j) \subseteq DOMAIN ino
    BY UpIsClosed
  <2>2. \A k \in DOMAIN ino : ino[k].parent # id
    BY DEF Files, TreeOK, None
  <2>3. \A k \in UpFrom(ino, j) : /\ k \in DOMAIN new /\ new[k].parent = ino[k].parent
                                  /\ ino[k].parent \in DOMAIN new <=> ino[k].parent \in DOMAIN ino
    BY <2>1, <2>2
  <2> QED BY <2>3, UpStays
<1>2. DOMAIN met \subseteq DOMAIN ino
  BY DEF Files
<1>3. ASSUME NEW d \in DOMAIN ino PROVE Below(new, d) \cap DOMAIN met = Below(ino, d) \cap DOMAIN met
  BY <1>1, <1>2 DEF Below
<1>4. Below(new, id) \cap DOMAIN met = {}
  <2>1. ASSUME NEW j \in DOMAIN ino PROVE id \notin UpFrom(new, j)
    BY <1>1, UpIsClosed
  <2> QED BY <1>2, <2>1 DEF Below
<1>5. Total(met, {}) = 0
  BY FS_EmptySet, TotalTakes
<1> QED BY <1>3, <1>4, <1>5 DEF Sized

\* The size of a file reaches the directories above it and no other.
LEMMA FileBelow ==
  ASSUME NEW ino, NEW d \in DOMAIN ino, NEW i \in DOMAIN ino, d # i
  PROVE  i \in Below(ino, d) <=> d \in UpFrom(ino, ino[i].parent)
BY UpOfParent DEF Below

\* A row of metadata is added or changed.
LEMMA PutSizes ==
  ASSUME NEW ino, NEW met, NEW last, Files(ino, met, last), Sized(ino, met),
         NEW i \in DOMAIN ino, ~ino[i].dir, NEW new, DOMAIN new = DOMAIN met \cup {i},
         \A j \in DOMAIN met \ {i} : new[j].size = met[j].size, new[i].size \in Nat,
         NEW by \in Int, by = new[i].size - (IF i \in DOMAIN met THEN met[i].size ELSE 0),
         NEW d \in DOMAIN ino, ino[d].dir
  PROVE  ino[d].dsize + (IF d \in UpFrom(ino, ino[i].parent) THEN by ELSE 0)
           = Total(new, Below(ino, d) \cap DOMAIN new)
<1> DEFINE B == Below(ino, d) \cap DOMAIN met
           N == Below(ino, d) \cap DOMAIN new
           R == B \ {i}
<1>1. i \in Below(ino, d) <=> d \in UpFrom(ino, ino[i].parent)
  BY FileBelow
<1>2. ino[d].dsize = Total(met, B)
  BY DEF Sized
<1>3. Files(ino, new, last)
  BY DEF Files
<1>4. Sizes(met, B) /\ Sizes(new, N) /\ Sizes(met, R) /\ Total(met, R) \in Nat /\ Total(met, B) \in Nat
  BY <1>3, FilesHaveSizes
<1>5. Total(new, R) = Total(met, R)
  <2>1. IsFiniteSet(R) /\ \A j \in R : new[j].size = met[j].size
    BY <1>4 DEF Sizes
  <2> HIDE DEF R
  <2> QED BY <2>1, TotalSame
<1>6. CASE i \notin Below(ino, d)
  <2>1. B = R /\ N = R
    BY <1>6
  <2>2. Total(met, B) = Total(met, R) /\ Total(new, N) = Total(met, R)
    BY <1>5, <2>1
  <2>3. d \notin UpFrom(ino, ino[i].parent)
    BY <1>1, <1>6
  <2> HIDE DEF B, N, R
  <2> QED BY <1>2, <1>4, <2>2, <2>3 DEF N
<1>7. CASE i \in Below(ino, d)
  <2>1. i \in N /\ N \ {i} = R
    BY <1>7
  <2>2. i \in B <=> i \in DOMAIN met
    BY <1>7
  <2> HIDE DEF N, R, B
  <2>3. Total(new, N) = new[i].size + Total(new, R)
    BY <1>4, <2>1, TotalWithout
  <2>4. CASE i \in DOMAIN met
    <3>1. Total(met, B) = met[i].size + Total(met, R)
      BY <1>4, <2>2, <2>4, TotalWithout DEF R
    <3>2. met[i].size \in Nat
      BY <2>4 DEF Files
    <3> QED BY <1>1, <1>2, <1>4, <1>5, <1>7, <2>3, <2>4, <3>1, <3>2 DEF N
  <2>5. CASE i \notin DOMAIN met
    <3>1. B = R
      BY <2>2, <2>5 DEF R
    <3> QED BY <1>1, <1>2, <1>4, <1>5, <1>7, <2>3, <2>5, <3>1 DEF N
  <2> QED BY <2>4, <2>5
<1> QED BY <1>6, <1>7

\* What an inode counts for: the files below it.
Weighs(ino, met, i) == IF ino[i].dir THEN ino[i].dsize ELSE IF i \in DOMAIN met THEN met[i].size ELSE 0

LEMMA WeightIsTotal ==
  ASSUME NEW ino, NEW met, NEW last, Files(ino, met, last), Sized(ino, met), NEW n \in DOMAIN ino
  PROVE  Weighs(ino, met, n) = Total(met, Below(ino, n) \cap DOMAIN met) /\ Weighs(ino, met, n) \in Nat
<1>1. Total(met, Below(ino, n) \cap DOMAIN met) \in Nat
  BY FilesHaveSizes
<1>2. CASE ino[n].dir
  BY <1>1, <1>2 DEF Sized, Weighs
<1>3. CASE ~ino[n].dir
  <2>1. Below(ino, n) = {n}
    BY <1>3, BelowFile DEF Files
  <2>2. Total(met, {}) = 0
    BY FS_EmptySet, TotalTakes
  <2>3. CASE n \in DOMAIN met
    <3>1. {n} \cap DOMAIN met = {n} /\ {n} \ {n} = {} /\ n \in {n} /\ {n} \in SUBSET DOMAIN met
      BY <2>3
    <3>2. Total(met, {n}) = met[n].size + Total(met, {n} \ {n})
      BY <3>1, FilesHaveSizes, TotalWithout
    <3>3. met[n].size \in Nat
      BY <2>3 DEF Files
    <3> QED BY <1>3, <2>1, <2>2, <2>3, <3>1, <3>2, <3>3 DEF Weighs
  <2>4. CASE n \notin DOMAIN met
    BY <1>3, <2>1, <2>2, <2>4 DEF Weighs
  <2> QED BY <2>3, <2>4
<1> QED BY <1>1, <1>2, <1>3

\* Directories that are not below n: its files are below them all, or none is.
LEMMA BelowWithout ==
  ASSUME NEW ino, NEW last, TreeOK(ino, last), Tree(ino), NEW n \in DOMAIN ino,
         NEW d \in DOMAIN ino \ Below(ino, n)
  PROVE  /\ d \in UpFrom(ino, ino[n].parent) => Below(ino, n) \subseteq Below(ino, d)
         /\ d \notin UpFrom(ino, ino[n].parent) => Below(ino, n) \cap Below(ino, d) = {}
<1>1. n \in UpFrom(ino, n) /\ d # n
  BY UpIsClosed DEF Below
<1>2. d \in UpFrom(ino, ino[n].parent) <=> d \in UpFrom(ino, n)
  BY <1>1, UpOfParent
<1>3. ASSUME d \in UpFrom(ino, n), NEW j \in Below(ino, n) PROVE j \in Below(ino, d)
  BY <1>3, UpTransitive DEF Below
<1>4. ASSUME NEW j \in Below(ino, n), j \in Below(ino, d) PROVE d \in UpFrom(ino, n)
  <2>1. j \in DOMAIN ino /\ n \in UpFrom(ino, j) /\ d \in UpFrom(ino, j) /\ n \notin UpFrom(ino, d)
    BY <1>4 DEF Below
  <2> QED BY <2>1, UpIsLine
<1> QED BY <1>2, <1>3, <1>4

\* A table without some of its rows.
Without(new, old, gone) == DOMAIN new = DOMAIN old \ gone /\ \A j \in DOMAIN new : new[j] = old[j]

\* A row and what is below it are deleted: the directories above lose what it counts for.
LEMMA DeleteSizes ==
  ASSUME NEW ino, NEW met, NEW last, Files(ino, met, last), Sized(ino, met),
         NEW n \in DOMAIN ino, n # RootId,
         NEW left, Without(left, ino, Below(ino, n)), NEW rest, Without(rest, met, Below(ino, n)),
         NEW d \in DOMAIN left, left[d].dir
  PROVE  left[d].dsize + (IF d \in UpFrom(left, ino[n].parent) THEN -Weighs(ino, met, n) ELSE 0)
           = Total(rest, Below(left, d) \cap DOMAIN rest)
<1> DEFINE gone == Below(ino, n)
           p == ino[n].parent
           B == Below(ino, d) \cap DOMAIN met
           N == gone \cap DOMAIN met
           R == B \ gone
<1>1. /\ DOMAIN left = DOMAIN ino \ gone /\ \A j \in DOMAIN left : left[j] = ino[j]
      /\ DOMAIN rest = DOMAIN met \ gone /\ \A j \in DOMAIN rest : rest[j] = met[j]
  BY DEF Without
<1>2. ASSUME NEW j \in DOMAIN ino \ gone PROVE UpFrom(left, j) = UpFrom(ino, j)
  <2>1. UpFrom(ino, j) \subseteq DOMAIN ino /\ Closed(ino, UpFrom(ino, j))
    BY UpIsClosed
  <2>2. ASSUME NEW k \in UpFrom(ino, j) PROVE k \notin gone
    BY <1>2, UpTransitive DEF Below
  <2>3. ASSUME NEW k \in UpFrom(ino, j), ino[k].parent \in DOMAIN ino PROVE ino[k].parent \notin gone
    BY <2>1, <2>2, <2>3 DEF Closed
  <2> HIDE DEF gone
  <2>4. \A k \in UpFrom(ino, j) : /\ k \in DOMAIN left /\ left[k].parent = ino[k].parent
                                  /\ ino[k].parent \in DOMAIN left <=> ino[k].parent \in DOMAIN ino
    BY <1>1, <2>1, <2>2, <2>3
  <2> QED BY <1>1, <1>2, <2>4, UpStays
<1>3. p \in DOMAIN ino \ gone
  <2>1. n \notin UpFrom(ino, p)
    BY NotBelowItself DEF Files
  <2> QED BY <2>1 DEF Below, Files, TreeOK
<1>4. UpFrom(left, p) = UpFrom(ino, p)
  BY <1>2, <1>3
<1>5. Below(left, d) \cap DOMAIN rest = R
  BY <1>1, <1>2 DEF Below
<1>6. d \in DOMAIN ino \ gone /\ ino[d].dir /\ left[d].dsize = ino[d].dsize
  BY <1>1
<1>7. /\ d \in UpFrom(ino, p) => gone \subseteq Below(ino, d)
      /\ d \notin UpFrom(ino, p) => gone \cap Below(ino, d) = {}
  BY <1>6, BelowWithout DEF Files
<1>8. ino[d].dsize = Total(met, B)
  BY <1>6 DEF Sized
<1>9. Weighs(ino, met, n) = Total(met, N) /\ Total(met, N) \in Nat
  BY WeightIsTotal
<1>10. Sizes(met, B) /\ Sizes(met, R) /\ Total(met, R) \in Nat
  BY FilesHaveSizes
<1>11. Total(rest, R) = Total(met, R)
  <2>1. IsFiniteSet(R) /\ \A j \in R : rest[j].size = met[j].size
    BY <1>1, <1>10 DEF Sizes
  <2> HIDE DEF R
  <2> QED BY <2>1, TotalSame
<1> DEFINE T == Total(rest, Below(left, d) \cap DOMAIN rest)
           W == Weighs(ino, met, n)
<1>12. T = Total(met, R) /\ W = Total(met, N)
  BY <1>5, <1>9, <1>11
<1>13. B = IF d \in UpFrom(left, p) THEN R \cup N ELSE R
  BY <1>4, <1>7
<1>14. R \cap N = {} /\ Sizes(met, R \cup N)
  BY FilesHaveSizes
<1> HIDE DEF T, W, B, R, N, gone, p
<1>15. Total(met, R \cup N) = Total(met, R) + Total(met, N)
  BY <1>14, TotalUnion
<1>16. left[d].dsize + (IF d \in UpFrom(left, p) THEN -W ELSE 0) = T
  <2>1. left[d].dsize = IF d \in UpFrom(left, p) THEN T + W ELSE T
    BY <1>6, <1>8, <1>12, <1>13, <1>15
  <2>2. T \in Nat /\ W \in Nat
    BY <1>9, <1>10, <1>12
  <2> QED BY <2>1, <2>2
<1> QED BY <1>16 DEF T, W, p

\* A row moves: the directories above its old place lose what it counts for, those above
\* the new one get it.
LEMMA MoveSizes ==
  ASSUME NEW ino, NEW met, NEW last, Files(ino, met, last), Sized(ino, met),
         NEW n \in DOMAIN ino, n # RootId,
         NEW p \in DOMAIN ino, n \notin UpFrom(ino, p),
         NEW moved, DOMAIN moved = DOMAIN ino, moved[n].parent = p, moved[n].dsize = ino[n].dsize,
         \A j \in DOMAIN ino : moved[j].dir = ino[j].dir /\ (j # n => moved[j] = ino[j]),
         NEW d \in DOMAIN ino, ino[d].dir
  PROVE  moved[d].dsize + (IF d \in UpFrom(moved, ino[n].parent) THEN -Weighs(ino, met, n) ELSE 0)
                        + (IF d \in UpFrom(moved, p) THEN Weighs(ino, met, n) ELSE 0)
           = Total(met, Below(moved, d) \cap DOMAIN met)
<1> DEFINE under == Below(ino, n)
           from == ino[n].parent
           B == Below(ino, d) \cap DOMAIN met
           N == under \cap DOMAIN met
           R == B \ under
<1>a. TreeOK(ino, last) /\ Tree(ino) /\ DOMAIN met \subseteq DOMAIN ino /\ \A j \in DOMAIN ino : j # n => moved[j].parent = ino[j].parent
  BY DEF Files
<1>1. \A j \in DOMAIN ino :
        UpFrom(moved, j) = IF n \in UpFrom(ino, j) THEN (UpFrom(ino, j) \cap under) \cup UpFrom(ino, p)
                           ELSE UpFrom(ino, j)
  BY <1>a, MovedUp
<1>2. n \notin UpFrom(ino, from) /\ from \in DOMAIN ino
  BY <1>a, NotBelowItself DEF TreeOK
<1>3. UpFrom(moved, from) = UpFrom(ino, from) /\ UpFrom(moved, p) = UpFrom(ino, p)
  BY <1>1, <1>2
<1>4. \A j, k \in DOMAIN ino : (j \in under <=> n \in UpFrom(ino, j)) /\ (j \in Below(ino, k) <=> k \in UpFrom(ino, j))
                               /\ (j \in Below(moved, k) <=> k \in UpFrom(moved, j))
  BY DEF Below
<1>5. moved[d].dsize = ino[d].dsize /\ ino[d].dsize = Total(met, B)
  BY DEF Sized
<1>6. Weighs(ino, met, n) = Total(met, N) /\ Total(met, N) \in Nat
  BY WeightIsTotal
<1>7. Sizes(met, B) /\ Sizes(met, R) /\ Sizes(met, R \cup N) /\ Total(met, R) \in Nat /\ Total(met, B) \in Nat
  BY FilesHaveSizes
<1> DEFINE T == Total(met, Below(moved, d) \cap DOMAIN met)
           W == Weighs(ino, met, n)
<1>b. W \in Nat /\ W = Total(met, N)
  BY <1>6
<1>8. CASE d \in under
  <2>1. d \notin UpFrom(ino, p) /\ d \notin UpFrom(ino, from)
    BY <1>2, <1>4, <1>8, UpTransitive
  <2>2. ASSUME NEW j \in DOMAIN met PROVE j \in Below(moved, d) <=> j \in Below(ino, d)
    <3>1. j \in DOMAIN ino
      BY <1>a
    <3>2. d \in UpFrom(ino, j) => n \in UpFrom(ino, j)
      BY <1>4, <1>8, <3>1, UpTransitive
    <3> QED BY <1>1, <1>4, <1>8, <2>1, <3>1, <3>2
  <2>3. Below(moved, d) \cap DOMAIN met = B
    BY <2>2
  <2>4. T = Total(met, B)
    BY <2>3
  <2>5. d \notin UpFrom(moved, p) /\ d \notin UpFrom(moved, from)
    BY <1>3, <2>1
  <2> HIDE DEF T, W, B, from
  <2>6. moved[d].dsize + (IF d \in UpFrom(moved, from) THEN -W ELSE 0)
                       + (IF d \in UpFrom(moved, p) THEN W ELSE 0) = T
    BY <1>5, <1>7, <2>4, <2>5
  <2> QED BY <2>6 DEF T, W, from
<1>9. CASE d \notin under
  <2>1. /\ d \in UpFrom(ino, from) => under \subseteq Below(ino, d)
        /\ d \notin UpFrom(ino, from) => under \cap Below(ino, d) = {}
    BY <1>a, <1>9, BelowWithout
  <2>2. ASSUME NEW j \in DOMAIN met
        PROVE  j \in Below(moved, d) <=> IF j \in under THEN d \in UpFrom(ino, p) ELSE j \in Below(ino, d)
    BY <1>a, <1>1, <1>4, <1>9, <2>2
  <2>3. Below(moved, d) \cap DOMAIN met = IF d \in UpFrom(moved, p) THEN R \cup N ELSE R
    BY <1>3, <2>2
  <2>4. B = IF d \in UpFrom(moved, from) THEN R \cup N ELSE R
    BY <1>3, <2>1
  <2>5. R \cap N = {}
    OBVIOUS
  <2>6. T = Total(met, IF d \in UpFrom(moved, p) THEN R \cup N ELSE R)
    BY <2>3
  <2> HIDE DEF T, W, B, R, N, from
  <2>7. Total(met, R \cup N) = Total(met, R) + W
    BY <1>7, <1>b, <2>5, TotalUnion
  <2>8. Total(met, B) = Total(met, R) + (IF d \in UpFrom(moved, from) THEN W ELSE 0)
    BY <1>7, <2>4, <2>7
  <2>9. T = Total(met, R) + (IF d \in UpFrom(moved, p) THEN W ELSE 0)
    BY <1>7, <2>6, <2>7
  <2>10. moved[d].dsize + (IF d \in UpFrom(moved, from) THEN -W ELSE 0)
                        + (IF d \in UpFrom(moved, p) THEN W ELSE 0) = T
    BY <1>5, <1>7, <1>b, <2>8, <2>9
  <2> QED BY <2>10 DEF T, W, from
<1> QED BY <1>8, <1>9

\* What a request has read of sizes and parents still holds when it writes.
Known(st, ino, met) ==
  /\ st.pc = "send_update" => st.node \in DOMAIN met /\ st.size = met[st.node].size
  /\ st.pc \in {"rm_delete", "mv_write"} =>
       st.node \in DOMAIN ino /\ st.old = ino[st.node].parent /\ st.size = Weighs(ino, met, st.node)
UnknownPcs == Pcs \ {"send_update", "rm_delete", "mv_write", "stuck"}

SizeInv ==
  /\ \A t \in Threads : thread[t].pc # "stuck"
  /\ Undisturbed => Sized(inodes, meta) /\ \A t \in Threads : Known(thread[t], inodes, meta)

LEMMA Unknown == ASSUME NEW st, st.pc \in UnknownPcs, NEW ino, NEW met PROVE Known(st, ino, met) /\ st.pc # "stuck"
BY DEF Known, UnknownPcs

LEMMA SizeStep ==
  ASSUME TypeInv, Alone, Alone', SizeInv, NEW t \in Threads, NEW st, Become(t, st),
         thread[t].pc # "idle" \/ st.pc # "idle", st.pc # "stuck",
         Undisturbed' => Sized(inodes', meta') /\ Known(st, inodes', meta')
  PROVE  SizeInv'
<1>1. thread'[t] = st /\ \A u \in Threads \ {t} : thread'[u] = Idle
  BY OneMoves, OthersIdle
<1>2. Idle.pc \in UnknownPcs
  BY IdleType DEF UnknownPcs, Pcs
<1> HIDE DEF Idle
<1>3. Known(Idle, inodes', meta') /\ Idle.pc # "stuck"
  BY <1>2, Unknown
<1> QED BY <1>1, <1>3 DEF SizeInv

LEMMA SizeNext ==
  ASSUME Careful, TypeInv, LoneInv, TreeInv, SizeInv, Alone', [Next]_vars
  PROVE  SizeInv'
<1>a. /\ \A t \in Threads : /\ thread[t] \in ThreadState /\ ThreadOK(thread[t], lastBlob)
                            /\ thread[t].pc # "stuck"
                            /\ Doing(thread[t], inodes, meta, disk, swept)
      /\ Idle.pc = "idle" /\ Idle.pc \in UnknownPcs
      /\ TreeOK(inodes, lastInode) /\ lastInode \in Nat /\ RootId \in DOMAIN inodes
      /\ Alone /\ Tree(inodes) /\ None \notin DOMAIN inodes
  BY IdleType DEF TypeInv, TablesOK, TreeOK, ThreadsOK, ThreadOK, TreeInv, LoneInv, SizeInv, UnknownPcs, Pcs, None
<1>b. /\ UNCHANGED counters => (Undisturbed' => Undisturbed)
      /\ UNCHANGED <<fails, crashes>> => (Undisturbed' => Undisturbed)
  BY DEF counters, Undisturbed
<1>c. /\ Undisturbed => Sized(inodes, meta)
      /\ \A t \in Threads : Undisturbed => Known(thread[t], inodes, meta) /\ HasRow(thread[t], meta)
  BY DEF SizeInv, LoneInv, Stuck
<1>f. Files(inodes, meta, lastInode)
  <2>1. \A i \in DOMAIN meta : meta[i].size \in Nat /\ ~inodes[i].dir
    BY DEF LoneInv, RowsOK, TypeInv, TablesOK, Meta
  <2> QED BY <1>a, <2>1 DEF Files, TypeInv, TablesOK
\* Thread t comes to a place where it knows nothing.
<1>e. ASSUME NEW t \in Threads, NEW st, Become(t, st), UNCHANGED <<inodes, meta>>,
             thread[t].pc # "idle" \/ st.pc # "idle", st.pc \in UnknownPcs, Undisturbed' => Undisturbed
      PROVE  SizeInv'
  <2>1. Known(st, inodes', meta') /\ st.pc # "stuck"
    BY <1>e, Unknown
  <2>2. Undisturbed' => Sized(inodes', meta')
    BY <1>c, <1>e
  <2> QED BY <1>a, <1>e, <2>1, <2>2, SizeStep
<1>i. /\ \A t \in Threads : thread[t].content \in Int /\ thread[t].size \in Int /\ Counted(thread[t]) \in Int
      /\ Nowhere.by \in Int /\ \A ino, d : Added(ino, Nowhere, d) = 0
  <2>1. \A c \in Contents \cup {0} : c \in Int
    BY VfsAssumption
  <2>2. \A t \in Threads : thread[t].content \in Contents \cup {0} /\ thread[t].size \in Int
    BY <1>a DEF ThreadState
  <2> QED BY <2>1, <2>2 DEF Nowhere, Counted, Added
<1>1. CASE UNCHANGED vars
  <2>1. UNCHANGED <<inodes, meta, thread, fails, crashes>>
    BY <1>1 DEF vars, tables, counters
  <2> QED BY <2>1 DEF SizeInv, Undisturbed
<1>2. CASE Crash
  <2>1. thread' = [t \in Threads |-> Idle] /\ crashes' = crashes + 1 /\ crashes \in Nat
    BY <1>2 DEF Crash, TypeInv, CountersOK
  <2>2. ~Undisturbed'
    BY <2>1 DEF Undisturbed
  <2> HIDE DEF Idle
  <2>3. \A t \in Threads : thread'[t].pc # "stuck"
    BY <1>a, <2>1
  <2> QED BY <2>2, <2>3 DEF SizeInv
<1>3. ASSUME NEW t \in Threads, Fail(t) \/ Busy(t) PROVE SizeInv'
  <2>1. Become(t, Idle) /\ UNCHANGED <<inodes, meta>> /\ thread[t].pc # "idle"
    BY <1>3 DEF Fail, Busy, Reply, Reading, tables, DatabasePcs, WritePcs
  <2>2. Undisturbed' => Undisturbed
    <3>1. CASE Fail(t)
      <4>1. fails' = fails + 1 /\ fails \in Nat
        BY <3>1 DEF Fail, TypeInv, CountersOK
      <4> QED BY <4>1 DEF Undisturbed
    <3>2. CASE Busy(t)
      BY <1>b, <3>2 DEF Busy, Reading
    <3> QED BY <1>3, <3>1, <3>2
  <2> HIDE DEF Idle
  <2> QED BY <1>a, <1>e, <2>1, <2>2
<1>4. ASSUME NEW t \in Threads, Start(t) PROVE SizeInv'
  <2>1. thread[t].pc = "idle" /\ UNCHANGED <<inodes, meta>> /\ (Undisturbed' => Undisturbed)
    BY <1>4, <1>b DEF Start, Arrive, tables
  <2>2. PICK path \in Paths : StartMkdir(t, path) \/ StartSend(t, path) \/ StartRm(t, path) \/ StartMv(t, path)
    BY <1>4 DEF Start
  <2>3. \E st : Become(t, st) /\ st.pc \in {"mkdir_look", "send_look", "rm_read", "rm_meta", "mv_dst"}
    <3>1. Idle \in ThreadState
      BY IdleType DEF ThreadOK
    <3>2. CASE StartMkdir(t, path)
      <4> DEFINE st == [Idle EXCEPT !.pc = "mkdir_look", !.path = path, !.parent = RootId]
      <4>1. Become(t, st) /\ st.pc = "mkdir_look"
        BY <3>1, <3>2 DEF StartMkdir, ThreadState
      <4> HIDE DEF st
      <4> QED BY <4>1
    <3>3. CASE StartSend(t, path)
      <4>1. PICK c \in Contents, overwrite \in BOOLEAN :
              Become(t, [Idle EXCEPT !.pc = "send_look", !.path = path, !.parent = Resolve(Front(path)),
                           !.name = Last(path), !.content = c, !.overwrite = overwrite])
        BY <3>3 DEF StartSend
      <4> DEFINE st == [Idle EXCEPT !.pc = "send_look", !.path = path, !.parent = Resolve(Front(path)),
                          !.name = Last(path), !.content = c, !.overwrite = overwrite]
      <4>2. Become(t, st) /\ st.pc = "send_look"
        BY <3>1, <4>1 DEF ThreadState
      <4> HIDE DEF st
      <4> QED BY <4>2
    <3>4. CASE StartRm(t, path)
      <4> DEFINE st == [Idle EXCEPT !.pc = IF IsDir(Resolve(path)) THEN "rm_read" ELSE "rm_meta", !.node = Resolve(path)]
      <4>1. Become(t, st) /\ st.pc \in {"rm_read", "rm_meta"}
        BY <3>1, <3>4 DEF StartRm, ThreadState
      <4> HIDE DEF st
      <4> QED BY <4>1
    <3>5. CASE StartMv(t, path)
      <4>1. PICK dst \in Paths :
              Become(t, [Idle EXCEPT !.pc = "mv_dst", !.path = dst, !.node = Resolve(path), !.name = Last(path)])
        BY <3>5 DEF StartMv
      <4> DEFINE st == [Idle EXCEPT !.pc = "mv_dst", !.path = dst, !.node = Resolve(path), !.name = Last(path)]
      <4>2. Become(t, st) /\ st.pc = "mv_dst"
        BY <3>1, <4>1 DEF ThreadState
      <4> HIDE DEF st
      <4> QED BY <4>2
    <3> QED BY <2>2, <3>2, <3>3, <3>4, <3>5
  <2>4. PICK st : Become(t, st) /\ st.pc \in {"mkdir_look", "send_look", "rm_read", "rm_meta", "mv_dst"}
    BY <2>3
  <2>5. st.pc \in UnknownPcs /\ st.pc # "idle"
    BY <2>4 DEF UnknownPcs, Pcs
  <2> QED BY <1>e, <2>1, <2>4, <2>5
\* Steps that only look, or write blobs.
<1>5. ASSUME NEW t \in Threads,
             \/ MkdirLook(t) \/ SendLook(t) \/ WriteBlob(t) \/ ReadOldBlob(t) \/ UnlinkOld(t)
             \/ RmMeta(t) \/ RmUnlink(t) \/ MvDst(t) \/ MvExists(t)
      PROVE  SizeInv'
  <2>1. UNCHANGED <<inodes, meta>> /\ thread[t].pc # "idle" /\ (Undisturbed' => Undisturbed)
    BY <1>5, <1>b DEF MkdirLook, SendLook, WriteBlob, ReadOldBlob, UnlinkOld, RmMeta, RmUnlink, MvDst, MvExists,
                      Reading, tables
  <2>2. \E st : Become(t, st) /\ st.pc \in UnknownPcs
    <3> DEFINE st == thread[t]
               c == Child(st.parent, Head(st.path))
               to(pc) == [st EXCEPT !.pc = pc]
               walk == [st EXCEPT !.parent = c, !.path = Tail(st.path)]
               look == [st EXCEPT !.pc = "send_blob", !.path = <<>>, !.node = Resolve(st.path)]
               write == [st EXCEPT !.blob = lastBlob + 1, !.pc = IF st.node = None THEN "send_inode" ELSE "send_meta"]
               old(pc) == [st EXCEPT !.pc = pc, !.old = meta[st.node].blob]
               done(pc) == [st EXCEPT !.pc = pc, !.old = None]
               into == [st EXCEPT !.pc = "mv_exists", !.path = <<>>, !.parent = Resolve(st.path)]
               onto == [st EXCEPT !.pc = "mv_exists", !.path = <<>>, !.parent = Resolve(Front(st.path)),
                                  !.name = Last(st.path)]
    <3>1. \/ Become(t, Idle) \/ Become(t, to("mkdir_make")) \/ (st.pc = "mkdir_look" /\ Become(t, walk))
          \/ Become(t, look) \/ Become(t, write) \/ Become(t, old("send_unlink")) \/ Become(t, to("send_oldsize"))
          \/ Become(t, done("send_oldsize")) \/ Become(t, old("rm_unlink")) \/ Become(t, to("rm_read"))
          \/ Become(t, done("rm_read")) \/ Become(t, into) \/ Become(t, onto) \/ Become(t, to("mv_read"))
      <4>1. CASE MkdirLook(t)
        BY <4>1 DEF MkdirLook, Goto, Reply
      <4>2. CASE SendLook(t)
        BY <4>2 DEF SendLook, Reply
      <4>3. CASE WriteBlob(t)
        BY <4>3 DEF WriteBlob
      <4>4. CASE ReadOldBlob(t)
        BY <4>4 DEF ReadOldBlob, Goto
      <4>5. CASE UnlinkOld(t)
        BY <4>5 DEF UnlinkOld
      <4>6. CASE RmMeta(t)
        BY <4>6 DEF RmMeta, Goto
      <4>7. CASE RmUnlink(t)
        BY <4>7 DEF RmUnlink
      <4>8. CASE MvDst(t)
        <5>1. \/ Become(t, into) \/ Reply(t)
              \/ st.path # <<>> /\ Become(t, onto)
          BY <4>8 DEF MvDst
        <5> QED BY <5>1 DEF Reply
      <4>9. CASE MvExists(t)
        BY <4>9 DEF MvExists, Goto, Reply
      <4> QED BY <1>5, <4>1, <4>2, <4>3, <4>4, <4>5, <4>6, <4>7, <4>8, <4>9
    <3>2. /\ \A pc \in Pcs : to(pc).pc = pc /\ old(pc).pc = pc /\ done(pc).pc = pc
          /\ walk.pc = st.pc /\ look.pc = "send_blob" /\ write.pc \in {"send_inode", "send_meta"}
          /\ into.pc = "mv_exists" /\ onto.pc = "mv_exists"
      BY <1>a DEF ThreadState
    <3>3. {"mkdir_look", "mkdir_make", "send_blob", "send_inode", "send_meta", "send_unlink", "send_oldsize",
           "rm_unlink", "rm_read", "mv_exists", "mv_read"} \subseteq UnknownPcs /\ UnknownPcs \subseteq Pcs
      BY DEF UnknownPcs, Pcs
    <3> HIDE DEF st, to, walk, look, write, old, done, into, onto, Idle
    <3>4. /\ \A pc \in UnknownPcs : to(pc).pc \in UnknownPcs /\ old(pc).pc \in UnknownPcs /\ done(pc).pc \in UnknownPcs
          /\ st.pc = "mkdir_look" => walk.pc \in UnknownPcs
          /\ look.pc \in UnknownPcs /\ write.pc \in UnknownPcs /\ into.pc \in UnknownPcs /\ onto.pc \in UnknownPcs
      BY <3>2, <3>3
    <3> QED BY <1>a, <3>1, <3>3, <3>4
  <2>3. PICK st : Become(t, st) /\ st.pc \in UnknownPcs
    BY <2>2
  <2> QED BY <1>e, <2>1, <2>3
\* A row is inserted.
<1>6. ASSUME NEW t \in Threads, MkdirMake(t) \/ InsertFile(t) PROVE SizeInv'
  <2> DEFINE st == thread[t]
             next == [st EXCEPT !.pc = "mkdir_look", !.parent = lastInode + 1, !.path = Tail(st.path)]
             file == [st EXCEPT !.pc = "send_newmeta", !.node = lastInode + 1]
  <2>1. /\ st.pc # "idle" /\ UNCHANGED meta /\ (Undisturbed' => Undisturbed)
        /\ \/ Become(t, Idle) /\ UNCHANGED inodes
           \/ /\ \E n \in Segments \cup {RootName}, dir \in BOOLEAN :
                   MayPut(None, st.parent, n) /\ inodes' = NewInode(st.parent, n, dir)
              /\ Become(t, Idle) \/ Become(t, next) \/ Become(t, file)
    <3>1. CASE MkdirMake(t)
      <4>1. st.pc = "mkdir_make" /\ UNCHANGED meta /\ UNCHANGED counters
        BY <3>1 DEF MkdirMake, tables
      <4>2. Head(st.path) \in Segments \cup {RootName}
        BY <1>a, <4>1, PathFacts DEF ThreadOK, ThreadState
      <4>3. \/ Become(t, Idle) /\ UNCHANGED inodes
            \/ /\ MayPut(None, st.parent, Head(st.path)) /\ inodes' = NewInode(st.parent, Head(st.path), TRUE)
               /\ Become(t, Idle) \/ Become(t, next)
        BY <3>1 DEF MkdirMake, Reply, tables
      <4> HIDE DEF st, next, Idle
      <4> QED BY <1>b, <4>1, <4>2, <4>3
    <3>2. CASE InsertFile(t)
      <4>1. st.pc = "send_inode" /\ UNCHANGED meta /\ UNCHANGED counters
        BY <3>2 DEF InsertFile, tables
      <4>2. st.name \in Segments \cup {RootName}
        BY <1>a DEF ThreadState
      <4>3. \/ Become(t, Idle) /\ UNCHANGED inodes
            \/ /\ MayPut(None, st.parent, st.name) /\ inodes' = NewInode(st.parent, st.name, FALSE)
               /\ Become(t, file)
        BY <3>2 DEF InsertFile, Reply, tables
      <4> HIDE DEF st, file, Idle
      <4> QED BY <1>b, <4>1, <4>2, <4>3
    <3> QED BY <1>6, <3>1, <3>2
  <2>2. next.pc \in UnknownPcs /\ file.pc \in UnknownPcs
    BY <1>a DEF ThreadState, UnknownPcs, Pcs
  <2>3. thread[t].pc # "idle"
    BY <2>1
  <2> HIDE DEF st, next, file, Idle
  <2>4. CASE Become(t, Idle) /\ UNCHANGED inodes
    BY <1>a, <1>e, <2>1, <2>3, <2>4
  <2>5. ASSUME NEW n \in Segments \cup {RootName}, NEW dir \in BOOLEAN, MayPut(None, st.parent, n),
               inodes' = NewInode(st.parent, n, dir), NEW new, Become(t, new), new.pc \in UnknownPcs
        PROVE  SizeInv'
    <3> DEFINE id == lastInode + 1
               ino == NewInode(st.parent, n, dir)
    <3>1. /\ DOMAIN ino = DOMAIN inodes \cup {id} /\ id \notin DOMAIN inodes
          /\ \A i \in DOMAIN inodes : ino[i] = inodes[i]
      BY <1>a, <2>5, NewInodeTree
    <3>2. ino[id].dsize = 0 /\ id # None
      BY <1>a DEF NewInode, None
    <3> HIDE DEF id, ino
    <3>3. Undisturbed => Sized(ino, meta)
      BY <1>c, <1>f, <3>1, <3>2, NewRowSizes
    <3>4. Known(new, inodes', meta') /\ new.pc # "stuck"
      BY <2>5, Unknown
    <3>5. Undisturbed' => Sized(inodes', meta')
      BY <2>1, <2>5, <3>3 DEF ino
    <3> QED BY <1>a, <2>3, <2>5, <3>4, <3>5, SizeStep
  <2> QED BY <1>a, <2>1, <2>2, <2>4, <2>5
\* A file gets its metadata.
<1>7. ASSUME NEW t \in Threads, InsertMeta(t) PROVE SizeInv'
  <2> DEFINE st == thread[t]
             row == [blob |-> st.blob, size |-> st.content, hash |-> st.content]
             met == [i \in DOMAIN meta \cup {st.node} |-> IF i = st.node THEN row ELSE meta[i]]
             up == [at |-> inodes[st.node].parent, by |-> st.content]
  <2>1. st.pc = "send_newmeta" /\ (Undisturbed' => Undisturbed)
    BY <1>7, <1>b DEF InsertMeta
  <2>2. st.node \in DOMAIN inodes /\ ~inodes[st.node].dir /\ st.node \notin DOMAIN meta
    BY <1>a, <2>1 DEF Doing
  <2>3. Commit(t, inodes, met, up, Nowhere, Idle)
    BY <1>7, <2>2 DEF InsertMeta
  <2>4. st.content \in Nat
    <3>1. st.content \in Contents \cup {0}
      BY <1>a DEF ThreadState
    <3>2. \A c \in Contents \cup {0} : c \in Nat
      BY VfsAssumption
    <3> QED BY <3>1, <3>2
  <2>5. /\ DOMAIN met = DOMAIN meta \cup {st.node} /\ met[st.node].size = st.content
        /\ \A j \in DOMAIN meta \ {st.node} : met[j].size = meta[j].size
    OBVIOUS
  <2>6. up.at = inodes[st.node].parent /\ up.by = st.content
    OBVIOUS
  <2>7. thread[t].pc # "idle"
    BY <2>1
  <2> HIDE DEF st, row, met, up, Idle
  <2>8. ASSUME Undisturbed PROVE Balanced(inodes, met, up, Nowhere)
    <3> SUFFICES ASSUME NEW d \in DOMAIN inodes, inodes[d].dir
                 PROVE  inodes[d].dsize + Added(inodes, up, d) + Added(inodes, Nowhere, d)
                          = Total(met, Below(inodes, d) \cap DOMAIN met)
      BY DEF Balanced
    <3>1. st.content \in Int /\ st.content = met[st.node].size - (IF st.node \in DOMAIN meta THEN meta[st.node].size ELSE 0)
      BY <2>2, <2>4, <2>5
    <3>2. inodes[d].dsize + (IF d \in UpFrom(inodes, inodes[st.node].parent) THEN st.content ELSE 0)
            = Total(met, Below(inodes, d) \cap DOMAIN met)
      BY <1>c, <1>f, <2>2, <2>4, <2>5, <2>8, <3>1, PutSizes
    <3>3. Added(inodes, up, d) = (IF d \in UpFrom(inodes, inodes[st.node].parent) THEN st.content ELSE 0)
      BY <2>6 DEF Added
    <3>4. inodes[d].dsize \in Int
      BY <1>a DEF TreeOK, Inode
    <3> QED BY <1>i, <2>4, <3>2, <3>3, <3>4
  <2>9. up.by \in Int
    BY <2>4, <2>6
  <2>10. Become(t, Idle) /\ (Undisturbed => Sized(inodes', meta'))
    BY <1>a, <1>i, <2>3, <2>8, <2>9, TreeCommits, CommitSizes
  <2>11. Known(Idle, inodes', meta') /\ Idle.pc # "stuck"
    BY <1>a, Unknown
  <2> QED BY <1>a, <2>1, <2>7, <2>10, <2>11, SizeStep
<1>8. ASSUME NEW t \in Threads, ReadOldSize(t) PROVE SizeInv'
  <2> DEFINE st == thread[t]
             size == IF st.node \in DOMAIN meta THEN meta[st.node].size ELSE 0
             new == [st EXCEPT !.pc = "send_update", !.size = size]
  <2>1. st.pc = "send_oldsize" /\ UNCHANGED <<inodes, meta>> /\ (Undisturbed' => Undisturbed) /\ Become(t, new)
    BY <1>8, <1>b DEF ReadOldSize, Reading, tables
  <2>2. new.pc = "send_update" /\ new.node = st.node /\ new.size = size
    BY <1>a DEF ThreadState
  <2>3. Undisturbed => st.node \in DOMAIN meta
    BY <1>c, <2>1 DEF HasRow, DescribePcs
  <2>4. Undisturbed' => Known(new, inodes', meta')
    <3> HIDE DEF st, new
    <3> QED BY <2>1, <2>2, <2>3 DEF Known
  <2>5. Undisturbed' => Sized(inodes', meta')
    BY <1>c, <2>1
  <2>6. new.pc # "stuck" /\ thread[t].pc # "idle"
    BY <2>1, <2>2
  <2> HIDE DEF st, new
  <2> QED BY <1>a, <2>1, <2>4, <2>5, <2>6, SizeStep
\* An overwrite brings the directories to the new size.
<1>9. ASSUME NEW t \in Threads, UpdateSize(t) PROVE SizeInv'
  <2> DEFINE st == thread[t]
             met == IF st.node \in DOMAIN meta
                    THEN [meta EXCEPT ![st.node].size = st.content, ![st.node].hash = st.content] ELSE meta
             up == [at |-> IF st.node \in DOMAIN inodes THEN inodes[st.node].parent ELSE None,
                    by |-> Delta(st)]
             new == [st EXCEPT !.pc = "send_point", !.size = 0]
  <2>1. st.pc = "send_update" /\ (Undisturbed' => Undisturbed) /\ Commit(t, inodes, met, up, Nowhere, new)
    BY <1>9, <1>b DEF UpdateSize
  <2>2. new.pc \in UnknownPcs /\ Delta(st) \in Int /\ Delta(st) = st.content - st.size
    BY <1>a, <1>i DEF ThreadState, UnknownPcs, Pcs, Delta
  <2>3. st.content \in Nat
    <3>1. st.content \in Contents \cup {0}
      BY <1>a DEF ThreadState
    <3>2. \A c \in Contents \cup {0} : c \in Nat
      BY VfsAssumption
    <3> QED BY <3>1, <3>2
  <2>4. up.by = Delta(st) /\ (st.node \in DOMAIN inodes => up.at = inodes[st.node].parent) /\ up.by \in Int
    BY <2>2
  <2>5. ASSUME Undisturbed PROVE Balanced(inodes, met, up, Nowhere)
    <3>1. st.node \in DOMAIN meta /\ st.size = meta[st.node].size
      BY <1>c, <2>1, <2>5 DEF Known
    <3>2. st.node \in DOMAIN inodes /\ ~inodes[st.node].dir /\ meta[st.node] \in Meta
      BY <1>f, <3>1 DEF Files, TypeInv, TablesOK
    <3>3. /\ DOMAIN met = DOMAIN meta \cup {st.node} /\ met[st.node].size = st.content
          /\ \A j \in DOMAIN meta \ {st.node} : met[j].size = meta[j].size
      BY <3>1, <3>2 DEF Meta
    <3> HIDE DEF st, met, up
    <3> SUFFICES ASSUME NEW d \in DOMAIN inodes, inodes[d].dir
                 PROVE  inodes[d].dsize + Added(inodes, up, d) + Added(inodes, Nowhere, d)
                          = Total(met, Below(inodes, d) \cap DOMAIN met)
      BY DEF Balanced
    <3>4. Delta(st) = met[st.node].size - (IF st.node \in DOMAIN meta THEN meta[st.node].size ELSE 0)
      BY <2>2, <3>1, <3>3
    <3>5. inodes[d].dsize + (IF d \in UpFrom(inodes, inodes[st.node].parent) THEN Delta(st) ELSE 0)
            = Total(met, Below(inodes, d) \cap DOMAIN met)
      <4>1. Sized(inodes, meta) /\ met[st.node].size \in Nat /\ Delta(st) \in Int
        BY <1>c, <2>2, <2>3, <2>5, <3>3
      <4>2. st.node \in DOMAIN inodes /\ ~inodes[st.node].dir
        BY <3>2
      <4> DEFINE by == Delta(st)
                 i == st.node
      <4>3. by = met[i].size - (IF i \in DOMAIN meta THEN meta[i].size ELSE 0) /\ by \in Int
        BY <3>4, <4>1
      <4>4. /\ Sized(inodes, meta) /\ i \in DOMAIN inodes /\ ~inodes[i].dir /\ DOMAIN met = DOMAIN meta \cup {i}
            /\ met[i].size \in Nat /\ \A j \in DOMAIN meta \ {i} : met[j].size = meta[j].size
        BY <3>3, <4>1, <4>2
      <4> HIDE DEF by, i
      <4>5. inodes[d].dsize + (IF d \in UpFrom(inodes, inodes[i].parent) THEN by ELSE 0)
              = Total(met, Below(inodes, d) \cap DOMAIN met)
        BY <1>f, <4>3, <4>4, PutSizes
      <4> QED BY <4>5 DEF by, i
    <3>6. Added(inodes, up, d) = (IF d \in UpFrom(inodes, inodes[st.node].parent) THEN Delta(st) ELSE 0)
      BY <2>4, <3>2 DEF Added
    <3>7. inodes[d].dsize \in Int
      BY <1>a DEF TreeOK, Inode
    <3> QED BY <1>i, <2>2, <3>5, <3>6, <3>7
  <2>6. thread[t].pc # "idle"
    BY <2>1
  <2> HIDE DEF st, met, up, new
  <2>7. Become(t, new) /\ (Undisturbed => Sized(inodes', meta'))
    BY <1>a, <1>i, <2>1, <2>4, <2>5, TreeCommits, CommitSizes
  <2>8. Known(new, inodes', meta') /\ new.pc # "stuck"
    BY <2>2, Unknown
  <2> QED BY <1>a, <2>1, <2>6, <2>7, <2>8, SizeStep
<1>10. ASSUME NEW t \in Threads, PointMeta(t) PROVE SizeInv'
  <2> DEFINE st == thread[t]
  <2>1. /\ st.pc = "send_point" /\ Become(t, Idle) /\ UNCHANGED inodes /\ (Undisturbed' => Undisturbed)
        /\ meta' = IF st.node \in DOMAIN meta THEN [meta EXCEPT ![st.node].blob = st.blob] ELSE meta
    BY <1>10, <1>b DEF PointMeta, Reply
  <2>2. \A i \in DOMAIN meta : meta[i] \in Meta
    BY DEF TypeInv, TablesOK
  <2>3. DOMAIN meta' = DOMAIN meta /\ \A i \in DOMAIN meta : meta'[i].size = meta[i].size
    BY <2>1, <2>2 DEF Meta
  <2>4. ASSUME NEW d \in DOMAIN inodes
        PROVE  Total(meta', Below(inodes, d) \cap DOMAIN meta) = Total(meta, Below(inodes, d) \cap DOMAIN meta)
    <3> DEFINE S == Below(inodes, d) \cap DOMAIN meta
    <3>1. IsFiniteSet(S)
      BY <1>f, FilesHaveSizes DEF Sizes
    <3>2. \A i \in S : meta'[i].size = meta[i].size
      BY <2>3
    <3> HIDE DEF S
    <3>3. Total(meta', S) = Total(meta, S)
      BY <3>1, <3>2, TotalSame
    <3> QED BY <3>3 DEF S
  <2>5. Undisturbed' => Sized(inodes', meta')
    BY <1>c, <2>1, <2>3, <2>4 DEF Sized
  <2>6. thread[t].pc # "idle"
    BY <2>1
  <2> HIDE DEF Idle, st
  <2>7. Known(Idle, inodes', meta') /\ Idle.pc # "stuck"
    BY <1>a, Unknown
  <2> QED BY <1>a, <2>1, <2>5, <2>6, <2>7, SizeStep
\* rm and mv read what the inode counts for and where it is.
<1>11. ASSUME NEW t \in Threads, RmRead(t) \/ MvRead(t) PROVE SizeInv'
  <2> DEFINE st == thread[t]
             new(to) == [st EXCEPT !.pc = to, !.old = inodes[st.node].parent, !.size = Weight(st.node)]
  <2>1. /\ thread[t].pc # "idle" /\ UNCHANGED <<inodes, meta>> /\ (Undisturbed' => Undisturbed)
        /\ \/ Become(t, Idle)
           \/ st.node \in DOMAIN inodes /\ \E to \in {"rm_delete", "mv_write"} : Become(t, new(to))
    BY <1>11, <1>b DEF RmRead, MvRead, ReadWeight, Reading, Reply, tables
  <2>2. CASE Become(t, Idle)
    <3> HIDE DEF Idle
    <3> QED BY <1>a, <1>e, <2>1, <2>2
  <2>3. ASSUME st.node \in DOMAIN inodes, NEW to \in {"rm_delete", "mv_write"}, Become(t, new(to)) PROVE SizeInv'
    <3>1. /\ new(to).pc = to /\ new(to).node = st.node /\ new(to).old = inodes[st.node].parent
          /\ new(to).size = Weight(st.node)
      BY <1>a DEF ThreadState
    <3>2. Weight(st.node) = Weighs(inodes, meta, st.node)
      BY DEF Weight, Weighs
    <3> HIDE DEF new, st
    <3>3. Known(new(to), inodes', meta')
      BY <2>1, <2>3, <3>1, <3>2 DEF Known
    <3>4. Undisturbed' => Sized(inodes', meta')
      BY <1>c, <2>1
    <3>5. new(to).pc # "stuck"
      BY <3>1
    <3> QED BY <1>a, <2>1, <2>3, <3>3, <3>4, <3>5, SizeStep
  <2> QED BY <2>1, <2>2, <2>3
<1>12. ASSUME NEW t \in Threads, RmDelete(t) PROVE SizeInv'
  <2> DEFINE st == thread[t]
             gone == Cascade(st.node)
             left == [i \in DOMAIN inodes \ gone |-> inodes[i]]
             met == [i \in DOMAIN meta \ gone |-> meta[i]]
             up == [at |-> IF gone = {} THEN None ELSE st.old, by |-> -Counted(st)]
  <2>1. st.pc = "rm_delete" /\ Commit(t, left, met, up, Nowhere, Idle) /\ (Undisturbed' => Undisturbed)
    BY <1>12, <1>b DEF RmDelete
  <2>2. up.by = -Counted(st) /\ up.by \in Int /\ st.node # RootId /\ thread[t].pc # "idle"
    BY <1>a, <1>i, <2>1 DEF ThreadOK, NodePcs
  <2>3. TreeOK(left, lastInode)
    BY <1>a, <2>2, CascadeTree
  <2>4. Tree(left)
    BY <1>a, <2>2, CascadeOneTree
  <2>5. ASSUME Undisturbed PROVE Balanced(left, met, up, Nowhere)
    <3>1. st.node \in DOMAIN inodes /\ st.old = inodes[st.node].parent /\ st.size = Weighs(inodes, meta, st.node)
      BY <1>c, <2>1, <2>5 DEF Known
    <3>2. gone = Below(inodes, st.node) /\ gone # {}
      <4>1. gone = Below(inodes, st.node)
        BY <3>1 DEF Cascade
      <4> QED BY <1>a, <2>2, <3>1, <4>1, BelowFacts
    <3>3. Counted(st) = Weighs(inodes, meta, st.node) /\ Weighs(inodes, meta, st.node) \in Nat
      <4>1. Weighs(inodes, meta, st.node) \in Nat
        BY <1>c, <1>f, <2>5, <3>1, WeightIsTotal
      <4> QED BY <3>1, <4>1 DEF Counted
    <3>4. up.at = inodes[st.node].parent
      BY <3>1, <3>2
    <3>5. /\ DOMAIN left = DOMAIN inodes \ Below(inodes, st.node) /\ \A j \in DOMAIN left : left[j] = inodes[j]
          /\ DOMAIN met = DOMAIN meta \ Below(inodes, st.node) /\ \A j \in DOMAIN met : met[j] = meta[j]
      <4> HIDE DEF gone
      <4> QED BY <3>2
    <3> HIDE DEF st, gone, left, met, up
    <3> SUFFICES ASSUME NEW d \in DOMAIN left, left[d].dir
                 PROVE  left[d].dsize + Added(left, up, d) + Added(left, Nowhere, d)
                          = Total(met, Below(left, d) \cap DOMAIN met)
      BY DEF Balanced
    <3>6. left[d].dsize + (IF d \in UpFrom(left, inodes[st.node].parent) THEN -Weighs(inodes, meta, st.node) ELSE 0)
            = Total(met, Below(left, d) \cap DOMAIN met)
      <4>1. Sized(inodes, meta) /\ st.node \in DOMAIN inodes /\ st.node # RootId
        BY <1>c, <2>2, <2>5, <3>1
      <4> DEFINE i == st.node
      <4>2. /\ Sized(inodes, meta) /\ i \in DOMAIN inodes /\ i # RootId
            /\ Without(left, inodes, Below(inodes, i)) /\ Without(met, meta, Below(inodes, i))
        BY <3>5, <4>1 DEF Without
      <4> HIDE DEF i
      <4>3. left[d].dsize + (IF d \in UpFrom(left, inodes[i].parent) THEN -Weighs(inodes, meta, i) ELSE 0)
              = Total(met, Below(left, d) \cap DOMAIN met)
        BY <1>f, <4>2, DeleteSizes
      <4> QED BY <4>3 DEF i
    <3>7. Added(left, up, d) = (IF d \in UpFrom(left, inodes[st.node].parent) THEN -Weighs(inodes, meta, st.node) ELSE 0)
      BY <2>2, <3>3, <3>4 DEF Added
    <3>8. left[d].dsize \in Int
      BY <2>3 DEF TreeOK, Inode
    <3>9. Added(left, up, d) \in Int /\ Added(left, Nowhere, d) = 0
      BY <1>i, <2>2 DEF Added
    <3> QED BY <3>6, <3>7, <3>8, <3>9
  <2> HIDE DEF st, left, met, up, Idle
  <2>6. Become(t, Idle) /\ (Undisturbed => Sized(inodes', meta'))
    BY <1>i, <2>1, <2>2, <2>3, <2>4, <2>5, TreeCommits, CommitSizes
  <2>7. Known(Idle, inodes', meta') /\ Idle.pc # "stuck"
    BY <1>a, Unknown
  <2> QED BY <1>a, <2>1, <2>2, <2>6, <2>7, SizeStep
<1>13. ASSUME NEW t \in Threads, MvWrite(t) PROVE SizeInv'
  <2> DEFINE st == thread[t]
             moved == [inodes EXCEPT ![st.node].parent = st.parent, ![st.node].name = st.name]
             from == [at |-> st.old, by |-> -Counted(st)]
             to == [at |-> st.parent, by |-> Counted(st)]
  <2>1. /\ st.pc = "mv_write" /\ (Undisturbed' => Undisturbed)
        /\ \/ Become(t, Idle) /\ UNCHANGED <<inodes, meta>>
           \/ /\ st.node \in DOMAIN inodes /\ MayPut(st.node, st.parent, st.name)
              /\ Commit(t, moved, meta, from, to, Idle)
    BY <1>13, <1>b DEF MvWrite, Reply
  <2>2. /\ from.by = -Counted(st) /\ to.by = Counted(st) /\ from.at = st.old /\ to.at = st.parent
        /\ from.by \in Int /\ to.by \in Int /\ st.node # RootId /\ st.name \in Segments \cup {RootName}
        /\ thread[t].pc # "idle"
    BY <1>a, <1>i, <2>1 DEF ThreadOK, NodePcs, ThreadState
  <2>3. st.parent \in DOMAIN inodes /\ inodes[st.parent].dir /\ st.node \notin UpFrom(inodes, st.parent)
    BY <2>1 DEF TreeInv, Into, Apart, IntoPcs, MovePcs
  <2>4. CASE Become(t, Idle) /\ UNCHANGED <<inodes, meta>>
    <3> HIDE DEF Idle
    <3> QED BY <1>a, <1>e, <2>1, <2>2, <2>4
  <2>5. CASE /\ st.node \in DOMAIN inodes /\ MayPut(st.node, st.parent, st.name)
             /\ Commit(t, moved, meta, from, to, Idle)
    <3>1. st.node \in DOMAIN inodes /\ MayPut(st.node, st.parent, st.name)
      BY <2>5
    <3>2. TreeOK(moved, lastInode) /\ DOMAIN moved = DOMAIN inodes
      <4> HIDE DEF st
      <4> QED BY <1>a, <2>2, <3>1, MovedTree
    <3>3. \A i \in DOMAIN inodes : inodes[i] \in Inode
      BY <1>a DEF TreeOK
    <3>4. /\ \A j \in DOMAIN inodes : moved[j].dir = inodes[j].dir /\ (j # st.node => moved[j] = inodes[j])
          /\ moved[st.node].parent = st.parent /\ moved[st.node].dsize = inodes[st.node].dsize
      BY <3>1, <3>3 DEF Inode
    <3> HIDE DEF st, moved, from, to, Idle
    <3>5. Tree(moved)
      BY <1>a, <2>2, <2>3, <3>1, <3>2, <3>4, MovedOneTree
    <3>6. ASSUME Undisturbed PROVE Balanced(moved, meta, from, to)
      <4>1. st.old = inodes[st.node].parent /\ st.size = Weighs(inodes, meta, st.node)
        BY <1>c, <2>1, <3>6 DEF Known, st
      <4>2. Counted(st) = Weighs(inodes, meta, st.node) /\ Weighs(inodes, meta, st.node) \in Nat
        <5>1. Weighs(inodes, meta, st.node) \in Nat
          BY <1>c, <1>f, <3>1, <3>6, WeightIsTotal
        <5> QED BY <4>1, <5>1 DEF Counted
      <4> SUFFICES ASSUME NEW d \in DOMAIN moved, moved[d].dir
                   PROVE  moved[d].dsize + Added(moved, from, d) + Added(moved, to, d)
                            = Total(meta, Below(moved, d) \cap DOMAIN meta)
        BY DEF Balanced
      <4>3. d \in DOMAIN inodes /\ inodes[d].dir
        BY <3>2, <3>4
      <4>4. moved[d].dsize + (IF d \in UpFrom(moved, inodes[st.node].parent) THEN -Weighs(inodes, meta, st.node) ELSE 0)
                           + (IF d \in UpFrom(moved, st.parent) THEN Weighs(inodes, meta, st.node) ELSE 0)
              = Total(meta, Below(moved, d) \cap DOMAIN meta)
        BY <1>c, <1>f, <2>2, <2>3, <3>1, <3>2, <3>4, <3>6, <4>3, MoveSizes
      <4>5. /\ Added(moved, from, d) = (IF d \in UpFrom(moved, inodes[st.node].parent) THEN -Weighs(inodes, meta, st.node) ELSE 0)
            /\ Added(moved, to, d) = (IF d \in UpFrom(moved, st.parent) THEN Weighs(inodes, meta, st.node) ELSE 0)
        BY <2>2, <4>1, <4>2 DEF Added
      <4> QED BY <4>4, <4>5
    <3>7. Commit(t, moved, meta, from, to, Idle)
      BY <2>5
    <3>8. Become(t, Idle) /\ (Undisturbed => Sized(inodes', meta'))
      BY <2>2, <3>2, <3>5, <3>6, <3>7, TreeCommits, CommitSizes
    <3>9. Known(Idle, inodes', meta') /\ Idle.pc # "stuck"
      BY <1>a, Unknown
    <3> QED BY <1>a, <2>1, <2>2, <3>8, <3>9, SizeStep
  <2> QED BY <2>1, <2>4, <2>5
<1> QED BY <1>1, <1>2, <1>3, <1>4, <1>5, <1>6, <1>7, <1>8, <1>9, <1>10, <1>11, <1>12, <1>13
        DEF Next, Step, Serve

LEMMA SizeInit == Init => SizeInv
<1> SUFFICES ASSUME Init PROVE SizeInv
  OBVIOUS
<1>1. DOMAIN inodes = {RootId} /\ inodes[RootId].dsize = 0 /\ DOMAIN meta = {} /\ thread = [t \in Threads |-> Idle]
  BY DEF Init, NoInode
<1>2. Idle.pc \in UnknownPcs
  BY IdleType DEF UnknownPcs, Pcs
<1> HIDE DEF Idle
<1>3. \A t \in Threads : Known(thread[t], inodes, meta) /\ thread[t].pc # "stuck"
  BY <1>1, <1>2, Unknown
<1>4. Total(meta, {}) = 0
  BY FS_EmptySet, TotalTakes
<1>5. Sized(inodes, meta)
  BY <1>1, <1>4 DEF Sized
<1> QED BY <1>3, <1>5 DEF SizeInv

\* With careful clients whose requests do not overlap, the size recorded for a directory is
\* the sum of the sizes of the files below it, unless a request was cut short: what mkdir,
\* send, rm and mv add and take away one by one on the way to the root comes to the same.
THEOREM DirectoriesAddUp == ASSUME Careful PROVE MCSpec => []SizesExact
<1> DEFINE Inv == ~overlap => TypeInv /\ Owned /\ Readable /\ LoneInv /\ TreeInv /\ SizeInv
<1>1. MCInit => Inv
  BY TypeInit, FilesInit, LoneInit, TreeInit, SizeInit DEF MCInit
<1>2. Inv /\ [MCNext]_<<vars, overlap>> => Inv'
  <2> SUFFICES ASSUME Inv, [MCNext]_<<vars, overlap>>, ~overlap'
               PROVE  TypeInv' /\ Owned' /\ Readable' /\ LoneInv' /\ TreeInv' /\ SizeInv'
    OBVIOUS
  <2>1. ~overlap /\ TypeInv /\ Owned /\ Readable /\ LoneInv /\ TreeInv /\ SizeInv
    BY DEF MCNext
  <2>2. [Next]_vars /\ (UNCHANGED vars \/ Alone')
    BY <2>1 DEF MCNext
  <2>3. Alone'
    <3>1. UNCHANGED vars => (Alone' <=> Alone)
      BY DEF vars, Alone
    <3> QED BY <2>1, <2>2, <3>1 DEF TreeInv
  <2>4. TypeInv'
    BY <2>1, <2>2, TypeNext
  <2>5. Owned' /\ Readable'
    BY <2>1, <2>2, <2>4, FilesNext
  <2> QED BY <2>1, <2>2, <2>3, <2>4, <2>5, LoneNext, TreeNext, SizeNext
<1>3. Inv => SizesExact
  <2> SUFFICES ASSUME SizeInv, Undisturbed, NEW d \in DOMAIN inodes, inodes[d].dir
               PROVE  inodes[d].dsize = MapThenSumSet(LAMBDA i : meta[i].size, Below(inodes, d) \cap DOMAIN meta)
    BY DEF SizesExact, DirSizeExact
  <2>1. inodes[d].dsize = Total(meta, Below(inodes, d) \cap DOMAIN meta)
    BY DEF SizeInv, Sized
  <2> QED BY <2>1 DEF Total
<1> QED BY <1>1, <1>2, <1>3, PTL DEF MCSpec

=============================================================================
