-------------------------- MODULE DeliveriesProofs --------------------------
(***************************************************************************)
(* Proofs about Deliveries, for any number of recipients, shells, files,   *)
(* deliveries, changes and faults: types, every file is saved at most once *)
(* by a shell and lost to a failure only, what is settled stays settled,   *)
(* and no file is written over another.                                    *)
(***************************************************************************)
EXTENDS Deliveries, SequenceTheorems, FiniteSetTheorems, WellFoundedInduction, TLAPS

-----------------------------------------------------------------------------
(* Sequences                                                               *)

\* The first element of a sequence is taken off.
LEMMA TailFacts ==
  ASSUME NEW S, NEW q \in Seq(S), q # <<>>
  PROVE  /\ Len(q) \in Nat \ {0} /\ Head(q) = q[1] /\ Head(q) \in S
         /\ Tail(q) \in Seq(S) /\ Len(Tail(q)) = Len(q) - 1
         /\ \A i \in 1 .. Len(q) - 1 : Tail(q)[i] = q[i + 1]
         /\ (Tail(q) = <<>> <=> Len(q) = 1)
<1>1. Len(q) \in Nat \ {0} /\ Head(q) = q[1] /\ Head(q) \in S /\ Tail(q) \in Seq(S)
      /\ Len(Tail(q)) = Len(q) - 1
  BY EmptySeq, HeadTailProperties
<1>2. \A i \in 1 .. Len(q) - 1 : Tail(q)[i] = q[i + 1]
  BY <1>1, HeadTailProperties
<1>3. Tail(q) = <<>> <=> Len(Tail(q)) = 0
  BY <1>1, EmptySeq
<1> QED BY <1>1, <1>2, <1>3

LEMMA AppendFacts ==
  ASSUME NEW S, NEW q \in Seq(S), NEW x \in S
  PROVE  /\ Append(q, x) \in Seq(S) /\ Len(q) \in Nat /\ Len(Append(q, x)) = Len(q) + 1
         /\ \A i \in 1 .. Len(q) : Append(q, x)[i] = q[i]
         /\ Append(q, x)[Len(q) + 1] = x /\ Append(q, x) # <<>>
BY AppendProperties, LenProperties

-----------------------------------------------------------------------------
(* Types                                                                   *)

\* The statements of _collect_pending_deliveries that work on a row.
WorkPcs == {"inode", "meta", "open", "mark", "log", "fail"}

\* A request has rows left exactly while it works on them, and files exactly when the
\* client has something to save.
Placed(st) ==
  /\ st.pc \in WorkPcs <=> st.todo # <<>>
  /\ st.pc \in {"ask", "select"} => st.results = <<>>
  /\ st.pc \in {"name", "write"} => st.results # <<>>

\* What TypeOK says of a shell while the table has k rows, and where it stands.
ShellOK(st, k) ==
  /\ st \in ShellState /\ (st.pc \in ServerPcs => st.role \in Roles)
  /\ Len(st.results) + Len(st.todo) <= k /\ st.todo \in Seq(1 .. k)
  /\ Placed(st)

TypeInv ==
  /\ TypeOK
  /\ \A s \in Shells : Placed(shell[s]) /\ shell[s].todo \in Seq(1 .. Len(deliveries))
  /\ DOMAIN shell = Shells /\ shell = [s \in Shells |-> shell[s]]
  /\ written \in Nat /\ IsFiniteSet(DOMAIN downloads)
  /\ sender.pc # "idle" => Len(deliveries) < MaxDeliveries

LEMMA WaitingType ==
  ASSUME Roles # {}
  PROVE  /\ Waiting \in ShellState /\ Waiting.pc = "ask" /\ Waiting.todo = <<>>
         /\ Waiting.results = <<>>
<1>1. AnyCopy \in Copy
  BY DeliveryAssumption DEF AnyCopy, Copy, Ids
<1>2. <<>> \in Seq(Ids) /\ <<>> \in Seq(Copy)
  BY EmptySeq
<1> HIDE DEF AnyCopy
<1>3. Waiting \in ShellState
  BY <1>1, <1>2 DEF Waiting, ShellState, ServerPcs, ClientPcs, Statuses
<1> QED BY <1>3 DEF Waiting

\* A request that has just come, a response without files, files in the client.
LEMMA FreshType ==
  ASSUME NEW r \in Roles, NEW res \in Seq(Copy), NEW k \in Nat
  PROVE  /\ ShellOK(Waiting, k)
         /\ ShellOK([Waiting EXCEPT !.pc = "select", !.role = r], k)
         /\ ShellOK([Waiting EXCEPT !.pc = "reply", !.role = r], k)
         /\ res # <<>> /\ Len(res) <= k => ShellOK([Waiting EXCEPT !.pc = "name", !.results = res], k)
<1>1. /\ Waiting \in ShellState /\ Waiting.pc = "ask" /\ Waiting.todo = <<>>
      /\ Waiting.results = <<>>
  BY WaitingType
<1> HIDE DEF Waiting
<1>2. Len(<<>>) = 0 /\ Len(res) \in Nat /\ <<>> \in Seq(1 .. k)
  BY EmptySeq, LenProperties
<1>3. ASSUME NEW st \in {[Waiting EXCEPT !.pc = "select", !.role = r],
                         [Waiting EXCEPT !.pc = "reply", !.role = r]}
      PROVE  ShellOK(st, k)
  <2>1. /\ st \in ShellState /\ st.pc \in {"select", "reply"} /\ st.role = r
        /\ st.todo = <<>> /\ st.results = <<>>
    BY <1>1, <1>3 DEF ShellState, ServerPcs, ClientPcs
  <2> QED BY <1>2, <2>1 DEF ShellOK, Placed, WorkPcs
<1>4. ShellOK(Waiting, k)
  BY <1>1, <1>2 DEF ShellOK, Placed, WorkPcs, ServerPcs
<1>5. ASSUME res # <<>>, Len(res) <= k
      PROVE  ShellOK([Waiting EXCEPT !.pc = "name", !.results = res], k)
  <2> DEFINE st == [Waiting EXCEPT !.pc = "name", !.results = res]
  <2>1. st \in ShellState /\ st.pc = "name" /\ st.todo = <<>> /\ st.results = res
    BY <1>1 DEF ShellState, ServerPcs, ClientPcs
  <2> HIDE DEF st
  <2>2. Len(st.results) + Len(st.todo) <= k
    BY <1>2, <1>5, <2>1
  <2>3. ShellOK(st, k)
    BY <1>2, <1>5, <2>1, <2>2 DEF ShellOK, Placed, WorkPcs, ServerPcs
  <2> QED BY <2>3 DEF st
<1> QED BY <1>3, <1>4, <1>5

\* A step along the row at hand.
LEMMA GotoType ==
  ASSUME NEW st, NEW k, ShellOK(st, k), st.pc \in WorkPcs, NEW pc \in WorkPcs
  PROVE  /\ ShellOK([st EXCEPT !.pc = pc], k)
         /\ \A b \in Nat : ShellOK([st EXCEPT !.pc = pc, !.blob = b], k)
         /\ \A o \in Statuses : ShellOK([st EXCEPT !.pc = pc, !.outcome = o], k)
         /\ \A o \in Statuses, c \in Copy :
              ShellOK([st EXCEPT !.pc = pc, !.outcome = o, !.copy = c], k)
<1>1. \A new \in ShellState : /\ new.pc \in WorkPcs /\ new.role = st.role
                              /\ new.todo = st.todo /\ new.results = st.results
                             => ShellOK(new, k)
  BY DEF ShellOK, Placed, WorkPcs, ServerPcs
<1>2. st \in ShellState /\ pc \in ServerPcs
  BY DEF ShellOK, WorkPcs, ServerPcs
<1>3. ShellOK([st EXCEPT !.pc = pc], k)
  BY <1>1, <1>2 DEF ShellState
<1>4. ASSUME NEW b \in Nat PROVE ShellOK([st EXCEPT !.pc = pc, !.blob = b], k)
  BY <1>1, <1>2 DEF ShellState
<1>5. ASSUME NEW o \in Statuses PROVE ShellOK([st EXCEPT !.pc = pc, !.outcome = o], k)
  BY <1>1, <1>2 DEF ShellState
<1>6. ASSUME NEW o \in Statuses, NEW c \in Copy
      PROVE  ShellOK([st EXCEPT !.pc = pc, !.outcome = o, !.copy = c], k)
  BY <1>1, <1>2 DEF ShellState
<1> QED BY <1>3, <1>4, <1>5, <1>6

\* On to the next row, with what has been collected so far.
LEMMA NextRowType ==
  ASSUME NEW st, NEW k \in Nat, ShellOK(st, k), st.pc \in WorkPcs, NEW res \in Seq(Copy),
         Len(res) <= Len(st.results) + 1
  PROVE  ShellOK(NextRow([st EXCEPT !.results = res]), k)
<1> DEFINE mid == [st EXCEPT !.results = res]
           new == NextRow(mid)
<1>1. st \in ShellState /\ st.todo # <<>> /\ st.todo \in Seq(Ids)
  BY DEF ShellOK, Placed, ShellState
<1>2. mid \in ShellState /\ mid.todo = st.todo /\ mid.results = res /\ mid.role = st.role
  BY <1>1 DEF ShellState
<1>3. /\ Len(st.todo) \in Nat \ {0} /\ Tail(st.todo) \in Seq(Ids)
      /\ Len(Tail(st.todo)) = Len(st.todo) - 1 /\ (Tail(st.todo) = <<>> <=> Len(st.todo) = 1)
      /\ Tail(st.todo) \in Seq(1 .. k)
  BY <1>1, TailFacts DEF ShellOK
<1> HIDE DEF mid
<1>4. /\ new \in ShellState /\ new.todo = Tail(st.todo) /\ new.results = res /\ new.role = st.role
      /\ new.pc = IF Len(st.todo) = 1 THEN "reply" ELSE "inode"
  BY <1>2, <1>3 DEF NextRow, ShellState, ServerPcs, ClientPcs
<1> HIDE DEF new
<1>5. Len(res) \in Nat /\ Len(st.results) \in Nat
  BY <1>1, LenProperties DEF ShellState
<1>6. Len(new.results) + Len(new.todo) <= k
  <2>1. Len(new.results) = Len(res) /\ Len(new.todo) = Len(st.todo) - 1
    BY <1>3, <1>4
  <2>2. Len(st.results) + Len(st.todo) <= k
    BY DEF ShellOK
  <2>3. \A a, b, c \in Nat : a + b <= k /\ b # 0 /\ c <= a + 1 => c + (b - 1) <= k
    OBVIOUS
  <2> QED BY <1>3, <1>5, <2>1, <2>2, <2>3
<1>7. Placed(new) /\ st.role \in Roles
  BY <1>3, <1>4 DEF Placed, ShellOK, WorkPcs, ServerPcs
<1>8. ShellOK(new, k)
  BY <1>3, <1>4, <1>6, <1>7 DEF ShellOK
<1> QED BY <1>8 DEF new, mid

\* What an action has to show of the only shell that moves.
LEMMA ShellStep ==
  ASSUME TypeInv, NEW s \in Shells, NEW st, Become(s, st), ShellOK(st, Len(deliveries')),
         deliveries' \in Seq(Delivery), Len(deliveries) <= Len(deliveries')
  PROVE  /\ \A u \in Shells : ShellOK(shell[u], Len(deliveries))'
         /\ (DOMAIN shell = Shells /\ shell = [u \in Shells |-> shell[u]])'
         /\ \A u \in Shells : shell'[u] = IF u = s THEN st ELSE shell[u]
<1>1. \A u \in Shells : shell'[u] = IF u = s THEN st ELSE shell[u]
  BY DEF Become, TypeInv
<1>2. DOMAIN shell' = Shells /\ shell' = [u \in Shells |-> shell'[u]]
  BY DEF Become, TypeInv
<1>3. \A u \in Shells : ShellOK(shell[u], Len(deliveries))
  BY DEF TypeInv, TypeOK, ShellOK
<1>4. Len(deliveries) \in Nat /\ Len(deliveries') \in Nat
  BY LenProperties DEF TypeInv, TypeOK
<1>5. ASSUME NEW u \in Shells PROVE ShellOK(shell'[u], Len(deliveries'))
  <2>1. CASE u = s
    BY <1>1, <2>1
  <2>2. CASE u # s
    <3>1. shell'[u] = shell[u] /\ ShellOK(shell[u], Len(deliveries))
      BY <1>1, <1>3, <2>2
    <3>2. Len(shell[u].results) \in Nat /\ Len(shell[u].todo) \in Nat
      BY <3>1, LenProperties DEF ShellOK, ShellState
    <3>3. Len(shell[u].results) + Len(shell[u].todo) <= Len(deliveries')
      <4>1. Len(shell[u].results) + Len(shell[u].todo) <= Len(deliveries)
        BY <3>1 DEF ShellOK
      <4>2. \A a, b, k, m \in Nat : a + b <= k /\ k <= m => a + b <= m
        OBVIOUS
      <4> QED BY <1>4, <3>2, <4>1, <4>2
    <3>4. shell[u].todo \in Seq(1 .. Len(deliveries'))
      <4>1. 1 .. Len(deliveries) \subseteq 1 .. Len(deliveries')
        BY <1>4
      <4> QED BY <3>1, <4>1, SeqMonotonic DEF ShellOK
    <3> QED BY <3>1, <3>3, <3>4 DEF ShellOK
  <2> QED BY <2>1, <2>2
<1> QED BY <1>1, <1>2, <1>5

\* The tables and the folder, which most steps leave alone.
Tables ==
  /\ open \subseteq Shells
  /\ role \in [Names -> Roles \cup {NoRole}] /\ session \in [Names -> Roles \cup {NoRole}]
  /\ inode \subseteq Files /\ meta \in [Files -> 0 .. written] /\ blobs \subseteq 1 .. written
  /\ deliveries \in Seq(Delivery) /\ Len(deliveries) <= MaxDeliveries
  /\ sender \in [pc : {"idle", "target", "resolve", "insert"}, to : Names, file : Files]
  /\ sender.pc # "idle" => Len(deliveries) < MaxDeliveries
  /\ \A n \in DOMAIN downloads : downloads[n] \in Copy
  /\ saved \in [Shells -> Seq(Ids)] /\ dropped \subseteq Ids
  /\ written \in Nat /\ IsFiniteSet(DOMAIN downloads)

LEMMA TypeParts ==
  TypeInv <=> /\ Tables /\ \A s \in Shells : ShellOK(shell[s], Len(deliveries))
              /\ DOMAIN shell = Shells /\ shell = [s \in Shells |-> shell[s]]
BY DEF TypeInv, TypeOK, Tables, ShellOK

LEMMA TypeInit == Init => TypeInv
<1> SUFFICES ASSUME Init PROVE TypeInv
  OBVIOUS
<1>1. Roles # {}
  <2>1. role \in [Names -> Roles] /\ Root \in Names
    BY DeliveryAssumption DEF Init
  <2> QED BY <2>1
<1>2. written \in Nat
  BY DeliveryAssumption, FS_CardinalityType DEF Init
<1>3. Len(deliveries) = 0 /\ deliveries \in Seq(Delivery) /\ <<>> \in Seq(Ids)
  BY EmptySeq DEF Init
<1>4. Tables
  <2>1. meta \in [Files -> 0 .. written]
    <3>1. PICK full \in SUBSET Files, blob \in [Files -> 1 .. written] :
                 meta = [f \in Files |-> IF f \in full THEN blob[f] ELSE 0]
      BY DEF Init
    <3> QED BY <1>2, <3>1
  <2>2. IsFiniteSet(DOMAIN downloads) /\ DOMAIN downloads = {}
    BY FS_EmptySet DEF Init
  <2>3. open \subseteq Shells
    BY DEF Init
  <2>4. sender \in [pc : {"idle"}, to : Names, file : Files]
    BY DeliveryAssumption DEF Init, NoSend
  <2>5. saved \in [Shells -> Seq(Ids)] /\ dropped = {}
    BY <1>3 DEF Init
  <2>6. role \in [Names -> Roles \cup {NoRole}] /\ session \in [Names -> Roles \cup {NoRole}]
    BY DEF Init
  <2>7. inode \subseteq Files /\ blobs \subseteq 1 .. written
    BY DEF Init
  <2> QED BY <1>2, <1>3, <2>1, <2>2, <2>3, <2>4, <2>5, <2>6, <2>7, DeliveryAssumption DEF Tables
<1>5. ShellOK(Waiting, 0)
  <2>1. 0 \in Nat /\ <<>> \in Seq(Copy)
    BY EmptySeq
  <2>2. PICK r : r \in Roles
    BY <1>1
  <2> QED BY <2>1, <2>2, FreshType
<1>6. shell = [s \in Shells |-> Waiting]
  BY DEF Init
<1> HIDE DEF Waiting
<1> QED BY <1>3, <1>4, <1>5, <1>6, TypeParts

\* Setting the status of a row changes nothing else of the table.
LEMMA SetStatusFacts ==
  ASSUME deliveries \in Seq(Delivery), NEW st, NEW status \in Statuses, SetStatus(st, status)
  PROVE  /\ deliveries' \in Seq(Delivery) /\ Len(deliveries') = Len(deliveries)
         /\ \A i \in 1 .. Len(deliveries) :
              /\ deliveries'[i].to = deliveries[i].to /\ deliveries'[i].file = deliveries[i].file
              /\ deliveries'[i].unmasked = deliveries[i].unmasked
              /\ deliveries'[i].status = IF i = Head(st.todo) THEN status ELSE deliveries[i].status
<1> DEFINE n == Len(deliveries)
           f == [i \in 1 .. n |-> IF i = Head(st.todo) THEN [deliveries[i] EXCEPT !.status = status]
                                  ELSE deliveries[i]]
<1>1. n \in Nat /\ deliveries \in [1 .. n -> Delivery]
  BY LenProperties
<1>2. deliveries' = f
  BY <1>1 DEF SetStatus
<1>3. \A r \in Delivery : /\ [r EXCEPT !.status = status] \in Delivery
                          /\ [r EXCEPT !.status = status].to = r.to
                          /\ [r EXCEPT !.status = status].file = r.file
                          /\ [r EXCEPT !.status = status].unmasked = r.unmasked
                          /\ [r EXCEPT !.status = status].status = status
  BY DEF Delivery
<1>4. f \in [1 .. n -> Delivery]
  BY <1>1, <1>3
<1>5. f \in Seq(Delivery) /\ Len(f) = n
  BY <1>1, <1>4, SeqDef
<1> QED BY <1>1, <1>2, <1>3, <1>5

\* The least of some numbers.
LEMMA LeastNatural ==
  ASSUME NEW S \in SUBSET Nat, S # {}
  PROVE  Min(S) \in S
<1> DEFINE R == {ss \in Nat \X Nat : ss[1] < ss[2]}
<1>1. IsWellFoundedOn(R, Nat)
  BY NatLessThanWellFounded DEF OpToRel
<1>2. \A m, n \in Nat : <<m, n>> \in R <=> m < n
  OBVIOUS
<1> HIDE DEF R
<1>3. PICK n \in S : \A m \in S : ~(<<m, n>> \in R)
  BY <1>1, WFMin
<1>4. ASSUME NEW m \in S PROVE n <= m
  <2>1. m \in Nat /\ n \in Nat /\ ~(m < n)
    BY <1>2, <1>3
  <2> QED BY <2>1
<1> QED BY <1>4 DEF Min

\* while dest.exists() comes to a name that is free.
LEMMA FreeNumberFacts ==
  ASSUME TypeInv, NEW s \in Shells
  PROVE  FreeNumber(s) \in Nat /\ NameOf(s, FreeNumber(s)) \notin DOMAIN downloads
<1> DEFINE c == Cardinality(DOMAIN downloads)
           name == [n \in 0 .. c |-> NameOf(s, n)]
           free == {n \in 0 .. c : NameOf(s, n) \notin DOMAIN downloads}
<1>1. IsFiniteSet(DOMAIN downloads) /\ c \in Nat
  BY FS_CardinalityType DEF TypeInv
<1>2. IsFiniteSet(0 .. c) /\ Cardinality(0 .. c) = c + 1
  BY <1>1, FS_Interval
<1>3. \A m, n \in 0 .. c : name[m] = name[n] => m = n
  BY DEF NameOf
<1> HIDE DEF name
<1>4. ~(name \in [0 .. c -> DOMAIN downloads])
  BY <1>1, <1>2, <1>3, FS_PigeonHole
<1>5. free # {}
  BY <1>4 DEF name
<1>6. free \in SUBSET Nat
  BY <1>1
<1> HIDE DEF free
<1>7. Min(free) \in free
  BY <1>5, <1>6, LeastNatural
<1> QED BY <1>6, <1>7 DEF free, FreeNumber

LEMMA TypeNext == TypeInv /\ [Next]_vars => TypeInv'
<1> SUFFICES ASSUME TypeInv, [Next]_vars PROVE TypeInv'
  OBVIOUS
<1>a. /\ Tables /\ \A s \in Shells : ShellOK(shell[s], Len(deliveries))
      /\ DOMAIN shell = Shells /\ shell = [s \in Shells |-> shell[s]]
  BY TypeParts
<1>b. Len(deliveries) \in Nat /\ MaxDeliveries \in Nat \ {0} /\ MaxBlobs \in Nat
  BY <1>a, LenProperties, DeliveryAssumption DEF Tables
<1>c. \A s \in Shells : /\ shell[s] \in ShellState /\ shell[s].todo \in Seq(Ids)
                        /\ shell[s].results \in Seq(Copy) /\ Len(shell[s].results) \in Nat
                        /\ (shell[s].pc \in WorkPcs <=> shell[s].todo # <<>>)
                        /\ (shell[s].pc \in ServerPcs => shell[s].role \in Roles)
                        /\ (shell[s].pc \in WorkPcs => Head(shell[s].todo) \in Ids)
  BY <1>a, LenProperties, HeadTailProperties DEF ShellOK, Placed, ShellState
<1>d. ASSUME NEW s \in Shells PROVE AtHand(shell[s]) \subseteq Ids /\ Carried(shell[s]) \subseteq Ids
  <2>1. \A i \in DOMAIN shell[s].results : shell[s].results[i] \in Copy
    BY <1>c, LenProperties, ElementOfSeq
  <2> QED BY <1>c, <2>1 DEF AtHand, Carried, Copy, WorkPcs
\* A shell moves; tables and folder stay in their types.
<1>e. ASSUME NEW s \in Shells, NEW st, Become(s, st), ShellOK(st, Len(deliveries')),
             Tables', Len(deliveries) <= Len(deliveries')
      PROVE  TypeInv'
  <2>1. /\ \A u \in Shells : ShellOK(shell[u], Len(deliveries))'
        /\ (DOMAIN shell = Shells /\ shell = [u \in Shells |-> shell[u]])'
    BY <1>e, ShellStep DEF Tables
  <2> QED BY <1>e, <2>1 DEF Tables, TypeInv, TypeOK, ShellOK
<1>f. ASSUME UNCHANGED shell, Tables', Len(deliveries) <= Len(deliveries') PROVE TypeInv'
  <2>1. \A s \in Shells : ShellOK(shell[s], Len(deliveries'))
    <3> SUFFICES ASSUME NEW s \in Shells PROVE ShellOK(shell[s], Len(deliveries'))
      OBVIOUS
    <3>1. ShellOK(shell[s], Len(deliveries)) /\ Len(deliveries') \in Nat
      BY <1>a, <1>f, LenProperties DEF Tables
    <3>2. Len(shell[s].results) \in Nat /\ Len(shell[s].todo) \in Nat
      BY <1>c, LenProperties
    <3>3. Len(shell[s].results) + Len(shell[s].todo) <= Len(deliveries)
      BY <3>1 DEF ShellOK
    <3>4. \A a, b, k, m \in Nat : a + b <= k /\ k <= m => a + b <= m
      OBVIOUS
    <3>5. Len(shell[s].results) + Len(shell[s].todo) <= Len(deliveries')
      BY <1>b, <1>f, <3>1, <3>2, <3>3, <3>4
    <3>6. shell[s].todo \in Seq(1 .. Len(deliveries'))
      <4>1. 1 .. Len(deliveries) \subseteq 1 .. Len(deliveries')
        BY <1>b, <1>f, <3>1
      <4> QED BY <3>1, <4>1, SeqMonotonic DEF ShellOK
    <3> QED BY <3>1, <3>5, <3>6 DEF ShellOK
  <2> QED BY <1>a, <1>f, <2>1 DEF Tables, TypeInv, TypeOK, ShellOK
<1>g. ASSUME UNCHANGED <<open, role, inode, meta, blobs, written, deliveries, sender, downloads, saved>>,
             session' \in [Names -> Roles \cup {NoRole}], dropped' \subseteq Ids
      PROVE  Tables' /\ Len(deliveries) <= Len(deliveries') /\ deliveries' = deliveries
  BY <1>a, <1>b, <1>g DEF Tables
\* Accounts and files.
<1>1. ASSUME NEW n \in Names, Login(n) PROVE TypeInv'
  BY <1>1, <1>a, <1>b, <1>f DEF Tables, Login, vfs, client
<1>2. ASSUME NEW n \in Names, NEW r \in Roles \cup {NoRole}, ChangeAccount(n, r) PROVE TypeInv'
  BY <1>2, <1>a, <1>b, <1>f DEF Tables, ChangeAccount, vfs, client
<1>3. ASSUME NEW f \in Files, UnlinkBlob(f) \/ NameBlob(f) \/ DeleteRows(f) PROVE TypeInv'
  <2>1. UNCHANGED <<open, accounts, deliveries, sender, shell, client, dropped>>
    BY <1>3 DEF UnlinkBlob, NameBlob, DeleteRows
  <2>2. /\ inode' \subseteq Files /\ meta' \in [Files -> 0 .. written'] /\ blobs' \subseteq 1 .. written'
        /\ written' \in Nat
    <3>1. CASE UnlinkBlob(f)
      BY <1>a, <3>1 DEF Tables, UnlinkBlob
    <3>2. CASE DeleteRows(f)
      BY <1>a, <3>2 DEF Tables, DeleteRows
    <3>3. CASE NameBlob(f)
      <4>1. /\ written' = written + 1 /\ blobs' = blobs \cup {written'}
            /\ meta' = [meta EXCEPT ![f] = written'] /\ inode' = inode /\ written \in Nat
        BY <1>a, <3>3 DEF Tables, NameBlob
      <4>2. 0 .. written \subseteq 0 .. written' /\ 1 .. written \subseteq 1 .. written'
        BY <4>1
      <4>3. written' \in 0 .. written' /\ written' \in 1 .. written'
        BY <4>1
      <4> QED BY <1>a, <4>1, <4>2, <4>3 DEF Tables
    <3> QED BY <1>3, <3>1, <3>2, <3>3
  <2> QED BY <1>a, <1>b, <1>f, <2>1, <2>2 DEF Tables, accounts, client
\* The sender.
<1>4. ASSUME (\E n \in Names, f \in Files : SendRequest(n, f)) \/ CheckTarget \/ ResolveFile
      PROVE  TypeInv'
  <2>1. UNCHANGED <<SendVars, deliveries>>
    BY <1>4 DEF SendRequest, CheckTarget, ResolveFile
  <2>2. /\ sender' \in [pc : {"idle", "target", "resolve", "insert"}, to : Names, file : Files]
        /\ sender'.pc # "idle" => Len(deliveries) < MaxDeliveries
    <3>1. NoSend \in [pc : {"idle"}, to : Names, file : Files]
      BY DeliveryAssumption DEF NoSend
    <3> HIDE DEF NoSend
    <3>2. ASSUME NEW n \in Names, NEW f \in Files, SendRequest(n, f)
          PROVE  /\ sender' \in [pc : {"target"}, to : Names, file : Files]
                 /\ Len(deliveries) < MaxDeliveries
      BY <3>2, <1>a DEF Tables, SendRequest
    <3> QED BY <1>4, <1>a, <3>1, <3>2 DEF Tables, CheckTarget, ResolveFile
  <2> QED BY <1>a, <1>b, <1>f, <2>1, <2>2 DEF Tables, SendVars, accounts, vfs, client
<1>5. ASSUME NEW unmasked \in BOOLEAN, CreateDelivery(unmasked) PROVE TypeInv'
  <2> DEFINE row == [to |-> sender.to, file |-> sender.file, unmasked |-> unmasked,
                     status |-> "pending"]
  <2>1. sender' = NoSend /\ deliveries' = Append(deliveries, row) /\ UNCHANGED SendVars
    BY <1>5 DEF CreateDelivery
  <2>2. row \in Delivery
    BY <1>a DEF Tables, Delivery, Statuses
  <2>3. NoSend \in [pc : {"idle"}, to : Names, file : Files]
    BY DeliveryAssumption DEF NoSend
  <2>4. Len(deliveries) < MaxDeliveries
    BY <1>5, <1>a DEF Tables, CreateDelivery
  <2> HIDE DEF row, NoSend
  <2>5. deliveries' \in Seq(Delivery) /\ Len(deliveries') = Len(deliveries) + 1
    BY <1>a, <2>1, <2>2, AppendProperties DEF Tables
  <2> QED BY <1>a, <1>b, <1>f, <2>1, <2>3, <2>4, <2>5 DEF Tables, SendVars, accounts, vfs, client
\* The server.
<1>6. ASSUME NEW s \in Shells, NEW command, Ask(s, command) PROVE TypeInv'
  <2>1. /\ Become(s, [Waiting EXCEPT !.pc = "select", !.role = session[Owner[s]]])
        /\ session[Owner[s]] # NoRole /\ UNCHANGED <<World, role, deliveries, dropped>>
        /\ session' \in {session, [session EXCEPT ![Owner[s]] = NoRole]}
    BY <1>6 DEF Ask
  <2>2. session[Owner[s]] \in Roles /\ <<>> \in Seq(Copy)
    BY <1>a, <2>1, EmptySeq, DeliveryAssumption DEF Tables
  <2>3. ShellOK([Waiting EXCEPT !.pc = "select", !.role = session[Owner[s]]], Len(deliveries))
    BY <1>b, <2>2, FreshType
  <2> HIDE DEF Waiting
  <2>4. session' \in [Names -> Roles \cup {NoRole}]
    BY <1>a, <2>1 DEF Tables
  <2>5. Tables' /\ Len(deliveries) <= Len(deliveries') /\ deliveries' = deliveries
    BY <1>a, <1>g, <2>1, <2>4 DEF Tables, World, vfs, client
  <2> QED BY <1>e, <2>1, <2>3, <2>5
<1>7. ASSUME NEW s \in Shells, SelectPending(s) PROVE TypeInv'
  <2>1. PICK todo \in SeqOf(Ids, Len(deliveries)) :
          /\ ToSet(todo) = Pending(Owner[s])
          /\ Become(s, [shell[s] EXCEPT !.todo = todo, !.pc = IF todo = <<>> THEN "reply" ELSE "inode"])
    BY <1>7 DEF SelectPending
  <2>2. UNCHANGED <<World, role, session, deliveries, dropped>> /\ shell[s].pc = "select"
    BY <1>7 DEF SelectPending
  <2> DEFINE st == [shell[s] EXCEPT !.todo = todo, !.pc = IF todo = <<>> THEN "reply" ELSE "inode"]
  <2>3. todo \in Seq(Ids) /\ todo \in Seq(1 .. Len(deliveries)) /\ Len(todo) <= Len(deliveries)
    <3>1. PICK m \in 0 .. Len(deliveries) : todo \in [1 .. m -> Ids]
      BY DEF SeqOf
    <3>2. DOMAIN deliveries = 1 .. Len(deliveries)
      BY <1>a, LenProperties DEF Tables
    <3>3. todo \in [1 .. m -> 1 .. Len(deliveries)]
      BY <2>1, <3>1, <3>2 DEF ToSet, Pending
    <3> QED BY <1>b, <3>1, <3>3, SeqDef
  <2>4. /\ st \in ShellState /\ st.todo = todo /\ st.results = shell[s].results
        /\ st.pc = (IF todo = <<>> THEN "reply" ELSE "inode") /\ st.role = shell[s].role
    BY <1>c, <2>3 DEF ShellState, ServerPcs, ClientPcs
  <2>5. shell[s].results = <<>> /\ shell[s].role \in Roles
    BY <1>a, <1>c, <2>2 DEF ShellOK, Placed, ServerPcs
  <2> HIDE DEF st
  <2>6. Len(st.results) + Len(st.todo) <= Len(deliveries)
    <3>1. Len(st.results) = 0 /\ Len(st.todo) \in Nat
      BY <2>3, <2>4, <2>5, EmptySeq, LenProperties
    <3> QED BY <1>b, <2>3, <2>4, <3>1
  <2>7. ShellOK(st, Len(deliveries))
    BY <2>3, <2>4, <2>5, <2>6 DEF ShellOK, Placed, WorkPcs
  <2>8. Tables' /\ Len(deliveries) <= Len(deliveries') /\ deliveries' = deliveries
    BY <1>a, <1>g, <2>2 DEF Tables, World, vfs, client
  <2> QED BY <1>e, <2>1, <2>7, <2>8 DEF st
<1>8. ASSUME NEW s \in Shells, GetInode(s) \/ GetMeta(s) \/ DecryptAndMask(s) PROVE TypeInv'
  <2>1. /\ UNCHANGED <<open, inode, meta, blobs, written, sender, downloads, saved, role, session,
                       deliveries, dropped>>
        /\ shell[s].pc \in WorkPcs
    BY <1>8 DEF GetInode, GetMeta, DecryptAndMask, WorkPcs, Local, World, vfs, client
  <2>2. PICK st : Become(s, st) /\ ShellOK(st, Len(deliveries))
    <3>1. CASE GetInode(s)
      <4>1. "meta" \in WorkPcs /\ "mark" \in WorkPcs /\ "skipped" \in Statuses
        BY DEF WorkPcs, Statuses
      <4> QED BY <1>a, <2>1, <3>1, <4>1, GotoType DEF GetInode
    <3>2. CASE GetMeta(s)
      <4> DEFINE blob == meta[Row(shell[s]).file]
      <4>1. PICK st : /\ Become(s, st)
                      /\ \/ st = [shell[s] EXCEPT !.pc = "fail"]
                         \/ blob # 0 /\ st = [shell[s] EXCEPT !.pc = "open", !.blob = blob]
        BY <3>2 DEF GetMeta
      <4>2. "fail" \in WorkPcs /\ "open" \in WorkPcs
        BY DEF WorkPcs
      <4>3. blob \in Nat
        <5>1. Head(shell[s].todo) \in 1 .. Len(deliveries)
          BY <1>a, <1>c, <2>1, HeadTailProperties DEF ShellOK
        <5>2. deliveries[Head(shell[s].todo)] \in Delivery
          BY <1>a, <5>1, ElementOfSeq DEF Tables
        <5>3. Row(shell[s]).file \in Files
          BY <5>2 DEF Row, Delivery
        <5> QED BY <1>a, <5>3 DEF Tables
      <4> HIDE DEF blob
      <4>4. ShellOK(st, Len(deliveries))
        <5>1. CASE st = [shell[s] EXCEPT !.pc = "fail"]
          BY <1>a, <2>1, <4>2, <5>1, GotoType
        <5>2. CASE st = [shell[s] EXCEPT !.pc = "open", !.blob = blob]
          BY <1>a, <2>1, <4>2, <4>3, <5>2, GotoType
        <5> QED BY <4>1, <5>1, <5>2
      <4> QED BY <4>1, <4>4
    <3>3. CASE DecryptAndMask(s)
      <4>1. PICK masked \in BOOLEAN :
              Become(s, IF shell[s].blob \notin blobs THEN [shell[s] EXCEPT !.pc = "fail"]
                        ELSE Prepare(shell[s], masked))
        BY <3>3 DEF DecryptAndMask
      <4>2. "fail" \in WorkPcs /\ "mark" \in WorkPcs /\ "delivered" \in Statuses
        BY DEF WorkPcs, Statuses
      <4>3. Payload(shell[s], masked) \in Copy
        <5>1. Head(shell[s].todo) \in Ids /\ shell[s].role \in Roles
          BY <1>c, <2>1 DEF WorkPcs, ServerPcs
        <5>2. (Row(shell[s]).unmasked \/ ~masked) \in BOOLEAN
          OBVIOUS
        <5> QED BY <5>1, <5>2 DEF Payload, Copy
      <4> QED BY <1>a, <2>1, <4>1, <4>2, <4>3, GotoType DEF Prepare
    <3> QED BY <1>8, <3>1, <3>2, <3>3
  <2>3. Tables' /\ Len(deliveries) <= Len(deliveries') /\ deliveries' = deliveries
    BY <1>a, <1>g, <2>1 DEF Tables
  <2> QED BY <1>e, <2>2, <2>3
<1>9. ASSUME NEW s \in Shells, MarkRow(s) PROVE TypeInv'
  <2>1. /\ UNCHANGED <<open, role, session, inode, meta, blobs, written, sender, downloads, saved, dropped>>
        /\ shell[s].pc = "mark" /\ (SetStatus(shell[s], shell[s].outcome) \/ UNCHANGED deliveries)
        /\ Goto(s, "log") \/ Goto(s, "fail")
    BY <1>9 DEF MarkRow, World, vfs, client
  <2>2. shell[s].outcome \in Statuses /\ shell[s].pc \in WorkPcs /\ "log" \in WorkPcs /\ "fail" \in WorkPcs
    BY <1>c, <2>1 DEF ShellState, WorkPcs
  <2>3. PICK pc \in WorkPcs : Become(s, [shell[s] EXCEPT !.pc = pc])
    BY <2>1, <2>2 DEF Goto
  <2>4. ShellOK([shell[s] EXCEPT !.pc = pc], Len(deliveries))
    BY <1>a, <2>2, GotoType
  <2>5. deliveries' \in Seq(Delivery) /\ Len(deliveries') = Len(deliveries)
    BY <1>a, <2>1, <2>2, SetStatusFacts DEF Tables
  <2>6. Tables' /\ Len(deliveries) <= Len(deliveries')
    BY <1>a, <1>b, <2>1, <2>5 DEF Tables
  <2> QED BY <1>e, <2>3, <2>4, <2>5, <2>6
<1>10. ASSUME NEW s \in Shells, LogOutcome(s) PROVE TypeInv'
  <2>1. /\ UNCHANGED <<open, role, session, inode, meta, blobs, written, sender, downloads, saved,
                       deliveries, dropped>>
        /\ shell[s].pc = "log"
        /\ \/ Become(s, NextRow([shell[s] EXCEPT !.results = Collected(shell[s])]))
           \/ Become(s, [shell[s] EXCEPT !.pc = "fail"])
    BY <1>10 DEF LogOutcome, World, vfs, client, Goto
  <2>2. Tables' /\ Len(deliveries) <= Len(deliveries') /\ deliveries' = deliveries
    BY <1>a, <1>g, <2>1 DEF Tables
  <2>3. shell[s].pc \in WorkPcs /\ "fail" \in WorkPcs
    BY <2>1 DEF WorkPcs
  <2>4. ShellOK([shell[s] EXCEPT !.pc = "fail"], Len(deliveries))
    BY <1>a, <2>3, GotoType
  <2>5. Collected(shell[s]) \in Seq(Copy) /\ Len(Collected(shell[s])) <= Len(shell[s].results) + 1
    <3>1. shell[s].copy \in Copy
      BY <1>c DEF ShellState
    <3>2. /\ Append(shell[s].results, shell[s].copy) \in Seq(Copy)
          /\ Len(Append(shell[s].results, shell[s].copy)) = Len(shell[s].results) + 1
      BY <1>c, <3>1, AppendProperties
    <3> QED BY <1>c, <3>2 DEF Collected
  <2>6. ShellOK(NextRow([shell[s] EXCEPT !.results = Collected(shell[s])]), Len(deliveries))
    BY <1>a, <1>b, <2>3, <2>5, NextRowType
  <2> QED BY <1>e, <2>1, <2>2, <2>4, <2>6
<1>11. ASSUME NEW s \in Shells, MarkFailed(s) PROVE TypeInv'
  <2>1. /\ UNCHANGED <<open, role, session, inode, meta, blobs, written, sender, downloads, saved>>
        /\ shell[s].pc = "fail" /\ (SetStatus(shell[s], "failed") \/ UNCHANGED deliveries)
        /\ dropped' = dropped \/ dropped' = dropped \cup Carried(shell[s]) \cup AtHand(shell[s])
        /\ \/ Become(s, NextRow(shell[s]))
           \/ Become(s, [Waiting EXCEPT !.pc = "reply", !.role = shell[s].role])
    BY <1>11 DEF MarkFailed, World, vfs, client
  <2>2. shell[s].pc \in WorkPcs /\ shell[s].role \in Roles /\ "failed" \in Statuses
    BY <1>c, <2>1 DEF WorkPcs, ServerPcs, Statuses
  <2>3. deliveries' \in Seq(Delivery) /\ Len(deliveries') = Len(deliveries)
    BY <1>a, <2>1, <2>2, SetStatusFacts DEF Tables
  <2>4. dropped' \subseteq Ids
    BY <1>a, <1>d, <2>1 DEF Tables
  <2>5. Tables' /\ Len(deliveries) <= Len(deliveries')
    BY <1>a, <1>b, <2>1, <2>3, <2>4 DEF Tables
  <2>6. ShellOK(NextRow(shell[s]), Len(deliveries))
    <3>1. ShellOK(NextRow([shell[s] EXCEPT !.results = shell[s].results]), Len(deliveries))
      <4>1. Len(shell[s].results) <= Len(shell[s].results) + 1
        BY <1>c
      <4> QED BY <1>a, <1>b, <1>c, <2>2, <4>1, NextRowType
    <3>2. [shell[s] EXCEPT !.results = shell[s].results] = shell[s]
      BY <1>c DEF ShellState
    <3> QED BY <3>1, <3>2
  <2>7. ShellOK([Waiting EXCEPT !.pc = "reply", !.role = shell[s].role], Len(deliveries))
    BY <1>b, <1>c, <2>2, FreshType
  <2> HIDE DEF Waiting
  <2> QED BY <1>e, <2>1, <2>3, <2>5, <2>6, <2>7
<1>12. ASSUME NEW s \in Shells, Reply(s) PROVE TypeInv'
  <2> DEFINE name == [Waiting EXCEPT !.pc = "name", !.results = shell[s].results]
  <2>1. /\ UNCHANGED <<open, role, session, inode, meta, blobs, written, sender, downloads, saved, deliveries>>
        /\ shell[s].pc = "reply"
        /\ dropped' = dropped \/ dropped' = dropped \cup Carried(shell[s])
        /\ Become(s, Waiting) \/ (shell[s].results # <<>> /\ Become(s, name))
    BY <1>12 DEF Reply, World, vfs, client
  <2>2. dropped' \subseteq Ids
    BY <1>a, <1>d, <2>1 DEF Tables
  <2>3. Tables' /\ Len(deliveries) <= Len(deliveries') /\ deliveries' = deliveries
    BY <1>a, <1>g, <2>1, <2>2 DEF Tables
  <2>4. shell[s].role \in Roles /\ Len(shell[s].results) <= Len(deliveries)
    <3>1. Len(shell[s].results) + Len(shell[s].todo) <= Len(deliveries) /\ shell[s].role \in Roles
      BY <1>a, <2>1 DEF ShellOK, ServerPcs
    <3>2. Len(shell[s].results) \in Nat /\ Len(shell[s].todo) \in Nat
      BY <1>c, LenProperties
    <3>3. \A a, b, k \in Nat : a + b <= k => a <= k
      OBVIOUS
    <3> QED BY <1>b, <3>1, <3>2, <3>3
  <2>5. ShellOK(Waiting, Len(deliveries)) /\ (shell[s].results # <<>> => ShellOK(name, Len(deliveries)))
    BY <1>b, <1>c, <2>4, FreshType
  <2> HIDE DEF Waiting, name
  <2> QED BY <1>e, <2>1, <2>3, <2>5
\* The client.
<1>13. ASSUME NEW s \in Shells, ChooseName(s) PROVE TypeInv'
  <2> DEFINE st == [shell[s] EXCEPT !.pc = "write", !.counter = FreeNumber(s)]
  <2>1. /\ UNCHANGED <<open, role, session, inode, meta, blobs, written, sender, downloads, saved,
                       deliveries, dropped>>
        /\ shell[s].pc = "name" /\ Become(s, st)
    BY <1>13 DEF ChooseName, ClientVars, accounts, vfs, client
  <2>2. Tables' /\ Len(deliveries) <= Len(deliveries') /\ deliveries' = deliveries
    BY <1>a, <1>g, <2>1 DEF Tables
  <2>3. FreeNumber(s) \in Nat
    BY FreeNumberFacts
  <2>4. /\ st \in ShellState /\ st.pc = "write" /\ st.todo = shell[s].todo
        /\ st.results = shell[s].results
    BY <1>c, <2>3 DEF ShellState, ServerPcs, ClientPcs
  <2> HIDE DEF st
  <2>5. ShellOK(st, Len(deliveries))
    BY <1>a, <2>1, <2>4 DEF ShellOK, Placed, WorkPcs, ServerPcs
  <2> QED BY <1>e, <2>1, <2>2, <2>5
<1>14. ASSUME NEW s \in Shells, WriteFile(s) PROVE TypeInv'
  <2> DEFINE res == shell[s].results
             dest == NameOf(s, shell[s].counter)
             st == [shell[s] EXCEPT !.pc = "name", !.results = Tail(res)]
  <2>1. /\ UNCHANGED <<open, role, session, inode, meta, blobs, written, sender, deliveries>>
        /\ shell[s].pc = "write"
    BY <1>14 DEF WriteFile, ClientVars, accounts, vfs
  <2>2. res # <<>> /\ res \in Seq(Copy)
    BY <1>a, <1>c, <2>1 DEF ShellOK, Placed
  <2>3. /\ Len(res) \in Nat \ {0} /\ Head(res) \in Copy /\ Tail(res) \in Seq(Copy)
        /\ Len(Tail(res)) = Len(res) - 1 /\ (Tail(res) = <<>> <=> Len(res) = 1)
    BY <2>2, TailFacts
  <2>4. CASE /\ downloads' = [n \in DOMAIN downloads \cup {dest} |->
                                IF n = dest THEN Head(res) ELSE downloads[n]]
             /\ saved' = [saved EXCEPT ![s] = Append(@, Head(res).id)]
             /\ Become(s, IF Len(res) = 1 THEN Waiting ELSE st) /\ dropped' = dropped
    <3>1. IsFiniteSet(DOMAIN downloads') /\ \A n \in DOMAIN downloads' : downloads'[n] \in Copy
      <4>1. DOMAIN downloads' = DOMAIN downloads \cup {dest}
        BY <2>4
      <4> HIDE DEF dest
      <4>2. IsFiniteSet(DOMAIN downloads')
        <5>1. IsFiniteSet(DOMAIN downloads)
          BY <1>a DEF Tables
        <5>2. IsFiniteSet(DOMAIN downloads \cup {dest})
          BY <5>1, FS_AddElement
        <5> QED BY <4>1, <5>2
      <4> QED BY <1>a, <2>3, <2>4, <4>2 DEF Tables
    <3>2. saved' \in [Shells -> Seq(Ids)]
      <4>1. Head(res).id \in Ids /\ saved[s] \in Seq(Ids)
        BY <1>a, <2>3 DEF Copy, Tables
      <4>2. Append(saved[s], Head(res).id) \in Seq(Ids)
        BY <4>1, AppendProperties
      <4> HIDE DEF res
      <4> QED BY <1>a, <2>4, <4>2 DEF Tables
    <3>3. Tables' /\ Len(deliveries) <= Len(deliveries') /\ deliveries' = deliveries
      <4>1. UNCHANGED <<open, role, session, inode, meta, blobs, written, sender, deliveries, dropped>>
        BY <2>1, <2>4
      <4>2. Tables'
        BY <1>a, <3>1, <3>2, <4>1 DEF Tables
      <4> QED BY <1>b, <4>1, <4>2
    <3>4. Len(res) # 1 => ShellOK(st, Len(deliveries))
      <4> SUFFICES ASSUME Len(res) # 1 PROVE ShellOK(st, Len(deliveries))
        OBVIOUS
      <4>1. st \in ShellState /\ st.pc = "name" /\ st.todo = shell[s].todo /\ st.results = Tail(res)
        BY <1>c, <2>3 DEF ShellState, ServerPcs, ClientPcs
      <4> HIDE DEF st
      <4>2. /\ Len(res) + Len(st.todo) <= Len(deliveries) /\ Len(st.todo) \in Nat
            /\ Len(st.results) = Len(res) - 1
        BY <1>a, <1>c, <2>3, <4>1, LenProperties DEF ShellOK
      <4>3. \A a, b, k \in Nat : a + b <= k /\ a # 0 => (a - 1) + b <= k
        OBVIOUS
      <4>4. Len(st.results) + Len(st.todo) <= Len(deliveries)
        BY <1>b, <2>3, <4>2, <4>3
      <4> QED BY <1>a, <2>1, <2>3, <4>1, <4>4 DEF ShellOK, Placed, WorkPcs, ServerPcs
    <3>5. ShellOK(Waiting, Len(deliveries))
      BY <1>b, <2>2, <2>3, FreshType, DeliveryAssumption DEF Copy
    <3> HIDE DEF st, res, Waiting
    <3> QED BY <1>e, <2>4, <3>3, <3>4, <3>5
  <2>5. CASE dropped' = dropped \cup Carried(shell[s]) /\ Become(s, Waiting) /\ UNCHANGED client
    <3>1. dropped' \subseteq Ids
      BY <1>a, <1>d, <2>5 DEF Tables
    <3>2. Tables' /\ Len(deliveries) <= Len(deliveries') /\ deliveries' = deliveries
      BY <1>a, <1>g, <2>1, <2>5, <3>1 DEF Tables, client
    <3>3. ShellOK(Waiting, Len(deliveries))
      BY <1>b, <2>2, <2>3, FreshType DEF Copy
    <3> QED BY <1>e, <2>5, <3>2, <3>3
  <2> QED BY <1>14, <2>4, <2>5 DEF WriteFile
<1>15. ASSUME Restart PROVE TypeInv'
  <2>1. /\ UNCHANGED <<open, role, inode, meta, blobs, written, deliveries, downloads, saved>>
        /\ session' = [n \in Names |-> NoRole] /\ sender' = NoSend
        /\ shell' = [s \in Shells |-> IF shell[s].pc \in ServerPcs THEN Waiting ELSE shell[s]]
    BY <1>15 DEF Restart, vfs, client
  <2>2. dropped' \subseteq Ids
    <3>1. dropped' = dropped \cup (UNION {Carried(shell[s]) \cup AtHand(shell[s]) :
                                          s \in {t \in Shells : shell[t].pc \in ServerPcs}})
      BY <1>15 DEF Restart
    <3>2. \A s \in Shells : Carried(shell[s]) \cup AtHand(shell[s]) \subseteq Ids
      BY <1>d
    <3>3. UNION {Carried(shell[s]) \cup AtHand(shell[s]) :
                   s \in {t \in Shells : shell[t].pc \in ServerPcs}} \subseteq Ids
      BY <3>2
    <3>4. dropped \subseteq Ids
      BY <1>a DEF Tables
    <3> QED BY <3>1, <3>3, <3>4
  <2>3. NoSend \in [pc : {"idle"}, to : Names, file : Files]
    BY DeliveryAssumption DEF NoSend
  <2> HIDE DEF NoSend, Waiting
  <2>4. Tables'
    BY <1>a, <2>1, <2>2, <2>3 DEF Tables
  <2>5. ASSUME NEW s \in Shells PROVE ShellOK(shell'[s], Len(deliveries'))
    <3>1. CASE shell[s].pc \in ServerPcs
      <4>1. ShellOK(Waiting, Len(deliveries))
        BY <1>b, <1>c, <3>1, FreshType
      <4> QED BY <2>1, <3>1, <4>1
    <3>2. CASE shell[s].pc \notin ServerPcs
      BY <1>a, <2>1, <3>2
    <3> QED BY <3>1, <3>2
  <2>6. DOMAIN shell' = Shells /\ shell' = [s \in Shells |-> shell'[s]]
    BY <2>1
  <2> QED BY <2>4, <2>5, <2>6 DEF Tables, TypeInv, TypeOK, ShellOK
<1>16. ASSUME UNCHANGED vars PROVE TypeInv'
  <2>1. UNCHANGED <<open, role, session, inode, meta, blobs, written, sender, downloads, saved,
                    deliveries, dropped, shell>>
    BY <1>16 DEF vars, accounts, vfs, client
  <2> QED BY <1>a, <1>f, <1>g, <2>1 DEF Tables
<1>17. CASE Next
  BY <1>17, <1>1, <1>2, <1>3, <1>4, <1>5, <1>6, <1>7, <1>8, <1>9, <1>10, <1>11, <1>12, <1>13, <1>14,
     <1>15 DEF Next, ChangeFiles, Send, Collect, Save
<1> QED BY <1>16, <1>17

\* Tables, folder, requests and clients keep their types, whatever fails and for any
\* number of each (_collect_pending_deliveries, _process_deliveries).
THEOREM TypeCorrect == Spec => []TypeOK
<1>1. TypeInv => TypeOK
  BY DEF TypeInv
<1> QED BY <1>1, TypeInit, TypeNext, PTL DEF Spec

-----------------------------------------------------------------------------
(* What a shell has, gets and is about to get                              *)

Distinct(p) == \A i, j \in 1 .. Len(p) : p[i] = p[j] => i = j
Apart(p, q) == \A i \in 1 .. Len(p), j \in 1 .. Len(q) : p[i] # q[j]

\* The rows are the recipient's.
Owned(q, n, rows) == \A i \in 1 .. Len(q) : q[i] \in 1 .. Len(rows) /\ rows[q[i]].to = n

\* The rows have left the state in which they are selected.
Left(q, rows) == \A i \in 1 .. Len(q) : rows[q[i]].status # "pending"

\* No row is twice among what the shell of user n has saved, what the response carries
\* and what is left to be done; what it has or gets is not selected again.
Lists(past, got, todo, n, rows) ==
  /\ Distinct(past) /\ Distinct(got) /\ Distinct(todo)
  /\ Apart(past, got) /\ Apart(past, todo) /\ Apart(got, todo)
  /\ Owned(past, n, rows) /\ Owned(got, n, rows) /\ Owned(todo, n, rows)
  /\ Left(past, rows) /\ Left(got, rows)

\* Rows are added, and keep what they say but for the status, which does not go back.
RowsKept(rows, new) ==
  /\ Len(rows) \in Nat /\ Len(new) \in Nat /\ Len(rows) <= Len(new)
  /\ \A i \in 1 .. Len(rows) :
       /\ new[i].to = rows[i].to /\ new[i].file = rows[i].file /\ new[i].unmasked = rows[i].unmasked
       /\ rows[i].status # "pending" => new[i].status # "pending"

LEMMA ListsKept ==
  ASSUME NEW past, NEW got, NEW todo, NEW n, NEW rows, NEW new,
         Lists(past, got, todo, n, rows), RowsKept(rows, new)
  PROVE  Lists(past, got, todo, n, new)
<1>1. \A q : Owned(q, n, rows) => Owned(q, n, new)
  BY DEF Owned, RowsKept
<1>2. \A q : Owned(q, n, rows) /\ Left(q, rows) => Left(q, new)
  BY DEF Owned, Left, RowsKept
<1> QED BY <1>1, <1>2 DEF Lists

LEMMA ListsTail ==
  ASSUME NEW S, NEW q \in Seq(S), q # <<>>, Distinct(q)
  PROVE  /\ Distinct(Tail(q))
         /\ \A i \in 1 .. Len(Tail(q)) : Tail(q)[i] # Head(q)
         /\ \A i \in 1 .. Len(Tail(q)) : \E j \in 1 .. Len(q) : Tail(q)[i] = q[j]
         /\ \E j \in 1 .. Len(q) : Head(q) = q[j]
<1>1. /\ Len(q) \in Nat \ {0} /\ Head(q) = q[1] /\ Len(Tail(q)) = Len(q) - 1
      /\ \A i \in 1 .. Len(q) - 1 : Tail(q)[i] = q[i + 1]
  BY TailFacts
<1>2. \A i \in 1 .. Len(Tail(q)) : i + 1 \in 1 .. Len(q) /\ Tail(q)[i] = q[i + 1] /\ i + 1 # 1
  BY <1>1
<1>3. 1 \in 1 .. Len(q)
  BY <1>1
<1>4. Distinct(Tail(q))
  <2> SUFFICES ASSUME NEW i \in 1 .. Len(Tail(q)), NEW j \in 1 .. Len(Tail(q)), Tail(q)[i] = Tail(q)[j]
               PROVE  i = j
    BY DEF Distinct
  <2>1. i + 1 = j + 1
    BY <1>2 DEF Distinct
  <2> QED BY <1>1, <2>1
<1>5. \A i \in 1 .. Len(Tail(q)) : Tail(q)[i] # Head(q)
  BY <1>1, <1>2, <1>3 DEF Distinct
<1> QED BY <1>1, <1>2, <1>3, <1>4, <1>5

LEMMA ListsAppend ==
  ASSUME NEW S, NEW q \in Seq(S), NEW x \in S, Distinct(q), \A i \in 1 .. Len(q) : q[i] # x
  PROVE  /\ Distinct(Append(q, x))
         /\ \A i \in 1 .. Len(Append(q, x)) :
              Append(q, x)[i] = x \/ \E j \in 1 .. Len(q) : Append(q, x)[i] = q[j]
<1> DEFINE new == Append(q, x)
<1>1. /\ Len(q) \in Nat /\ Len(new) = Len(q) + 1 /\ new[Len(q) + 1] = x
      /\ \A i \in 1 .. Len(q) : new[i] = q[i]
  BY AppendFacts
<1> HIDE DEF new
<1>2. \A i \in 1 .. Len(new) : (i \in 1 .. Len(q) /\ new[i] = q[i]) \/ (i = Len(q) + 1 /\ new[i] = x)
  BY <1>1
<1>3. Distinct(new)
  BY <1>2 DEF Distinct
<1> QED BY <1>2, <1>3 DEF new

\* A row is dealt with and leads to no file.
LEMMA ListsDrop ==
  ASSUME NEW past \in Seq(Ids), NEW got \in Seq(Ids), NEW todo \in Seq(Ids), todo # <<>>,
         NEW n, NEW rows, Lists(past, got, todo, n, rows)
  PROVE  Lists(past, got, Tail(todo), n, rows)
<1>1. /\ Distinct(Tail(todo))
      /\ \A i \in 1 .. Len(Tail(todo)) : \E j \in 1 .. Len(todo) : Tail(todo)[i] = todo[j]
  BY ListsTail DEF Lists
<1>2. Owned(Tail(todo), n, rows)
  BY <1>1 DEF Lists, Owned
<1>3. Apart(past, Tail(todo)) /\ Apart(got, Tail(todo))
  BY <1>1 DEF Lists, Apart
<1> QED BY <1>1, <1>2, <1>3 DEF Lists

\* A row that was marked adds its file to the response.
LEMMA ListsCollect ==
  ASSUME NEW past \in Seq(Ids), NEW got \in Seq(Ids), NEW todo \in Seq(Ids), todo # <<>>,
         NEW n, NEW rows, Lists(past, got, todo, n, rows), rows[Head(todo)].status # "pending"
  PROVE  Lists(past, Append(got, Head(todo)), Tail(todo), n, rows)
<1> DEFINE x == Head(todo)
           new == Append(got, x)
<1>1. /\ \A i \in 1 .. Len(Tail(todo)) : Tail(todo)[i] # x
      /\ \E j \in 1 .. Len(todo) : x = todo[j]
  BY ListsTail DEF Lists
<1>2. Lists(past, got, Tail(todo), n, rows)
  BY ListsDrop
<1>3. x \in Ids /\ \A i \in 1 .. Len(got) : got[i] # x
  BY <1>1, TailFacts DEF Lists, Apart
<1> HIDE DEF x
<1>4. /\ Distinct(new)
      /\ \A i \in 1 .. Len(new) : new[i] = x \/ \E j \in 1 .. Len(got) : new[i] = got[j]
  BY <1>2, <1>3, ListsAppend DEF Lists
<1> HIDE DEF new
<1>5. Owned(new, n, rows) /\ Left(new, rows)
  BY <1>1, <1>4 DEF Lists, Owned, Left, x
<1>6. Apart(past, new) /\ Apart(new, Tail(todo))
  BY <1>1, <1>2, <1>4 DEF Lists, Apart
<1> QED BY <1>2, <1>4, <1>5, <1>6 DEF Lists, new, x

\* A file is saved.
LEMMA ListsSave ==
  ASSUME NEW past \in Seq(Ids), NEW got \in Seq(Ids), NEW todo \in Seq(Ids), got # <<>>,
         NEW n, NEW rows, Lists(past, got, todo, n, rows)
  PROVE  Lists(Append(past, Head(got)), Tail(got), todo, n, rows)
<1> DEFINE x == Head(got)
           new == Append(past, x)
<1>1. /\ Distinct(Tail(got)) /\ \A i \in 1 .. Len(Tail(got)) : Tail(got)[i] # x
      /\ \A i \in 1 .. Len(Tail(got)) : \E j \in 1 .. Len(got) : Tail(got)[i] = got[j]
      /\ \E j \in 1 .. Len(got) : x = got[j]
  BY ListsTail DEF Lists
<1>2. x \in Ids /\ \A i \in 1 .. Len(past) : past[i] # x
  BY <1>1, TailFacts DEF Lists, Apart
<1> HIDE DEF x
<1>3. /\ Distinct(new)
      /\ \A i \in 1 .. Len(new) : new[i] = x \/ \E j \in 1 .. Len(past) : new[i] = past[j]
  BY <1>2, ListsAppend DEF Lists
<1> HIDE DEF new
<1>4. Owned(new, n, rows) /\ Left(new, rows) /\ Owned(Tail(got), n, rows) /\ Left(Tail(got), rows)
  <2>1. x \in 1 .. Len(rows) /\ rows[x].to = n /\ rows[x].status # "pending"
    BY <1>1 DEF Lists, Owned, Left
  <2>2. Owned(new, n, rows) /\ Left(new, rows)
    BY <1>3, <2>1 DEF Lists, Owned, Left
  <2>3. Owned(Tail(got), n, rows) /\ Left(Tail(got), rows)
    BY <1>1 DEF Lists, Owned, Left
  <2> QED BY <2>2, <2>3
<1>5. Apart(new, Tail(got)) /\ Apart(new, todo) /\ Apart(Tail(got), todo)
  BY <1>1, <1>3 DEF Lists, Apart
<1> QED BY <1>1, <1>3, <1>4, <1>5 DEF Lists, new, x

\* What a shell has already saved is never pending: a SELECT returns other rows.
LEMMA ListsSelect ==
  ASSUME deliveries \in Seq(Delivery), NEW past \in Seq(Ids), NEW todo \in Seq(Ids), NEW n,
         Lists(past, <<>>, <<>>, n, deliveries), ToSet(todo) = Pending(n), OldestFirst(todo)
  PROVE  Lists(past, <<>>, todo, n, deliveries)
<1>1. /\ DOMAIN deliveries = 1 .. Len(deliveries) /\ DOMAIN todo = 1 .. Len(todo)
      /\ Len(todo) \in Nat /\ Len(<<>>) = 0
  BY LenProperties, EmptySeq
<1>2. \A i \in 1 .. Len(todo) : todo[i] \in Pending(n)
  BY <1>1 DEF ToSet
<1>3. Owned(todo, n, deliveries) /\ \A i \in 1 .. Len(todo) : deliveries[todo[i]].status = "pending"
  BY <1>1, <1>2 DEF Owned, Pending
<1>4. Distinct(todo)
  <2> SUFFICES ASSUME NEW i \in 1 .. Len(todo), NEW j \in 1 .. Len(todo), todo[i] = todo[j], i # j
               PROVE  FALSE
    BY DEF Distinct
  <2>1. i < j \/ j < i
    BY <1>1
  <2>2. todo[i] \in Nat
    <3>1. todo[i] \in Ids
      BY ElementOfSeq
    <3> QED BY <3>1, DeliveryAssumption DEF Ids
  <2> QED BY <2>1, <2>2 DEF OldestFirst
<1>5. Apart(past, todo)
  BY <1>3 DEF Lists, Left, Apart
<1>6. Apart(<<>>, todo)
  BY <1>1 DEF Apart
<1> QED BY <1>3, <1>4, <1>5, <1>6 DEF Lists

LEMMA ListsEmpty ==
  ASSUME NEW past, NEW got, NEW todo, NEW n, NEW rows, Lists(past, got, todo, n, rows)
  PROVE  Lists(past, <<>>, <<>>, n, rows) /\ Lists(past, got, <<>>, n, rows)
<1>1. Len(<<>>) = 0
  BY EmptySeq
<1> QED BY <1>1 DEF Lists, Distinct, Apart, Owned, Left

-----------------------------------------------------------------------------
(* The files of a response                                                 *)

IdsOf(files) == [i \in 1 .. Len(files) |-> files[i].id]

LEMMA IdsOfFacts ==
  ASSUME NEW files \in Seq(Copy)
  PROVE  /\ IdsOf(files) \in Seq(Ids) /\ Len(IdsOf(files)) = Len(files)
         /\ \A i \in 1 .. Len(files) : IdsOf(files)[i] = files[i].id
         /\ (files = <<>> <=> IdsOf(files) = <<>>)
<1>1. Len(files) \in Nat /\ \A i \in 1 .. Len(files) : files[i].id \in Ids
  <2>1. \A i \in 1 .. Len(files) : files[i] \in Copy
    BY ElementOfSeq
  <2> QED BY <2>1, LenProperties DEF Copy
<1>2. IdsOf(files) \in [1 .. Len(files) -> Ids]
  BY <1>1 DEF IdsOf
<1>3. IdsOf(files) \in Seq(Ids) /\ Len(IdsOf(files)) = Len(files)
  BY <1>1, <1>2, SeqDef
<1>4. files = <<>> <=> IdsOf(files) = <<>>
  BY <1>3, EmptySeq
<1> QED BY <1>3, <1>4 DEF IdsOf

LEMMA IdsOfAppend ==
  ASSUME NEW files \in Seq(Copy), NEW c \in Copy
  PROVE  IdsOf(Append(files, c)) = Append(IdsOf(files), c.id)
<1> DEFINE a == IdsOf(Append(files, c))
           b == Append(IdsOf(files), c.id)
<1>1. c.id \in Ids
  BY DEF Copy
<1>2. /\ Append(files, c) \in Seq(Copy) /\ Len(files) \in Nat /\ Len(Append(files, c)) = Len(files) + 1
      /\ \A i \in 1 .. Len(files) : Append(files, c)[i] = files[i]
      /\ Append(files, c)[Len(files) + 1] = c
  BY AppendFacts
<1>3. /\ IdsOf(files) \in Seq(Ids) /\ Len(IdsOf(files)) = Len(files)
      /\ \A i \in 1 .. Len(files) : IdsOf(files)[i] = files[i].id
  BY IdsOfFacts
<1>4. /\ a \in Seq(Ids) /\ Len(a) = Len(files) + 1
      /\ \A i \in 1 .. Len(files) + 1 : a[i] = Append(files, c)[i].id
  BY <1>2, IdsOfFacts
<1>5. /\ b \in Seq(Ids) /\ Len(b) = Len(files) + 1 /\ b[Len(files) + 1] = c.id
      /\ \A i \in 1 .. Len(files) : b[i] = files[i].id
  BY <1>1, <1>3, AppendFacts
<1> HIDE DEF a, b
<1>6. \A i \in 1 .. Len(a) : a[i] = b[i]
  <2> SUFFICES ASSUME NEW i \in 1 .. Len(a) PROVE a[i] = b[i]
    OBVIOUS
  <2>1. i \in 1 .. Len(files) \/ i = Len(files) + 1
    BY <1>2, <1>4
  <2> QED BY <1>2, <1>4, <1>5, <2>1
<1>7. a = b
  BY <1>4, <1>5, <1>6, SeqEqual
<1> QED BY <1>7 DEF a, b

LEMMA IdsOfTail ==
  ASSUME NEW files \in Seq(Copy), files # <<>>
  PROVE  IdsOf(Tail(files)) = Tail(IdsOf(files)) /\ Head(IdsOf(files)) = Head(files).id
<1> DEFINE a == IdsOf(Tail(files))
           b == Tail(IdsOf(files))
           r == IdsOf(files)
<1>1. /\ Len(files) \in Nat \ {0} /\ Head(files) = files[1] /\ Tail(files) \in Seq(Copy)
      /\ Len(Tail(files)) = Len(files) - 1
      /\ \A i \in 1 .. Len(files) - 1 : Tail(files)[i] = files[i + 1]
  BY TailFacts
<1>2. r \in Seq(Ids) /\ Len(r) = Len(files) /\ r # <<>> /\ \A i \in 1 .. Len(files) : r[i] = files[i].id
  BY IdsOfFacts
<1> HIDE DEF r
<1>3. /\ Head(r) = r[1] /\ Tail(r) \in Seq(Ids) /\ Len(Tail(r)) = Len(r) - 1
      /\ \A i \in 1 .. Len(r) - 1 : Tail(r)[i] = r[i + 1]
  BY <1>2, TailFacts
<1>4. a \in Seq(Ids) /\ Len(a) = Len(files) - 1 /\ \A i \in 1 .. Len(files) - 1 : a[i] = Tail(files)[i].id
  BY <1>1, IdsOfFacts
<1> HIDE DEF a
<1>5. \A i \in 1 .. Len(files) - 1 : i + 1 \in 1 .. Len(files)
  BY <1>1
<1>6. a = Tail(r)
  BY <1>1, <1>2, <1>3, <1>4, <1>5, SeqEqual
<1>7. 1 \in 1 .. Len(files)
  BY <1>1
<1> QED BY <1>1, <1>2, <1>3, <1>6, <1>7 DEF a, r

\* The rows whose files a response carries.
LEMMA CarriedIds ==
  ASSUME NEW st \in ShellState
  PROVE  Carried(st) = {IdsOf(st.results)[i] : i \in 1 .. Len(st.results)}
<1>1. st.results \in Seq(Copy) /\ DOMAIN st.results = 1 .. Len(st.results)
  BY LenProperties DEF ShellState
<1> QED BY <1>1, IdsOfFacts DEF Carried

-----------------------------------------------------------------------------
(* No file twice                                                           *)

\* The file being prepared is the one of the row at hand; a row is marked before
\* its outcome is logged.
Marking(st, rows) ==
  /\ st.pc = "mark" => st.outcome # "pending"
  /\ st.pc \in {"mark", "log"} /\ st.outcome = "delivered" => st.copy.id = Head(st.todo)
  /\ st.pc = "log" => rows[Head(st.todo)].status # "pending"

LedgerOK(past, st, n, rows) ==
  Lists(past, IdsOf(st.results), st.todo, n, rows) /\ Marking(st, rows)

Ledger == \A s \in Shells : LedgerOK(saved[s], shell[s], Owner[s], deliveries)

LEMMA LedgerInit == Init => Ledger
<1> SUFFICES ASSUME Init, NEW s \in Shells PROVE LedgerOK(<<>>, Waiting, Owner[s], deliveries)
  BY DEF Init, Ledger
<1>1. Waiting.pc = "ask" /\ Waiting.todo = <<>> /\ Waiting.results = <<>>
  BY DEF Waiting
<1>2. IdsOf(<<>>) = <<>> /\ Len(<<>>) = 0
  BY EmptySeq, IdsOfFacts
<1>3. Lists(<<>>, <<>>, <<>>, Owner[s], deliveries)
  BY <1>2 DEF Lists, Distinct, Apart, Owned, Left
<1> QED BY <1>1, <1>2, <1>3 DEF LedgerOK, Marking

\* Every step keeps the rows ...
LEMMA RowsStep == TypeInv /\ Ledger /\ [Next]_vars => RowsKept(deliveries, deliveries')
<1> SUFFICES ASSUME TypeInv, Ledger, [Next]_vars PROVE RowsKept(deliveries, deliveries')
  OBVIOUS
<1>1. deliveries \in Seq(Delivery) /\ Len(deliveries) \in Nat
  BY LenProperties DEF TypeInv, TypeOK
<1>2. CASE UNCHANGED deliveries
  BY <1>1, <1>2 DEF RowsKept
<1>3. ASSUME NEW unmasked \in BOOLEAN, CreateDelivery(unmasked) PROVE RowsKept(deliveries, deliveries')
  <2> DEFINE row == [to |-> sender.to, file |-> sender.file, unmasked |-> unmasked,
                     status |-> "pending"]
  <2>1. deliveries' = Append(deliveries, row)
    BY <1>3 DEF CreateDelivery
  <2>2. row \in Delivery
    <3>1. sender.to \in Names /\ sender.file \in Files
      BY DEF TypeInv, TypeOK
    <3> QED BY <3>1 DEF Delivery, Statuses
  <2> HIDE DEF row
  <2> QED BY <1>1, <2>1, <2>2, AppendFacts DEF RowsKept
<1>4. ASSUME NEW st, NEW status \in Statuses \ {"pending"}, SetStatus(st, status)
      PROVE  RowsKept(deliveries, deliveries')
  BY <1>1, <1>4, SetStatusFacts DEF RowsKept
<1>5. ASSUME NEW s \in Shells, MarkRow(s) \/ MarkFailed(s) PROVE RowsKept(deliveries, deliveries')
  <2>1. shell[s].pc = "mark" => shell[s].outcome \in Statuses \ {"pending"}
    <3>1. shell[s].outcome \in Statuses
      BY DEF TypeInv, TypeOK, ShellState
    <3> QED BY <3>1 DEF Ledger, LedgerOK, Marking
  <2>2. "failed" \in Statuses \ {"pending"}
    BY DEF Statuses
  <2> QED BY <1>2, <1>4, <1>5, <2>1, <2>2 DEF MarkRow, MarkFailed
<1> QED
  BY <1>2, <1>3, <1>5 DEF Next, vars, Login, ChangeAccount, ChangeFiles, UnlinkBlob, NameBlob,
     DeleteRows, Send, SendRequest, CheckTarget, ResolveFile, Restart, Collect, SelectPending, GetInode,
     GetMeta, DecryptAndMask, Local, LogOutcome, Reply, Save, ChooseName, WriteFile, ClientVars, Ask

\* ... so a step has to look at the shell that moves.
LEMMA LedgerFrame ==
  ASSUME TypeInv, Ledger, RowsKept(deliveries, deliveries'), NEW s \in Shells, NEW st, Become(s, st),
         \A u \in Shells \ {s} : saved'[u] = saved[u],
         LedgerOK(saved'[s], st, Owner[s], deliveries')
  PROVE  Ledger'
<1>1. \A u \in Shells : shell'[u] = IF u = s THEN st ELSE shell[u]
  BY DEF Become, TypeInv
<1> SUFFICES ASSUME NEW u \in Shells, u # s
             PROVE  LedgerOK(saved[u], shell[u], Owner[u], deliveries')
  BY <1>1 DEF Ledger
<1>2. LedgerOK(saved[u], shell[u], Owner[u], deliveries)
  BY DEF Ledger
<1>3. Lists(saved[u], IdsOf(shell[u].results), shell[u].todo, Owner[u], deliveries')
  BY <1>2, ListsKept DEF LedgerOK
<1>4. shell[u].pc = "log" => deliveries'[Head(shell[u].todo)].status # "pending"
  <2> SUFFICES ASSUME shell[u].pc = "log" PROVE deliveries'[Head(shell[u].todo)].status # "pending"
    OBVIOUS
  <2>1. Head(shell[u].todo) \in 1 .. Len(deliveries)
    BY HeadTailProperties DEF TypeInv, Placed, WorkPcs
  <2> QED BY <1>2, <2>1 DEF LedgerOK, Marking, RowsKept
<1> QED BY <1>2, <1>3, <1>4 DEF LedgerOK, Marking

\* The three ways in which a shell's lists change little.
LEMMA LedgerShell ==
  ASSUME NEW past \in Seq(Ids), NEW old \in ShellState, NEW n, NEW rows, NEW new,
         LedgerOK(past, old, n, rows), RowsKept(rows, new), NEW st, Marking(st, new)
  PROVE  /\ st.results = old.results /\ st.todo = old.todo => LedgerOK(past, st, n, new)
         /\ st.results = old.results /\ st.todo = <<>> => LedgerOK(past, st, n, new)
         /\ st.results = <<>> /\ st.todo = <<>> => LedgerOK(past, st, n, new)
<1>1. Lists(past, IdsOf(old.results), old.todo, n, new)
  BY ListsKept DEF LedgerOK
<1>2. Lists(past, IdsOf(old.results), <<>>, n, new) /\ Lists(past, <<>>, <<>>, n, new)
  BY <1>1, ListsEmpty
<1>3. IdsOf(<<>>) = <<>>
  BY EmptySeq, IdsOfFacts
<1> QED BY <1>1, <1>2, <1>3 DEF LedgerOK

\* The next row: with the file of the one that was delivered, or without.
LEMMA LedgerNextRow ==
  ASSUME NEW past \in Seq(Ids), NEW st \in ShellState, st.todo # <<>>, NEW n, NEW rows,
         Lists(past, IdsOf(st.results), st.todo, n, rows), NEW res \in Seq(Copy),
         \/ res = st.results
         \/ /\ res = Append(st.results, st.copy) /\ st.copy.id = Head(st.todo)
            /\ rows[Head(st.todo)].status # "pending"
  PROVE  LedgerOK(past, NextRow([st EXCEPT !.results = res]), n, rows)
<1> DEFINE mid == [st EXCEPT !.results = res]
           new == NextRow(mid)
<1>1. mid \in ShellState /\ mid.todo = st.todo /\ mid.results = res
  BY DEF ShellState
<1> HIDE DEF mid
<1>2. new.todo = Tail(st.todo) /\ new.results = res /\ new.pc \in {"reply", "inode"}
  BY <1>1 DEF NextRow, ShellState
<1>3. IdsOf(st.results) \in Seq(Ids) /\ st.todo \in Seq(Ids) /\ st.results \in Seq(Copy) /\ st.copy \in Copy
  BY IdsOfFacts DEF ShellState
<1>4. Lists(past, IdsOf(res), Tail(st.todo), n, rows)
  <2>1. CASE res = st.results
    BY <1>3, <2>1, ListsDrop
  <2>2. CASE /\ res = Append(st.results, st.copy) /\ st.copy.id = Head(st.todo)
             /\ rows[Head(st.todo)].status # "pending"
    <3>1. IdsOf(res) = Append(IdsOf(st.results), Head(st.todo))
      BY <1>3, <2>2, IdsOfAppend
    <3> QED BY <1>3, <2>2, <3>1, ListsCollect
  <2> QED BY <2>1, <2>2
<1> HIDE DEF new
<1>5. LedgerOK(past, new, n, rows)
  BY <1>2, <1>4 DEF LedgerOK, Marking
<1> QED BY <1>5 DEF new, mid

LEMMA LedgerNext == TypeInv /\ Ledger /\ [Next]_vars => Ledger'
<1> SUFFICES ASSUME TypeInv, Ledger, [Next]_vars PROVE Ledger'
  OBVIOUS
<1>a. RowsKept(deliveries, deliveries')
  BY RowsStep
<1>b. /\ \A s \in Shells : shell[s] \in ShellState /\ saved[s] \in Seq(Ids) /\ Placed(shell[s])
      /\ \A s \in Shells : LedgerOK(saved[s], shell[s], Owner[s], deliveries)
      /\ deliveries \in Seq(Delivery)
  BY DEF TypeInv, TypeOK, Ledger
\* Nothing is saved, and shell s comes to st.
<1>c. ASSUME NEW s \in Shells, NEW st, Become(s, st), UNCHANGED saved,
             LedgerOK(saved[s], st, Owner[s], deliveries')
      PROVE  Ledger'
  BY <1>a, <1>c, LedgerFrame
<1>d. ASSUME NEW s \in Shells, NEW st, Become(s, st), UNCHANGED saved, Marking(st, deliveries'),
             \/ st.todo = <<>> /\ st.results \in {<<>>, shell[s].results}
             \/ st.todo = shell[s].todo /\ st.results = shell[s].results
      PROVE  Ledger'
  BY <1>a, <1>b, <1>c, <1>d, LedgerShell
\* The shells stand still, or some lose their requests.
<1>1. ASSUME NEW lost \in SUBSET Shells, UNCHANGED saved,
             \A s \in Shells : shell'[s] = IF s \in lost THEN Waiting ELSE shell[s]
      PROVE  Ledger'
  <2> SUFFICES ASSUME NEW s \in Shells PROVE LedgerOK(saved[s], shell'[s], Owner[s], deliveries')
    BY <1>1 DEF Ledger
  <2>1. CASE s \in lost
    <3>1. Waiting.todo = <<>> /\ Waiting.results = <<>> /\ Waiting.pc = "ask"
      BY DEF Waiting
    <3> HIDE DEF Waiting
    <3>2. Marking(Waiting, deliveries')
      BY <3>1 DEF Marking
    <3> QED BY <1>1, <1>a, <1>b, <2>1, <3>1, <3>2, LedgerShell
  <2>2. CASE s \notin lost
    <3>1. shell[s].pc = "log" => Head(shell[s].todo) \in 1 .. Len(deliveries)
      BY HeadTailProperties DEF TypeInv, Placed, WorkPcs
    <3>2. Marking(shell[s], deliveries')
      BY <1>a, <1>b, <3>1 DEF LedgerOK, Marking, RowsKept
    <3> QED BY <1>1, <1>a, <1>b, <2>2, <3>2, LedgerShell
  <2> QED BY <2>1, <2>2
<1>2. ASSUME \/ \E n \in Names : Login(n)
             \/ \E n \in Names, r \in Roles \cup {NoRole} : ChangeAccount(n, r)
             \/ ChangeFiles \/ Send \/ UNCHANGED vars
      PROVE  Ledger'
  <2>1. UNCHANGED <<shell, saved>>
    BY <1>2 DEF Login, ChangeAccount, ChangeFiles, UnlinkBlob, NameBlob, DeleteRows, Send, SendRequest,
       CheckTarget, ResolveFile, CreateDelivery, SendVars, vars, client
  <2>2. {} \in SUBSET Shells /\ \A s \in Shells : s \notin {}
    OBVIOUS
  <2>3. \A s \in Shells : shell'[s] = IF s \in {} THEN Waiting ELSE shell[s]
    BY <2>1, <2>2
  <2> QED BY <1>1, <2>1, <2>2, <2>3
<1>3. ASSUME Restart PROVE Ledger'
  <2>1. UNCHANGED saved
    BY <1>3 DEF Restart, client
  <2>2. shell' = [s \in Shells |-> IF shell[s].pc \in ServerPcs THEN Waiting ELSE shell[s]]
    BY <1>3 DEF Restart
  <2>3. \A s \in Shells : shell'[s] = IF s \in {t \in Shells : shell[t].pc \in ServerPcs}
                                      THEN Waiting ELSE shell[s]
    BY <2>2
  <2> QED BY <1>1, <2>1, <2>3
<1>4. ASSUME NEW s \in Shells, NEW command, Ask(s, command) PROVE Ledger'
  <2> DEFINE st == [Waiting EXCEPT !.pc = "select", !.role = session[Owner[s]]]
  <2>1. Become(s, st) /\ UNCHANGED saved
    BY <1>4 DEF Ask, World, client
  <2>2. st.todo = <<>> /\ st.results = <<>> /\ st.pc = "select"
    BY DEF Waiting
  <2> HIDE DEF st
  <2>3. Marking(st, deliveries')
    BY <2>2 DEF Marking
  <2> QED BY <1>d, <2>1, <2>2, <2>3
<1>5. ASSUME NEW s \in Shells, SelectPending(s) PROVE Ledger'
  <2>1. PICK todo \in SeqOf(Ids, Len(deliveries)) :
          /\ ToSet(todo) = Pending(Owner[s]) /\ OldestFirst(todo)
          /\ Become(s, [shell[s] EXCEPT !.todo = todo, !.pc = IF todo = <<>> THEN "reply" ELSE "inode"])
    BY <1>5 DEF SelectPending
  <2> DEFINE st == [shell[s] EXCEPT !.todo = todo, !.pc = IF todo = <<>> THEN "reply" ELSE "inode"]
  <2>2. UNCHANGED <<deliveries, saved>> /\ shell[s].pc = "select"
    BY <1>5 DEF SelectPending, World, client
  <2>3. todo \in Seq(Ids)
    <3>1. PICK m \in 0 .. Len(deliveries) : todo \in [1 .. m -> Ids]
      BY DEF SeqOf
    <3>2. m \in Nat
      BY <1>b, <3>1, LenProperties
    <3> QED BY <3>1, <3>2, SeqDef
  <2>4. st.todo = todo /\ st.results = shell[s].results /\ st.pc \in {"reply", "inode"}
    BY <1>b DEF ShellState
  <2>5. shell[s].results = <<>> /\ IdsOf(<<>>) = <<>>
    BY <1>b, <2>2, EmptySeq, IdsOfFacts DEF Placed
  <2> HIDE DEF st
  <2>6. Lists(saved[s], <<>>, todo, Owner[s], deliveries)
    <3>1. Lists(saved[s], <<>>, shell[s].todo, Owner[s], deliveries)
      BY <1>b, <2>5 DEF LedgerOK
    <3>2. Lists(saved[s], <<>>, <<>>, Owner[s], deliveries)
      BY <3>1, ListsEmpty
    <3> QED BY <1>b, <2>1, <2>3, <3>2, ListsSelect
  <2>7. LedgerOK(saved[s], st, Owner[s], deliveries)
    BY <2>4, <2>5, <2>6 DEF LedgerOK, Marking
  <2> QED BY <1>c, <2>1, <2>2, <2>7 DEF st
<1>6. ASSUME NEW s \in Shells, GetInode(s) \/ GetMeta(s) \/ DecryptAndMask(s) PROVE Ledger'
  <2>1. UNCHANGED <<deliveries, saved>>
    BY <1>6 DEF GetInode, GetMeta, DecryptAndMask, Local, World, client
  <2>2. ASSUME NEW st, Become(s, st), st.todo = shell[s].todo, st.results = shell[s].results,
               st.pc \in {"meta", "open", "fail", "mark"},
               st.pc = "mark" => \/ st.outcome = "skipped"
                                 \/ st.outcome = "delivered" /\ st.copy.id = Head(st.todo)
        PROVE  Ledger'
    <3>1. Marking(st, deliveries')
      BY <2>2 DEF Marking
    <3> QED BY <1>d, <2>1, <2>2, <3>1
  <2> DEFINE at(pc) == [shell[s] EXCEPT !.pc = pc]
  <2>3. \A pc : at(pc).pc = pc /\ at(pc).todo = shell[s].todo /\ at(pc).results = shell[s].results
    BY <1>b DEF ShellState
  <2>4. CASE GetInode(s)
    <3> DEFINE st == [shell[s] EXCEPT !.pc = "mark", !.outcome = "skipped"]
    <3>1. Become(s, at("meta")) \/ Become(s, st)
      BY <2>4 DEF GetInode
    <3>2. st.pc = "mark" /\ st.outcome = "skipped" /\ st.todo = shell[s].todo /\ st.results = shell[s].results
      BY <1>b DEF ShellState
    <3> HIDE DEF st, at
    <3> QED BY <2>2, <2>3, <3>1, <3>2
  <2>5. CASE GetMeta(s)
    <3> DEFINE st == [shell[s] EXCEPT !.pc = "open", !.blob = meta[Row(shell[s]).file]]
    <3>1. Become(s, at("fail")) \/ Become(s, st)
      BY <2>5 DEF GetMeta
    <3>2. st.pc = "open" /\ st.todo = shell[s].todo /\ st.results = shell[s].results
      BY <1>b DEF ShellState
    <3> HIDE DEF st, at
    <3> QED BY <2>2, <2>3, <3>1, <3>2
  <2>6. CASE DecryptAndMask(s)
    <3>1. PICK masked \in BOOLEAN : Become(s, at("fail")) \/ Become(s, Prepare(shell[s], masked))
      BY <2>6 DEF DecryptAndMask
    <3> DEFINE st == Prepare(shell[s], masked)
    <3>2. Payload(shell[s], masked).id = Head(shell[s].todo)
      BY DEF Payload
    <3>3. /\ st.pc = "mark" /\ st.todo = shell[s].todo /\ st.results = shell[s].results
          /\ st.outcome = "delivered" /\ st.copy = Payload(shell[s], masked)
      BY <1>b DEF Prepare, ShellState
    <3> HIDE DEF st, at
    <3> QED BY <2>2, <2>3, <3>1, <3>2, <3>3 DEF st
  <2> QED BY <1>6, <2>4, <2>5, <2>6
<1>7. ASSUME NEW s \in Shells, MarkRow(s) PROVE Ledger'
  <2>1. /\ UNCHANGED saved /\ shell[s].pc = "mark"
        /\ \/ SetStatus(shell[s], shell[s].outcome) /\ Become(s, [shell[s] EXCEPT !.pc = "log"])
           \/ Become(s, [shell[s] EXCEPT !.pc = "fail"])
    BY <1>7 DEF MarkRow, World, client, Goto
  <2>2. /\ shell[s].outcome \in Statuses \ {"pending"} /\ Head(shell[s].todo) \in 1 .. Len(deliveries)
        /\ shell[s].outcome = "delivered" => shell[s].copy.id = Head(shell[s].todo)
    <3>1. shell[s].todo \in Seq(1 .. Len(deliveries)) /\ shell[s].todo # <<>>
      BY <1>b, <2>1 DEF TypeInv, Placed, WorkPcs
    <3> QED BY <1>b, <2>1, <3>1, HeadTailProperties DEF LedgerOK, Marking, ShellState
  <2>3. ASSUME SetStatus(shell[s], shell[s].outcome)
        PROVE  deliveries'[Head(shell[s].todo)].status # "pending"
    BY <1>b, <2>2, <2>3, SetStatusFacts
  <2>4. ASSUME NEW pc \in {"log", "fail"}, Become(s, [shell[s] EXCEPT !.pc = pc]),
               pc = "log" => SetStatus(shell[s], shell[s].outcome)
        PROVE  Ledger'
    <3> DEFINE st == [shell[s] EXCEPT !.pc = pc]
    <3>1. /\ st.pc = pc /\ st.todo = shell[s].todo /\ st.results = shell[s].results
          /\ st.outcome = shell[s].outcome /\ st.copy = shell[s].copy
      BY <1>b DEF ShellState
    <3> HIDE DEF st
    <3>2. Marking(st, deliveries')
      BY <2>2, <2>3, <2>4, <3>1 DEF Marking
    <3> QED BY <1>d, <2>1, <2>4, <3>1, <3>2 DEF st
  <2> QED BY <2>1, <2>4
<1>8. ASSUME NEW s \in Shells, LogOutcome(s) PROVE Ledger'
  <2>1. /\ UNCHANGED <<deliveries, saved>> /\ shell[s].pc = "log"
        /\ \/ Become(s, NextRow([shell[s] EXCEPT !.results = Collected(shell[s])]))
           \/ Become(s, [shell[s] EXCEPT !.pc = "fail"])
    BY <1>8 DEF LogOutcome, World, client, Goto
  <2>2. /\ shell[s].todo # <<>> /\ deliveries[Head(shell[s].todo)].status # "pending"
        /\ shell[s].outcome = "delivered" => shell[s].copy.id = Head(shell[s].todo)
        /\ shell[s].copy \in Copy /\ shell[s].results \in Seq(Copy)
    BY <1>b, <2>1 DEF LedgerOK, Marking, Placed, WorkPcs, ShellState
  <2>3. CASE Become(s, NextRow([shell[s] EXCEPT !.results = Collected(shell[s])]))
    <3>1. Append(shell[s].results, shell[s].copy) \in Seq(Copy)
      BY <2>2, AppendFacts
    <3>2. LedgerOK(saved[s], NextRow([shell[s] EXCEPT !.results = Collected(shell[s])]), Owner[s], deliveries)
      BY <1>b, <2>2, <3>1, LedgerNextRow DEF Collected, LedgerOK
    <3> QED BY <1>c, <2>1, <2>3, <3>2
  <2>4. CASE Become(s, [shell[s] EXCEPT !.pc = "fail"])
    <3> DEFINE st == [shell[s] EXCEPT !.pc = "fail"]
    <3>1. st.pc = "fail" /\ st.todo = shell[s].todo /\ st.results = shell[s].results
      BY <1>b DEF ShellState
    <3> HIDE DEF st
    <3>2. Marking(st, deliveries')
      BY <3>1 DEF Marking
    <3> QED BY <1>d, <2>1, <2>4, <3>1, <3>2 DEF st
  <2> QED BY <2>1, <2>3, <2>4
<1>9. ASSUME NEW s \in Shells, MarkFailed(s) PROVE Ledger'
  <2>1. /\ UNCHANGED saved /\ shell[s].pc = "fail"
        /\ \/ Become(s, NextRow(shell[s]))
           \/ Become(s, [Waiting EXCEPT !.pc = "reply", !.role = shell[s].role])
    BY <1>9 DEF MarkFailed, World, client
  <2>2. CASE Become(s, NextRow(shell[s]))
    <3>1. shell[s].todo # <<>> /\ shell[s].results \in Seq(Copy)
      BY <1>b, <2>1 DEF Placed, WorkPcs, ShellState
    <3>2. Lists(saved[s], IdsOf(shell[s].results), shell[s].todo, Owner[s], deliveries')
      BY <1>a, <1>b, ListsKept DEF LedgerOK
    <3>3. LedgerOK(saved[s], NextRow([shell[s] EXCEPT !.results = shell[s].results]), Owner[s], deliveries')
      BY <1>b, <3>1, <3>2, LedgerNextRow
    <3>4. [shell[s] EXCEPT !.results = shell[s].results] = shell[s]
      BY <1>b DEF ShellState
    <3> QED BY <1>c, <2>1, <2>2, <3>3, <3>4
  <2>3. CASE Become(s, [Waiting EXCEPT !.pc = "reply", !.role = shell[s].role])
    <3> DEFINE st == [Waiting EXCEPT !.pc = "reply", !.role = shell[s].role]
    <3>1. st.pc = "reply" /\ st.todo = <<>> /\ st.results = <<>>
      BY DEF Waiting
    <3> HIDE DEF st
    <3>2. Marking(st, deliveries')
      BY <3>1 DEF Marking
    <3> QED BY <1>d, <2>1, <2>3, <3>1, <3>2 DEF st
  <2> QED BY <2>1, <2>2, <2>3
<1>10. ASSUME NEW s \in Shells, Reply(s) \/ ChooseName(s) PROVE Ledger'
  <2>1. UNCHANGED <<deliveries, saved>>
    BY <1>10 DEF Reply, ChooseName, ClientVars, World, client
  <2>2. ASSUME NEW st, Become(s, st), st.pc \in {"ask", "name", "write"},
               \/ st.todo = <<>> /\ st.results \in {<<>>, shell[s].results}
               \/ st.todo = shell[s].todo /\ st.results = shell[s].results
        PROVE  Ledger'
    <3>1. Marking(st, deliveries')
      BY <2>2 DEF Marking
    <3> QED BY <1>d, <2>1, <2>2, <3>1
  <2>3. CASE Reply(s)
    <3> DEFINE st == [Waiting EXCEPT !.pc = "name", !.results = shell[s].results]
    <3>1. Become(s, Waiting) \/ Become(s, st)
      BY <2>3 DEF Reply
    <3>2. /\ Waiting.pc = "ask" /\ Waiting.todo = <<>> /\ Waiting.results = <<>>
          /\ st.pc = "name" /\ st.todo = <<>> /\ st.results = shell[s].results
      BY DEF Waiting
    <3> HIDE DEF st, Waiting
    <3> QED BY <2>2, <3>1, <3>2
  <2>4. CASE ChooseName(s)
    <3> DEFINE st == [shell[s] EXCEPT !.pc = "write", !.counter = FreeNumber(s)]
    <3>1. Become(s, st)
      BY <2>4 DEF ChooseName
    <3>2. st.pc = "write" /\ st.todo = shell[s].todo /\ st.results = shell[s].results
      BY <1>b DEF ShellState
    <3> HIDE DEF st
    <3> QED BY <2>2, <3>1, <3>2
  <2> QED BY <1>10, <2>3, <2>4
<1>11. ASSUME NEW s \in Shells, WriteFile(s) PROVE Ledger'
  <2> DEFINE res == shell[s].results
             st == IF Len(res) = 1 THEN Waiting ELSE [shell[s] EXCEPT !.pc = "name", !.results = Tail(res)]
  <2>1. UNCHANGED deliveries /\ shell[s].pc = "write"
    BY <1>11 DEF WriteFile, ClientVars
  <2>2. res \in Seq(Copy) /\ res # <<>> /\ shell[s].todo = <<>>
    BY <1>b, <2>1 DEF Placed, WorkPcs, ShellState
  <2>3. CASE saved' = [saved EXCEPT ![s] = Append(@, Head(res).id)] /\ Become(s, st)
    <3>1. st.pc \in {"ask", "name"} /\ st.todo = <<>> /\ st.results = Tail(res)
      <4>1. Tail(res) = <<>> <=> Len(res) = 1
        BY <2>2, TailFacts
      <4>2. Waiting.pc = "ask" /\ Waiting.todo = <<>> /\ Waiting.results = <<>>
        BY DEF Waiting
      <4> HIDE DEF Waiting, res
      <4>3. LET new == [shell[s] EXCEPT !.pc = "name", !.results = Tail(res)]
            IN new.pc = "name" /\ new.todo = shell[s].todo /\ new.results = Tail(res)
        BY <1>b DEF ShellState
      <4> QED BY <2>2, <4>1, <4>2, <4>3
    <3>2. saved'[s] = Append(saved[s], Head(res).id) /\ \A u \in Shells \ {s} : saved'[u] = saved[u]
      BY <2>3 DEF TypeInv, TypeOK
    <3>3. Lists(Append(saved[s], Head(res).id), IdsOf(Tail(res)), <<>>, Owner[s], deliveries)
      <4>1. IdsOf(Tail(res)) = Tail(IdsOf(res)) /\ Head(IdsOf(res)) = Head(res).id
        BY <2>2, IdsOfTail
      <4>2. IdsOf(res) \in Seq(Ids) /\ IdsOf(res) # <<>> /\ <<>> \in Seq(Ids)
        BY <2>2, IdsOfFacts, EmptySeq
      <4>3. Lists(saved[s], IdsOf(res), <<>>, Owner[s], deliveries)
        BY <1>b, <2>2 DEF LedgerOK
      <4> HIDE DEF res
      <4> QED BY <1>b, <4>1, <4>2, <4>3, ListsSave
    <3> HIDE DEF st, res
    <3>4. LedgerOK(saved'[s], st, Owner[s], deliveries')
      BY <2>1, <3>1, <3>2, <3>3 DEF LedgerOK, Marking
    <3> QED BY <1>a, <2>3, <3>2, <3>4, LedgerFrame
  <2>4. CASE Become(s, Waiting) /\ UNCHANGED saved
    <3>1. Waiting.pc = "ask" /\ Waiting.todo = <<>> /\ Waiting.results = <<>>
      BY DEF Waiting
    <3> HIDE DEF Waiting
    <3>2. Marking(Waiting, deliveries')
      BY <3>1 DEF Marking
    <3> QED BY <1>d, <2>4, <3>1, <3>2
  <2> QED BY <1>11, <2>3, <2>4 DEF WriteFile, client
<1> QED
  BY <1>2, <1>3, <1>4, <1>5, <1>6, <1>7, <1>8, <1>9, <1>10, <1>11 DEF Next, Collect, Save

-----------------------------------------------------------------------------
(* No file lost without a failure                                          *)

\* The row that the request of st has marked, or may have marked, as delivered, while
\* its file is not yet in the response.
Claim(st) == IF st.pc = "fail" \/ (st.pc = "log" /\ st.outcome = "delivered") THEN {Head(st.todo)} ELSE {}

\* What a shell has saved, or will if nothing fails, or has to be told of.
Held(past, st) == ToSet(past) \cup Carried(st) \cup Claim(st)

Accounted ==
  \A i \in 1 .. Len(deliveries) : deliveries[i].status = "delivered" =>
    i \in dropped \/ \E s \in Shells : i \in Held(saved[s], shell[s])

LEMMA CarriedTail ==
  ASSUME NEW old, old.results \in Seq(Copy), old.results # <<>>, NEW st, st.results = Tail(old.results)
  PROVE  Carried(old) \subseteq Carried(st) \cup {Head(old.results).id}
<1> DEFINE q == old.results
<1>1. /\ Len(q) \in Nat \ {0} /\ Head(q) = q[1] /\ Tail(q) \in Seq(Copy) /\ Len(Tail(q)) = Len(q) - 1
      /\ \A i \in 1 .. Len(q) - 1 : Tail(q)[i] = q[i + 1]
  BY TailFacts
<1>2. DOMAIN q = 1 .. Len(q) /\ DOMAIN Tail(q) = 1 .. Len(q) - 1
  BY <1>1, LenProperties
<1> SUFFICES ASSUME NEW i \in 1 .. Len(q), i # 1
             PROVE  \E j \in DOMAIN Tail(q) : Tail(q)[j].id = q[i].id
  BY <1>1, <1>2 DEF Carried
<1>3. i - 1 \in 1 .. Len(q) - 1 /\ (i - 1) + 1 = i
  BY <1>1
<1> QED BY <1>1, <1>2, <1>3

LEMMA CarriedAppend ==
  ASSUME NEW old, old.results \in Seq(Copy), NEW c \in Copy, NEW st, st.results = Append(old.results, c)
  PROVE  Carried(old) \cup {c.id} \subseteq Carried(st)
<1> DEFINE q == old.results
           new == Append(q, c)
<1>1. /\ new \in Seq(Copy) /\ Len(q) \in Nat /\ Len(new) = Len(q) + 1 /\ new[Len(q) + 1] = c
      /\ \A i \in 1 .. Len(q) : new[i] = q[i]
  BY AppendFacts
<1>2. DOMAIN q = 1 .. Len(q) /\ DOMAIN new = 1 .. Len(q) + 1
  BY <1>1, LenProperties
<1> HIDE DEF new
<1>3. Len(q) + 1 \in DOMAIN new /\ \A i \in DOMAIN q : i \in DOMAIN new /\ new[i] = q[i]
  BY <1>1, <1>2
<1>4. Carried(st) = {new[i].id : i \in DOMAIN new}
  BY DEF Carried, new
<1> QED BY <1>1, <1>3, <1>4 DEF Carried

LEMMA AccountedInit == Init => Accounted
<1> SUFFICES ASSUME Init PROVE Len(deliveries) = 0
  BY DEF Accounted
<1> QED BY EmptySeq DEF Init

\* The head of what is left is a row of the table.
LEMMA HeadRow ==
  ASSUME TypeInv, NEW s \in Shells, shell[s].pc \in WorkPcs
  PROVE  Head(shell[s].todo) \in 1 .. Len(deliveries) /\ shell[s].todo # <<>>
<1>1. shell[s].todo \in Seq(1 .. Len(deliveries)) /\ shell[s].todo # <<>>
  BY DEF TypeInv, Placed
<1> QED BY <1>1, TailFacts

\* A step of shell s keeps account when a row that becomes delivered is its, and when it
\* lets go only of what is thrown away or is no longer delivered.
LEMMA AccountedFrame ==
  ASSUME TypeInv, Accounted, NEW s \in Shells, NEW st, Become(s, st),
         \A u \in Shells \ {s} : saved'[u] = saved[u], dropped \subseteq dropped',
         \A i \in 1 .. Len(deliveries') : deliveries'[i].status = "delivered" =>
           \/ i \in 1 .. Len(deliveries) /\ deliveries[i].status = "delivered"
           \/ i \in Claim(st),
         \A i \in Held(saved[s], shell[s]) :
           i \in dropped' \cup Held(saved'[s], st) \/ deliveries'[i].status # "delivered"
  PROVE  Accounted'
<1>1. \A u \in Shells : shell'[u] = IF u = s THEN st ELSE shell[u]
  BY DEF Become, TypeInv
<1> SUFFICES ASSUME NEW i \in 1 .. Len(deliveries'), deliveries'[i].status = "delivered", i \notin dropped'
             PROVE  \E u \in Shells : i \in Held(saved'[u], shell'[u])
  BY DEF Accounted
<1>2. CASE i \in Claim(st)
  BY <1>1, <1>2 DEF Held
<1>3. CASE i \in 1 .. Len(deliveries) /\ deliveries[i].status = "delivered"
  <2>1. PICK u \in Shells : i \in Held(saved[u], shell[u])
    BY <1>3 DEF Accounted
  <2>2. CASE u = s
    BY <1>1, <2>1, <2>2
  <2>3. CASE u # s
    BY <1>1, <2>1, <2>3
  <2> QED BY <2>2, <2>3
<1> QED BY <1>2, <1>3

LEMMA AccountedNext == TypeInv /\ Ledger /\ Accounted /\ [Next]_vars => Accounted'
<1> SUFFICES ASSUME TypeInv, Ledger, Accounted, [Next]_vars PROVE Accounted'
  OBVIOUS
<1>a. /\ \A s \in Shells : shell[s] \in ShellState /\ saved[s] \in Seq(Ids) /\ Placed(shell[s])
      /\ \A s \in Shells : LedgerOK(saved[s], shell[s], Owner[s], deliveries)
      /\ deliveries \in Seq(Delivery)
  BY DEF TypeInv, TypeOK, Ledger
\* A step that leaves the files of the response and claims no less.
<1>b. ASSUME NEW s \in Shells, NEW st, Become(s, st), UNCHANGED <<deliveries, saved, dropped>>,
             st.results = shell[s].results, Claim(shell[s]) \subseteq Claim(st)
      PROVE  Accounted'
  <2>1. Held(saved[s], shell[s]) \subseteq Held(saved'[s], st)
    BY <1>b DEF Held, Carried
  <2> QED BY <1>b, <2>1, AccountedFrame
<1>1. ASSUME UNCHANGED <<shell, saved, dropped>>,
             \A i \in 1 .. Len(deliveries') : deliveries'[i].status = "delivered" =>
               i \in 1 .. Len(deliveries) /\ deliveries[i].status = "delivered"
      PROVE  Accounted'
  BY <1>1 DEF Accounted
<1>2. ASSUME \/ \E n \in Names : Login(n)
             \/ \E n \in Names, r \in Roles \cup {NoRole} : ChangeAccount(n, r)
             \/ ChangeFiles \/ (Send /\ UNCHANGED deliveries) \/ UNCHANGED vars
      PROVE  Accounted'
  <2>1. UNCHANGED <<shell, saved, dropped, deliveries>>
    BY <1>2 DEF Login, ChangeAccount, ChangeFiles, UnlinkBlob, NameBlob, DeleteRows, Send, SendRequest,
       CheckTarget, ResolveFile, CreateDelivery, SendVars, vars, client
  <2> QED BY <1>1, <2>1
<1>3. ASSUME NEW unmasked \in BOOLEAN, CreateDelivery(unmasked) PROVE Accounted'
  <2> DEFINE row == [to |-> sender.to, file |-> sender.file, unmasked |-> unmasked,
                     status |-> "pending"]
  <2>1. deliveries' = Append(deliveries, row) /\ UNCHANGED <<shell, saved, dropped>>
    BY <1>3 DEF CreateDelivery, SendVars, client
  <2>2. row \in Delivery /\ row.status = "pending"
    <3>1. sender.to \in Names /\ sender.file \in Files
      BY DEF TypeInv, TypeOK
    <3> QED BY <3>1 DEF Delivery, Statuses
  <2> HIDE DEF row
  <2>3. /\ Len(deliveries) \in Nat /\ Len(deliveries') = Len(deliveries) + 1
        /\ \A i \in 1 .. Len(deliveries) : deliveries'[i] = deliveries[i]
        /\ deliveries'[Len(deliveries) + 1].status = "pending"
    BY <1>a, <2>1, <2>2, AppendFacts
  <2>4. \A i \in 1 .. Len(deliveries') : i \in 1 .. Len(deliveries) \/ i = Len(deliveries) + 1
    BY <2>3
  <2> QED BY <1>1, <2>1, <2>3, <2>4
<1>4. ASSUME Restart PROVE Accounted'
  <2> DEFINE lost == {t \in Shells : shell[t].pc \in ServerPcs}
  <2>1. /\ UNCHANGED <<deliveries, saved>> /\ dropped \subseteq dropped'
        /\ \A s \in lost : Carried(shell[s]) \cup AtHand(shell[s]) \subseteq dropped'
        /\ \A s \in Shells \ lost : shell'[s] = shell[s]
        /\ \A s \in lost : shell'[s] = Waiting
    BY <1>4 DEF Restart, client
  <2>2. \A s \in Shells : Claim(shell[s]) \subseteq AtHand(shell[s])
    BY DEF Claim, AtHand
  <2>3. \A st : ToSet(<<>>) \subseteq Held(<<>>, st) /\ \A past : ToSet(past) \subseteq Held(past, st)
    BY DEF Held
  <2>4. \A s \in Shells : Held(saved[s], shell[s]) \subseteq dropped' \cup Held(saved[s], shell'[s])
    <3> HIDE DEF lost
    <3> TAKE s \in Shells
    <3>1. CASE s \in lost
      BY <2>1, <2>2, <2>3, <3>1 DEF Held
    <3>2. CASE s \notin lost
      BY <2>1, <3>2
    <3> QED BY <3>1, <3>2
  <2> QED BY <2>1, <2>4 DEF Accounted
<1>5. ASSUME NEW s \in Shells, NEW command, Ask(s, command) PROVE Accounted'
  <2> DEFINE st == [Waiting EXCEPT !.pc = "select", !.role = session[Owner[s]]]
  <2>1. Become(s, st) /\ UNCHANGED <<saved, deliveries, dropped>> /\ shell[s].pc = "ask"
    BY <1>5 DEF Ask, World, client
  <2>2. st.results = <<>> /\ shell[s].results = <<>> /\ Claim(shell[s]) = {}
    BY <1>a, <2>1 DEF Waiting, Placed, Claim
  <2> HIDE DEF st
  <2> QED BY <1>b, <2>1, <2>2
<1>6. ASSUME NEW s \in Shells, SelectPending(s) PROVE Accounted'
  <2>1. PICK todo :
          Become(s, [shell[s] EXCEPT !.todo = todo, !.pc = IF todo = <<>> THEN "reply" ELSE "inode"])
    BY <1>6 DEF SelectPending
  <2> DEFINE st == [shell[s] EXCEPT !.todo = todo, !.pc = IF todo = <<>> THEN "reply" ELSE "inode"]
  <2>2. UNCHANGED <<saved, deliveries, dropped>> /\ shell[s].pc = "select"
    BY <1>6 DEF SelectPending, World, client
  <2>3. st.results = shell[s].results /\ Claim(shell[s]) = {}
    BY <1>a, <2>2 DEF ShellState, Claim
  <2> HIDE DEF st
  <2> QED BY <1>b, <2>1, <2>2, <2>3 DEF st
<1>7. ASSUME NEW s \in Shells, GetInode(s) \/ GetMeta(s) \/ DecryptAndMask(s) \/ ChooseName(s)
      PROVE  Accounted'
  <2>1. UNCHANGED <<saved, deliveries, dropped>> /\ shell[s].pc \in {"inode", "meta", "open", "name"}
    BY <1>7 DEF GetInode, GetMeta, DecryptAndMask, ChooseName, Local, World, ClientVars, client
  <2>2. Claim(shell[s]) = {}
    BY <2>1 DEF Claim
  <2>3. ASSUME NEW st, Become(s, st), st.results = shell[s].results PROVE Accounted'
    BY <1>b, <2>1, <2>2, <2>3
  <2>4. ASSUME NEW pc, Become(s, [shell[s] EXCEPT !.pc = pc]) PROVE Accounted'
    BY <1>a, <2>3, <2>4 DEF ShellState
  <2>5. CASE GetInode(s)
    <3>1. [shell[s] EXCEPT !.pc = "mark", !.outcome = "skipped"].results = shell[s].results
      BY <1>a DEF ShellState
    <3> QED BY <2>3, <2>4, <2>5, <3>1 DEF GetInode
  <2>6. CASE GetMeta(s)
    <3>1. \A b : [shell[s] EXCEPT !.pc = "open", !.blob = b].results = shell[s].results
      BY <1>a DEF ShellState
    <3> QED BY <2>3, <2>4, <2>6, <3>1 DEF GetMeta
  <2>7. CASE DecryptAndMask(s)
    <3>1. \A masked : Prepare(shell[s], masked).results = shell[s].results
      BY <1>a DEF Prepare, ShellState
    <3> QED BY <2>3, <2>4, <2>7, <3>1 DEF DecryptAndMask
  <2>8. CASE ChooseName(s)
    <3>1. \A n : [shell[s] EXCEPT !.pc = "write", !.counter = n].results = shell[s].results
      BY <1>a DEF ShellState
    <3> QED BY <2>3, <2>8, <3>1 DEF ChooseName
  <2> QED BY <1>7, <2>5, <2>6, <2>7, <2>8
<1>8. ASSUME NEW s \in Shells, MarkRow(s) PROVE Accounted'
  <2>1. /\ UNCHANGED <<saved, dropped>> /\ shell[s].pc = "mark"
        /\ \/ SetStatus(shell[s], shell[s].outcome) /\ Become(s, [shell[s] EXCEPT !.pc = "log"])
           \/ UNCHANGED deliveries /\ Become(s, [shell[s] EXCEPT !.pc = "fail"])
    BY <1>8 DEF MarkRow, World, client, Goto
  <2>2. Claim(shell[s]) = {}
    BY <2>1 DEF Claim
  <2>3. CASE SetStatus(shell[s], shell[s].outcome) /\ Become(s, [shell[s] EXCEPT !.pc = "log"])
    <3> DEFINE st == [shell[s] EXCEPT !.pc = "log"]
    <3>1. /\ st.pc = "log" /\ st.todo = shell[s].todo /\ st.results = shell[s].results
          /\ st.outcome = shell[s].outcome
      BY <1>a DEF ShellState
    <3> HIDE DEF st
    <3>2. Head(shell[s].todo) \in 1 .. Len(deliveries) /\ shell[s].outcome \in Statuses
      BY <1>a, <2>1, HeadRow DEF WorkPcs, ShellState
    <3>3. \A i \in 1 .. Len(deliveries') : deliveries'[i].status = "delivered" =>
            \/ i \in 1 .. Len(deliveries) /\ deliveries[i].status = "delivered"
            \/ i \in Claim(st)
      BY <1>a, <2>3, <3>1, <3>2, SetStatusFacts DEF Claim
    <3>4. Held(saved[s], shell[s]) \subseteq Held(saved'[s], st)
      BY <2>1, <2>2, <3>1 DEF Held, Carried
    <3> QED BY <2>1, <2>3, <3>3, <3>4, AccountedFrame DEF st
  <2>4. CASE UNCHANGED deliveries /\ Become(s, [shell[s] EXCEPT !.pc = "fail"])
    <3>1. [shell[s] EXCEPT !.pc = "fail"].results = shell[s].results
      BY <1>a DEF ShellState
    <3> QED BY <1>b, <2>1, <2>2, <2>4, <3>1
  <2> QED BY <2>1, <2>3, <2>4
<1>9. ASSUME NEW s \in Shells, LogOutcome(s) PROVE Accounted'
  <2>1. /\ UNCHANGED <<deliveries, saved, dropped>> /\ shell[s].pc = "log"
        /\ \/ Become(s, NextRow([shell[s] EXCEPT !.results = Collected(shell[s])]))
           \/ Become(s, [shell[s] EXCEPT !.pc = "fail"])
    BY <1>9 DEF LogOutcome, World, client, Goto
  <2>2. CASE Become(s, NextRow([shell[s] EXCEPT !.results = Collected(shell[s])]))
    <3> DEFINE st == NextRow([shell[s] EXCEPT !.results = Collected(shell[s])])
    <3>1. st.results = Collected(shell[s])
      BY <1>a DEF NextRow, ShellState
    <3> HIDE DEF st
    <3>2. Held(saved[s], shell[s]) \subseteq Held(saved[s], st)
      <4>1. CASE shell[s].outcome = "delivered"
        <5>1. shell[s].copy.id = Head(shell[s].todo)
          BY <1>a, <2>1, <4>1 DEF LedgerOK, Marking
        <5>2. st.results = Append(shell[s].results, shell[s].copy)
          BY <3>1, <4>1 DEF Collected
        <5>3. shell[s].results \in Seq(Copy) /\ shell[s].copy \in Copy
          BY <1>a DEF ShellState
        <5>4. Carried(shell[s]) \cup {Head(shell[s].todo)} \subseteq Carried(st)
          BY <5>1, <5>2, <5>3, CarriedAppend
        <5> QED BY <5>4 DEF Held, Claim
      <4>2. CASE shell[s].outcome # "delivered"
        <5>1. st.results = shell[s].results /\ Claim(shell[s]) = {}
          BY <2>1, <3>1, <4>2 DEF Collected, Claim
        <5> QED BY <5>1 DEF Held, Carried
      <4> QED BY <4>1, <4>2
    <3> QED BY <2>1, <2>2, <3>2, AccountedFrame DEF st
  <2>3. CASE Become(s, [shell[s] EXCEPT !.pc = "fail"])
    <3> DEFINE st == [shell[s] EXCEPT !.pc = "fail"]
    <3>1. st.pc = "fail" /\ st.results = shell[s].results /\ st.todo = shell[s].todo
      BY <1>a DEF ShellState
    <3> HIDE DEF st
    <3>2. Claim(shell[s]) \subseteq Claim(st)
      BY <3>1 DEF Claim
    <3> QED BY <1>b, <2>1, <2>3, <3>1, <3>2 DEF st
  <2> QED BY <2>1, <2>2, <2>3
<1>10. ASSUME NEW s \in Shells, MarkFailed(s) PROVE Accounted'
  <2>1. /\ UNCHANGED saved /\ shell[s].pc = "fail"
        /\ \/ /\ SetStatus(shell[s], "failed") /\ Become(s, NextRow(shell[s])) /\ UNCHANGED dropped
           \/ /\ SetStatus(shell[s], "failed") \/ UNCHANGED deliveries
              /\ dropped' = dropped \cup Carried(shell[s]) \cup AtHand(shell[s])
              /\ Become(s, [Waiting EXCEPT !.pc = "reply", !.role = shell[s].role])
    BY <1>10 DEF MarkFailed, World, client
  <2>2. Head(shell[s].todo) \in 1 .. Len(deliveries) /\ "failed" \in Statuses
    BY <2>1, HeadRow DEF WorkPcs, Statuses
  <2>3. SetStatus(shell[s], "failed") \/ UNCHANGED deliveries =>
          \A i \in 1 .. Len(deliveries') : deliveries'[i].status = "delivered" =>
            i \in 1 .. Len(deliveries) /\ deliveries[i].status = "delivered"
    BY <1>a, <2>2, SetStatusFacts
  <2>4. Claim(shell[s]) = {Head(shell[s].todo)} /\ AtHand(shell[s]) = {Head(shell[s].todo)}
    BY <2>1 DEF Claim, AtHand
  <2>5. CASE SetStatus(shell[s], "failed") /\ Become(s, NextRow(shell[s])) /\ UNCHANGED dropped
    <3> DEFINE st == NextRow(shell[s])
    <3>1. st.results = shell[s].results
      BY <1>a DEF NextRow, ShellState
    <3> HIDE DEF st
    <3>2. deliveries'[Head(shell[s].todo)].status = "failed"
      BY <1>a, <2>2, <2>5, SetStatusFacts
    <3>3. \A i \in Held(saved[s], shell[s]) : i \in Held(saved'[s], st) \/ deliveries'[i].status # "delivered"
      BY <2>1, <2>4, <3>1, <3>2 DEF Held, Carried
    <3> QED BY <2>1, <2>3, <2>5, <3>3, AccountedFrame DEF st
  <2>6. CASE /\ SetStatus(shell[s], "failed") \/ UNCHANGED deliveries
             /\ dropped' = dropped \cup Carried(shell[s]) \cup AtHand(shell[s])
             /\ Become(s, [Waiting EXCEPT !.pc = "reply", !.role = shell[s].role])
    <3> DEFINE st == [Waiting EXCEPT !.pc = "reply", !.role = shell[s].role]
    <3> HIDE DEF st
    <3>1. Held(saved[s], shell[s]) \subseteq dropped' \cup Held(saved'[s], st)
      BY <2>1, <2>4, <2>6 DEF Held
    <3> QED BY <2>1, <2>3, <2>6, <3>1, AccountedFrame DEF st
  <2> QED BY <2>1, <2>5, <2>6
<1>11. ASSUME NEW s \in Shells, Reply(s) PROVE Accounted'
  <2> DEFINE st == [Waiting EXCEPT !.pc = "name", !.results = shell[s].results]
  <2>1. /\ UNCHANGED <<deliveries, saved>> /\ shell[s].pc = "reply"
        /\ \/ UNCHANGED dropped /\ shell[s].results = <<>> /\ Become(s, Waiting)
           \/ UNCHANGED dropped /\ Become(s, st)
           \/ dropped' = dropped \cup Carried(shell[s]) /\ Become(s, Waiting)
    BY <1>11 DEF Reply, World, client
  <2>2. Claim(shell[s]) = {} /\ st.results = shell[s].results /\ Waiting.results = <<>>
    BY <2>1 DEF Claim, Waiting
  <2> HIDE DEF st, Waiting
  <2>3. CASE dropped' = dropped \cup Carried(shell[s]) /\ Become(s, Waiting)
    <3>1. Held(saved[s], shell[s]) \subseteq dropped' \cup Held(saved'[s], Waiting)
      BY <2>1, <2>2, <2>3 DEF Held
    <3> QED BY <2>1, <2>3, <3>1, AccountedFrame
  <2> QED BY <1>b, <2>1, <2>2, <2>3
<1>12. ASSUME NEW s \in Shells, WriteFile(s) PROVE Accounted'
  <2> DEFINE res == shell[s].results
             st == IF Len(res) = 1 THEN Waiting ELSE [shell[s] EXCEPT !.pc = "name", !.results = Tail(res)]
  <2>1. /\ UNCHANGED deliveries /\ shell[s].pc = "write"
        /\ \/ /\ UNCHANGED dropped /\ saved' = [saved EXCEPT ![s] = Append(@, Head(res).id)]
              /\ Become(s, st)
           \/ dropped' = dropped \cup Carried(shell[s]) /\ Become(s, Waiting) /\ UNCHANGED saved
    BY <1>12 DEF WriteFile, ClientVars, client
  <2>2. res \in Seq(Copy) /\ res # <<>> /\ Claim(shell[s]) = {}
    BY <1>a, <2>1 DEF Placed, ShellState, Claim
  <2>3. CASE /\ UNCHANGED dropped /\ saved' = [saved EXCEPT ![s] = Append(@, Head(res).id)]
             /\ Become(s, st)
    <3>1. st.results = Tail(res)
      <4>1. Len(res) = 1 => Tail(res) = <<>>
        BY <2>2, TailFacts
      <4>2. Waiting.results = <<>>
        BY DEF Waiting
      <4> HIDE DEF Waiting, res
      <4>3. [shell[s] EXCEPT !.pc = "name", !.results = Tail(res)].results = Tail(res)
        BY <1>a DEF ShellState
      <4> QED BY <4>1, <4>2, <4>3
    <3>2. saved'[s] = Append(saved[s], Head(res).id) /\ \A u \in Shells \ {s} : saved'[u] = saved[u]
      BY <2>3 DEF TypeInv, TypeOK
    <3> HIDE DEF st
    <3>3. ToSet(saved[s]) \cup {Head(res).id} \subseteq ToSet(saved'[s])
      <4>1. Head(res).id \in Ids
        <5>1. Head(res) \in Copy
          BY <2>2, TailFacts
        <5> QED BY <5>1 DEF Copy
      <4>2. LET p == saved[s]
                q == saved'[s]
            IN /\ Len(p) \in Nat /\ Len(q) = Len(p) + 1 /\ q[Len(p) + 1] = Head(res).id
               /\ \A i \in 1 .. Len(p) : q[i] = p[i]
               /\ DOMAIN p = 1 .. Len(p) /\ DOMAIN q = 1 .. Len(q)
        BY <1>a, <3>2, <4>1, AppendFacts, LenProperties
      <4>3. \A i \in 1 .. Len(saved[s]) : i \in 1 .. Len(saved'[s])
        BY <4>2
      <4>4. Len(saved[s]) + 1 \in 1 .. Len(saved'[s])
        BY <4>2
      <4> QED BY <4>2, <4>3, <4>4 DEF ToSet
    <3>4. Carried(shell[s]) \subseteq Carried(st) \cup {Head(res).id}
      BY <2>2, <3>1, CarriedTail
    <3>5. Held(saved[s], shell[s]) \subseteq Held(saved'[s], st)
      BY <2>2, <3>3, <3>4 DEF Held
    <3> QED BY <2>1, <2>3, <3>2, <3>5, AccountedFrame
  <2>4. CASE dropped' = dropped \cup Carried(shell[s]) /\ Become(s, Waiting) /\ UNCHANGED saved
    <3>1. Held(saved[s], shell[s]) \subseteq dropped' \cup Held(saved'[s], Waiting)
      BY <2>2, <2>4 DEF Held
    <3> QED BY <2>1, <2>4, <3>1, AccountedFrame
  <2> QED BY <2>1, <2>3, <2>4
<1>13. (\E n \in Names, f \in Files : SendRequest(n, f)) \/ CheckTarget \/ ResolveFile => UNCHANGED deliveries
  BY DEF SendRequest, CheckTarget, ResolveFile
<1> QED
  BY <1>2, <1>3, <1>4, <1>5, <1>6, <1>7, <1>8, <1>9, <1>10, <1>11, <1>12, <1>13
     DEF Next, Collect, Save, Send

\* A shell saves a file that was sent at most once, and a row that says delivered has
\* been saved, is on its way, or was thrown away by a failure: update_delivery_status
\* comes before the file leaves the server, in _collect_pending_deliveries.
THEOREM SentOnce == Spec => []DeliveredOnce
<1>1. TypeInv /\ Ledger /\ Accounted => DeliveredOnce
  <2> SUFFICES ASSUME TypeInv, Ledger, Accounted PROVE AtMostOnce /\ DeliveredIsAccounted
    BY DEF DeliveredOnce
  <2>1. DeliveredIsAccounted
    <3>1. DOMAIN deliveries = 1 .. Len(deliveries)
      BY LenProperties DEF TypeInv, TypeOK
    <3>2. \A s \in Shells : Claim(shell[s]) \subseteq AtHand(shell[s])
      BY DEF Claim, AtHand
    <3> QED BY <3>1, <3>2 DEF Accounted, Held, DeliveredIsAccounted
  <2>2. AtMostOnce
    <3> SUFFICES ASSUME NEW s \in Shells
                 PROVE  IsInjective(saved[s] \o [i \in DOMAIN shell[s].results |-> shell[s].results[i].id])
      BY DEF AtMostOnce
    <3> DEFINE p == saved[s]
               q == IdsOf(shell[s].results)
    <3>1. p \in Seq(Ids) /\ shell[s].results \in Seq(Copy)
      BY DEF TypeInv, TypeOK, ShellState
    <3>2. q \in Seq(Ids) /\ q = [i \in DOMAIN shell[s].results |-> shell[s].results[i].id]
      BY <3>1, IdsOfFacts, LenProperties DEF IdsOf
    <3>3. Distinct(p) /\ Distinct(q) /\ Apart(p, q)
      BY DEF Ledger, LedgerOK, Lists
    <3> HIDE DEF p, q
    <3>4. /\ Len(p) \in Nat /\ Len(q) \in Nat /\ DOMAIN (p \o q) = 1 .. Len(p) + Len(q)
          /\ \A i \in 1 .. Len(p) + Len(q) : (p \o q)[i] = IF i <= Len(p) THEN p[i] ELSE q[i - Len(p)]
      BY <3>1, <3>2, ConcatProperties, LenProperties
    <3>5. \A i \in 1 .. Len(p) + Len(q) : IF i <= Len(p) THEN i \in 1 .. Len(p) ELSE i - Len(p) \in 1 .. Len(q)
      BY <3>4
    <3>6. ASSUME NEW i \in 1 .. Len(p) + Len(q), NEW j \in 1 .. Len(p) + Len(q), (p \o q)[i] = (p \o q)[j]
          PROVE  i = j
      <4>1. CASE i <= Len(p) /\ j <= Len(p)
        BY <3>3, <3>4, <3>5, <3>6, <4>1 DEF Distinct
      <4>2. CASE ~(i <= Len(p)) /\ ~(j <= Len(p))
        <5>1. i - Len(p) = j - Len(p)
          BY <3>3, <3>4, <3>5, <3>6, <4>2 DEF Distinct
        <5> QED BY <3>4, <5>1
      <4>3. CASE (i <= Len(p)) # (j <= Len(p))
        BY <3>3, <3>4, <3>5, <3>6, <4>3 DEF Apart
      <4> QED BY <4>1, <4>2, <4>3
    <3>7. IsInjective(p \o q)
      BY <3>4, <3>6 DEF IsInjective
    <3> QED BY <3>2, <3>7 DEF p
  <2> QED BY <2>1, <2>2
<1> QED
  BY <1>1, TypeInit, TypeNext, LedgerInit, LedgerNext, AccountedInit, AccountedNext, PTL DEF Spec

-----------------------------------------------------------------------------
(* One shell of a user                                                     *)

\* The only shell of its user.
Sole(s) == s \in open /\ OneShell(Owner[s])

\* What the request of a sole shell still has to do is pending; what it has at hand
\* has not failed.
Fresh(st, rows) ==
  /\ \A k \in 1 .. Len(st.todo) :
       k > 1 \/ st.pc \notin {"log", "fail"} => rows[st.todo[k]].status = "pending"
  /\ st.pc = "mark" => st.outcome # "failed"
  /\ st.pc \in {"log", "fail"} => rows[Head(st.todo)].status # "failed"

\* The only shell of the installation.
Only(s) == open = {s}

\* The name a shell has chosen is free, and what it has saved is in the folder.
Named(s) == shell[s].pc = "write" => NameOf(s, shell[s].counter) \notin DOMAIN downloads
InFolder(past, files) == \A i \in 1 .. Len(past) : \E n \in DOMAIN files : files[n].id = past[i]

Idle(s) == shell[s].pc = "ask" /\ saved[s] = <<>>

Alone ==
  /\ \A s \in Shells \ open : Idle(s)
  /\ \A s \in Shells : Sole(s) => Fresh(shell[s], deliveries)
  /\ \A s \in Shells : Only(s) => Named(s) /\ InFolder(saved[s], downloads)

LEMMA AloneInit == Init => Alone
<1> SUFFICES ASSUME Init, NEW s \in Shells
             PROVE  Idle(s) /\ Fresh(shell[s], deliveries) /\ Named(s) /\ InFolder(saved[s], downloads)
  BY DEF Alone
<1>1. shell[s] = Waiting /\ saved[s] = <<>>
  BY DEF Init
<1>2. Waiting.pc = "ask" /\ Waiting.todo = <<>>
  BY DEF Waiting
<1> QED BY <1>1, <1>2, EmptySeq DEF Idle, Fresh, Named, InFolder

\* Two open shells of a user who has one are the same; a shell that has a request or
\* files is open.
LEMMA SoleFacts ==
  ASSUME TypeInv, Alone, NEW s \in Shells, Sole(s), NEW u \in Shells, Owner[u] = Owner[s],
         shell[u].pc # "ask" \/ saved[u] # <<>> \/ u \in open
  PROVE  u = s
<1> DEFINE mine == {t \in open : Owner[t] = Owner[s]}
<1>1. u \in open
  BY DEF Alone, Idle
<1>2. mine \subseteq Shells
  BY DEF TypeInv, TypeOK
<1>3. IsFiniteSet(mine)
  BY <1>2, FS_Subset, DeliveryAssumption
<1>4. Cardinality(mine) = 1
  BY DEF Sole, OneShell
<1>5. u \in mine /\ s \in mine
  BY <1>1 DEF Sole
<1> HIDE DEF mine
<1>6. PICK x : mine = {x}
  BY <1>3, <1>4, FS_Singleton
<1> QED BY <1>5, <1>6

\* Which shell a step moves.
Moves(s) ==
  /\ s \in open \/ shell[s].pc # "ask"
  /\ \A u \in Shells \ {s} : shell'[u] = shell[u] /\ saved'[u] = saved[u]

LEMMA ShellMoves ==
  ASSUME TypeInv, NEW s \in Shells
  PROVE  /\ Collect(s) \/ Save(s) => Moves(s) /\ shell[s].pc # "ask"
         /\ \A command : Ask(s, command) => Moves(s)
<1>1. \A st : Become(s, st) => \A u \in Shells \ {s} : shell'[u] = shell[u]
  BY DEF Become, TypeInv
<1>2. ASSUME NEW command, Ask(s, command) PROVE Moves(s)
  <2>1. (\E st : Become(s, st)) /\ UNCHANGED saved /\ s \in open
    BY <1>2 DEF Ask, World, client
  <2> QED BY <1>1, <2>1 DEF Moves
<1>3. ASSUME Collect(s) PROVE (\E st : Become(s, st)) /\ UNCHANGED saved /\ shell[s].pc # "ask"
  <2>1. CASE SelectPending(s) \/ GetInode(s) \/ GetMeta(s) \/ DecryptAndMask(s)
    BY <2>1 DEF SelectPending, GetInode, GetMeta, DecryptAndMask, Local, World, client
  <2>2. CASE MarkRow(s) \/ LogOutcome(s) \/ MarkFailed(s) \/ Reply(s)
    BY <2>2 DEF MarkRow, LogOutcome, MarkFailed, Reply, Goto, World, client
  <2> QED BY <1>3, <2>1, <2>2 DEF Collect
<1>4. ASSUME ChooseName(s) PROVE (\E st : Become(s, st)) /\ UNCHANGED saved /\ shell[s].pc # "ask"
  BY <1>4 DEF ChooseName, client
<1>5. ASSUME WriteFile(s)
      PROVE  /\ \E st : Become(s, st)
             /\ shell[s].pc # "ask" /\ \A u \in Shells \ {s} : saved'[u] = saved[u]
  <2>1. UNCHANGED saved \/ \E new : saved' = [saved EXCEPT ![s] = new]
    BY <1>5 DEF WriteFile, client
  <2>2. \A u \in Shells \ {s} : saved'[u] = saved[u]
    BY <2>1 DEF TypeInv, TypeOK
  <2> QED BY <1>5, <2>2 DEF WriteFile
<1> QED BY <1>1, <1>2, <1>3, <1>4, <1>5 DEF Moves, Save

\* A status changes when its row is at hand.
LEMMA StatusStep ==
  ASSUME TypeInv, Ledger, [Next]_vars, NEW i \in 1 .. Len(deliveries),
         deliveries'[i].status # deliveries[i].status
  PROVE  \E u \in Shells : /\ shell[u].todo # <<>> /\ i = Head(shell[u].todo) /\ deliveries[i].to = Owner[u]
                           /\ \/ MarkRow(u) /\ deliveries'[i].status = shell[u].outcome
                              \/ MarkFailed(u) /\ deliveries'[i].status = "failed"
<1>1. deliveries \in Seq(Delivery) /\ Len(deliveries) \in Nat
  BY LenProperties DEF TypeInv, TypeOK
<1>2. deliveries' # deliveries
  OBVIOUS
<1>3. ~(\E unmasked \in BOOLEAN : CreateDelivery(unmasked))
  <2> SUFFICES ASSUME NEW unmasked \in BOOLEAN, CreateDelivery(unmasked) PROVE FALSE
    OBVIOUS
  <2> DEFINE row == [to |-> sender.to, file |-> sender.file, unmasked |-> unmasked, status |-> "pending"]
  <2>1. deliveries' = Append(deliveries, row)
    BY DEF CreateDelivery
  <2>2. row \in Delivery
    <3>1. sender.to \in Names /\ sender.file \in Files
      BY DEF TypeInv, TypeOK
    <3> QED BY <3>1 DEF Delivery, Statuses
  <2> HIDE DEF row
  <2> QED BY <1>1, <2>1, <2>2, AppendFacts
<1>4. PICK u \in Shells : MarkRow(u) \/ MarkFailed(u)
  BY <1>2, <1>3 DEF Next, vars, Login, ChangeAccount, ChangeFiles, UnlinkBlob, NameBlob,
     DeleteRows, Send, SendRequest, CheckTarget, ResolveFile, Restart, Collect, SelectPending, GetInode,
     GetMeta, DecryptAndMask, Local, LogOutcome, Reply, Save, ChooseName, WriteFile, ClientVars, Ask
<1>5. shell[u].pc \in WorkPcs
  BY <1>4 DEF MarkRow, MarkFailed, WorkPcs
<1>6. Head(shell[u].todo) \in 1 .. Len(deliveries) /\ shell[u].todo # <<>>
  BY <1>5, HeadRow
<1>7. shell[u].outcome \in Statuses /\ "failed" \in Statuses
  BY DEF TypeInv, TypeOK, ShellState, Statuses
<1>8. /\ i = Head(shell[u].todo)
      /\ \/ MarkRow(u) /\ deliveries'[i].status = shell[u].outcome
         \/ MarkFailed(u) /\ deliveries'[i].status = "failed"
  <2>1. CASE MarkRow(u)
    <3>1. SetStatus(shell[u], shell[u].outcome)
      BY <1>2, <2>1 DEF MarkRow
    <3> QED BY <1>1, <1>7, <2>1, <3>1, SetStatusFacts
  <2>2. CASE MarkFailed(u)
    <3>1. SetStatus(shell[u], "failed")
      BY <1>2, <2>2 DEF MarkFailed
    <3> QED BY <1>1, <1>7, <2>2, <3>1, SetStatusFacts
  <2> QED BY <1>4, <2>1, <2>2
<1>9. deliveries[i].to = Owner[u]
  <2>1. Owned(shell[u].todo, Owner[u], deliveries)
    BY DEF Ledger, LedgerOK, Lists
  <2>2. shell[u].todo \in Seq(Ids)
    BY DEF TypeInv, TypeOK, ShellState
  <2>3. 1 \in 1 .. Len(shell[u].todo) /\ Head(shell[u].todo) = shell[u].todo[1]
    BY <1>6, <2>2, TailFacts
  <2> QED BY <1>8, <2>1, <2>3 DEF Owned
<1> QED BY <1>6, <1>8, <1>9

\* A row of the only shell of a user changes its status at the hands of that shell.
LEMMA SoleStatus ==
  ASSUME TypeInv, Ledger, Alone, [Next]_vars, NEW s \in Shells, Sole(s), NEW i \in 1 .. Len(deliveries),
         deliveries[i].to = Owner[s], deliveries'[i].status # deliveries[i].status
  PROVE  /\ shell[s].todo # <<>> /\ i = Head(shell[s].todo)
         /\ \/ MarkRow(s) /\ deliveries'[i].status = shell[s].outcome
            \/ MarkFailed(s) /\ deliveries'[i].status = "failed"
<1>1. PICK u \in Shells : /\ shell[u].todo # <<>> /\ i = Head(shell[u].todo) /\ deliveries[i].to = Owner[u]
                          /\ \/ MarkRow(u) /\ deliveries'[i].status = shell[u].outcome
                             \/ MarkFailed(u) /\ deliveries'[i].status = "failed"
  BY StatusStep
<1>2. shell[u].pc # "ask"
  BY <1>1 DEF MarkRow, MarkFailed
<1>3. u = s
  BY <1>1, <1>2, SoleFacts
<1> QED BY <1>1, <1>3

\* With one shell a row that has left pending changes only from delivered or skipped to
\* failed, by the outer except of _collect_pending_deliveries, and then its file is not
\* in the response.
LEMMA SettledStep ==
  ASSUME TypeInv, Ledger, Alone, [Next]_vars, NEW i \in 1 .. Len(deliveries), OneShell(deliveries[i].to),
         deliveries[i].status # "pending", deliveries'[i].status # deliveries[i].status
  PROVE  /\ deliveries'[i].status = "failed" /\ deliveries[i].status # "failed"
         /\ \A s \in open : i \notin Carried(shell'[s]) \cup ToSet(saved'[s])
<1>1. PICK u \in Shells : /\ shell[u].todo # <<>> /\ i = Head(shell[u].todo) /\ deliveries[i].to = Owner[u]
                          /\ \/ MarkRow(u) /\ deliveries'[i].status = shell[u].outcome
                             \/ MarkFailed(u) /\ deliveries'[i].status = "failed"
  BY StatusStep
<1>2. shell[u].pc # "ask"
  BY <1>1 DEF MarkRow, MarkFailed
<1>3. Sole(u)
  BY <1>1, <1>2 DEF Sole, Alone, Idle
<1>4. Fresh(shell[u], deliveries)
  BY <1>3 DEF Alone
<1>5. shell[u].todo \in Seq(Ids)
  BY DEF TypeInv, TypeOK, ShellState
<1>6. 1 \in 1 .. Len(shell[u].todo) /\ Head(shell[u].todo) = shell[u].todo[1]
  BY <1>1, <1>5, TailFacts
<1>7. ~MarkRow(u)
  BY <1>1, <1>4, <1>6 DEF MarkRow, Fresh
<1>8. MarkFailed(u) /\ deliveries'[i].status = "failed" /\ deliveries[i].status # "failed"
  BY <1>1, <1>4, <1>7 DEF MarkFailed, Fresh
<1>9. UNCHANGED saved /\ Carried(shell'[u]) \subseteq Carried(shell[u])
  <2>1. \A st : Become(u, st) => shell'[u] = st
    BY DEF Become, TypeInv
  <2>2. NextRow(shell[u]).results = shell[u].results
    BY DEF TypeInv, TypeOK, ShellState, NextRow
  <2>3. Carried([Waiting EXCEPT !.pc = "reply", !.role = shell[u].role]) = {}
    <3>1. [Waiting EXCEPT !.pc = "reply", !.role = shell[u].role].results = <<>>
      BY DEF Waiting
    <3>2. DOMAIN <<>> = {}
      OBVIOUS
    <3> QED BY <3>1, <3>2 DEF Carried
  <2> QED BY <1>8, <2>1, <2>2, <2>3 DEF MarkFailed, World, client, Carried
<1>10. \A s \in Shells : i \in Carried(shell[s]) \cup ToSet(saved[s]) => s = u
  <2> SUFFICES ASSUME NEW s \in Shells, i \in Carried(shell[s]) \cup ToSet(saved[s]) PROVE s = u
    OBVIOUS
  <2>1. /\ shell[s] \in ShellState /\ saved[s] \in Seq(Ids) /\ Placed(shell[s])
        /\ Lists(saved[s], IdsOf(shell[s].results), shell[s].todo, Owner[s], deliveries)
    BY DEF TypeInv, TypeOK, Ledger, LedgerOK
  <2>2. CASE i \in Carried(shell[s])
    <3>1. PICK j \in 1 .. Len(shell[s].results) : i = IdsOf(shell[s].results)[j]
      BY <2>1, <2>2, CarriedIds
    <3>2. j \in 1 .. Len(IdsOf(shell[s].results))
      BY <2>1, <3>1, IdsOfFacts DEF ShellState
    <3>3. deliveries[i].to = Owner[s]
      BY <2>1, <3>1, <3>2 DEF Lists, Owned
    <3>4. shell[s].results # <<>>
      BY <3>1, EmptySeq
    <3> QED BY <1>1, <1>3, <2>1, <3>3, <3>4, SoleFacts DEF Placed
  <2>3. CASE i \in ToSet(saved[s])
    <3>1. PICK j \in 1 .. Len(saved[s]) : i = saved[s][j]
      BY <2>1, <2>3, LenProperties DEF ToSet
    <3>2. deliveries[i].to = Owner[s]
      BY <2>1, <3>1 DEF Lists, Owned
    <3>3. saved[s] # <<>>
      BY <3>1, EmptySeq
    <3> QED BY <1>1, <1>3, <3>2, <3>3, SoleFacts
  <2> QED BY <2>2, <2>3
<1>11. i \notin Carried(shell[u]) \cup ToSet(saved[u])
  <2>1. /\ shell[u] \in ShellState /\ saved[u] \in Seq(Ids)
        /\ Lists(saved[u], IdsOf(shell[u].results), shell[u].todo, Owner[u], deliveries)
    BY DEF TypeInv, TypeOK, Ledger, LedgerOK
  <2>2. i \notin ToSet(saved[u])
    BY <1>1, <1>6, <2>1, LenProperties DEF Lists, Apart, ToSet
  <2>3. Len(IdsOf(shell[u].results)) = Len(shell[u].results)
    BY <2>1, IdsOfFacts DEF ShellState
  <2>4. i \notin Carried(shell[u])
    BY <1>1, <1>6, <2>1, <2>3, CarriedIds DEF Lists, Apart
  <2> QED BY <2>2, <2>4
<1>12. \A s \in Shells \ {u} : shell'[s] = shell[s]
  BY <1>8, ShellMoves DEF Collect, Moves
<1>13. open \subseteq Shells
  BY DEF TypeInv, TypeOK
<1>14. \A s \in open : i \notin Carried(shell'[s]) \cup ToSet(saved'[s])
  BY <1>9, <1>10, <1>11, <1>12, <1>13
<1> QED BY <1>8, <1>14

\* What a sole shell has at hand and what it has to do, after a step.
LEMMA FreshNext ==
  ASSUME TypeInv, Ledger, Alone, [Next]_vars, NEW s \in Shells, Sole(s)
  PROVE  Fresh(shell'[s], deliveries')
<1> DEFINE old == shell[s]
<1>a. /\ old \in ShellState /\ Placed(old) /\ Fresh(old, deliveries)
      /\ Lists(saved[s], IdsOf(old.results), old.todo, Owner[s], deliveries)
      /\ old.todo \in Seq(Ids) /\ Len(old.todo) \in Nat
  BY LenProperties DEF TypeInv, TypeOK, Ledger, LedgerOK, Alone, ShellState
<1>b. \A st : Become(s, st) => shell'[s] = st
  BY DEF Become, TypeInv
\* Its rows, unless it marks the first of them.
<1>c. \A k \in 1 .. Len(old.todo) :
        /\ old.todo[k] \in 1 .. Len(deliveries) /\ deliveries[old.todo[k]].to = Owner[s]
        /\ \/ deliveries'[old.todo[k]].status = deliveries[old.todo[k]].status
           \/ k = 1 /\ MarkRow(s) /\ deliveries'[old.todo[k]].status = old.outcome
           \/ k = 1 /\ MarkFailed(s)
  <2> SUFFICES ASSUME NEW k \in 1 .. Len(old.todo),
                      deliveries'[old.todo[k]].status # deliveries[old.todo[k]].status
               PROVE  /\ k = 1
                      /\ (MarkRow(s) /\ deliveries'[old.todo[k]].status = old.outcome) \/ MarkFailed(s)
    BY <1>a DEF Lists, Owned
  <2>1. old.todo[k] \in 1 .. Len(deliveries) /\ deliveries[old.todo[k]].to = Owner[s]
    BY <1>a DEF Lists, Owned
  <2>2. /\ old.todo # <<>> /\ old.todo[k] = Head(old.todo)
        /\ (MarkRow(s) /\ deliveries'[old.todo[k]].status = old.outcome) \/ MarkFailed(s)
    BY <2>1, SoleStatus
  <2>3. Head(old.todo) = old.todo[1] /\ 1 \in 1 .. Len(old.todo)
    BY <1>a, <2>2, TailFacts
  <2> QED BY <1>a, <2>2, <2>3 DEF Lists, Distinct
<1>d. old.todo # <<>> => 1 \in 1 .. Len(old.todo) /\ Head(old.todo) = old.todo[1]
  BY <1>a, TailFacts
<1> HIDE DEF old
\* Nothing left to do.
<1>e. ASSUME NEW st, st.todo = <<>>, st.pc \notin {"mark", "log", "fail"} PROVE Fresh(st, deliveries')
  BY <1>e, EmptySeq DEF Fresh
\* The same rows, before the first is marked.
<1>f. ASSUME NEW st, st.todo = old.todo, old.pc \in WorkPcs \ {"log", "fail"},
             ~MarkRow(s) /\ ~MarkFailed(s), st.pc = "mark" => st.outcome # "failed", st.pc # "log"
      PROVE  Fresh(st, deliveries')
  <2>1. \A k \in 1 .. Len(st.todo) : deliveries'[st.todo[k]].status = "pending"
    BY <1>a, <1>c, <1>f DEF Fresh
  <2>2. old.todo # <<>>
    BY <1>a, <1>f DEF Placed
  <2>3. deliveries'[Head(st.todo)].status = "pending"
    BY <1>d, <1>f, <2>1, <2>2
  <2> QED BY <1>f, <2>1, <2>3 DEF Fresh
\* One row less.
<1>g. ASSUME NEW st, st.todo = Tail(old.todo), st.pc \in {"reply", "inode"}, old.todo # <<>>
      PROVE  Fresh(st, deliveries')
  <2>1. /\ Len(st.todo) = Len(old.todo) - 1
        /\ \A k \in 1 .. Len(old.todo) - 1 : st.todo[k] = old.todo[k + 1]
    BY <1>a, <1>g, TailFacts
  <2>2. \A k \in 1 .. Len(st.todo) : k + 1 \in 1 .. Len(old.todo) /\ k + 1 > 1 /\ k + 1 # 1
    BY <1>a, <2>1
  <2>3. \A k \in 1 .. Len(st.todo) : deliveries'[st.todo[k]].status = "pending"
    BY <1>a, <1>c, <2>1, <2>2 DEF Fresh
  <2> QED BY <1>g, <2>3 DEF Fresh
<1>1. CASE SelectPending(s)
  <2>1. PICK todo \in SeqOf(Ids, Len(deliveries)) :
          /\ ToSet(todo) = Pending(Owner[s])
          /\ Become(s, [old EXCEPT !.todo = todo, !.pc = IF todo = <<>> THEN "reply" ELSE "inode"])
    BY <1>1 DEF SelectPending, old
  <2> DEFINE st == [old EXCEPT !.todo = todo, !.pc = IF todo = <<>> THEN "reply" ELSE "inode"]
  <2>2. st.todo = todo /\ st.pc \in {"reply", "inode"}
    BY <1>a DEF ShellState
  <2>3. DOMAIN todo = 1 .. Len(todo)
    <3>1. PICK m \in 0 .. Len(deliveries) : todo \in [1 .. m -> Ids]
      BY DEF SeqOf
    <3>2. m \in Nat
      BY <3>1, LenProperties DEF TypeInv, TypeOK
    <3> QED BY <3>1, <3>2, SeqDef, LenProperties
  <2>4. \A k \in 1 .. Len(todo) : deliveries[todo[k]].status = "pending"
    BY <2>1, <2>3 DEF ToSet, Pending
  <2>5. UNCHANGED deliveries
    BY <1>1 DEF SelectPending
  <2> HIDE DEF st
  <2> QED BY <1>b, <2>1, <2>2, <2>4, <2>5 DEF Fresh, st
<1>2. CASE GetInode(s) \/ GetMeta(s) \/ DecryptAndMask(s)
  <2>1. old.pc \in {"inode", "meta", "open"} /\ ~MarkRow(s) /\ ~MarkFailed(s)
    BY <1>2 DEF GetInode, GetMeta, DecryptAndMask, MarkRow, MarkFailed, old
  <2>2. ASSUME NEW st, Become(s, st), st.todo = old.todo, st.pc = "mark" => st.outcome # "failed",
               st.pc # "log"
        PROVE  Fresh(shell'[s], deliveries')
    BY <1>b, <1>f, <2>1, <2>2 DEF WorkPcs
  <2>3. ASSUME NEW pc \in {"meta", "fail"}, Become(s, [old EXCEPT !.pc = pc])
        PROVE  Fresh(shell'[s], deliveries')
    <3>1. [old EXCEPT !.pc = pc].pc = pc /\ [old EXCEPT !.pc = pc].todo = old.todo
      BY <1>a DEF ShellState
    <3> QED BY <2>2, <2>3, <3>1
  <2>4. CASE GetInode(s)
    <3>1. LET st == [old EXCEPT !.pc = "mark", !.outcome = "skipped"]
          IN st.pc = "mark" /\ st.outcome = "skipped" /\ st.todo = old.todo
      BY <1>a DEF ShellState
    <3> QED BY <2>2, <2>3, <2>4, <3>1 DEF GetInode, old
  <2>5. CASE GetMeta(s)
    <3>1. \A b : LET st == [old EXCEPT !.pc = "open", !.blob = b]
                 IN st.pc = "open" /\ st.todo = old.todo
      BY <1>a DEF ShellState
    <3> QED BY <2>2, <2>3, <2>5, <3>1 DEF GetMeta, old
  <2>6. CASE DecryptAndMask(s)
    <3>1. \A masked : LET st == Prepare(old, masked)
                      IN st.pc = "mark" /\ st.outcome = "delivered" /\ st.todo = old.todo
      BY <1>a DEF Prepare, ShellState
    <3> QED BY <2>2, <2>3, <2>6, <3>1 DEF DecryptAndMask, old
  <2> QED BY <1>2, <2>4, <2>5, <2>6
<1>3. CASE MarkRow(s)
  <2>1. old.pc = "mark" /\ ~MarkFailed(s) /\ old.todo # <<>>
    BY <1>a, <1>3 DEF MarkRow, MarkFailed, old, Placed, WorkPcs
  <2>2. PICK pc \in {"log", "fail"} : Become(s, [old EXCEPT !.pc = pc])
    BY <1>3 DEF MarkRow, Goto, old
  <2> DEFINE st == [old EXCEPT !.pc = pc]
  <2>3. st.pc = pc /\ st.todo = old.todo
    BY <1>a DEF ShellState
  <2> HIDE DEF st
  <2>4. deliveries'[Head(old.todo)].status # "failed"
    BY <1>a, <1>c, <1>d, <2>1 DEF Fresh
  <2>5. \A k \in 1 .. Len(old.todo) : k > 1 => k # 1
    BY <1>a
  <2>6. \A k \in 1 .. Len(old.todo) : k > 1 => deliveries'[old.todo[k]].status = "pending"
    BY <1>a, <1>c, <2>5 DEF Fresh
  <2>7. Fresh(st, deliveries')
    BY <2>3, <2>4, <2>6 DEF Fresh
  <2> QED BY <1>b, <2>2, <2>7 DEF st
<1>4. CASE LogOutcome(s)
  <2>1. /\ old.pc = "log" /\ UNCHANGED deliveries /\ old.todo # <<>>
        /\ \/ Become(s, NextRow([old EXCEPT !.results = Collected(old)]))
           \/ Become(s, [old EXCEPT !.pc = "fail"])
    BY <1>a, <1>4 DEF LogOutcome, Goto, old, Placed, WorkPcs
  <2>2. LET st == NextRow([old EXCEPT !.results = Collected(old)])
        IN st.todo = Tail(old.todo) /\ st.pc \in {"reply", "inode"}
    BY <1>a DEF NextRow, ShellState
  <2>3. LET st == [old EXCEPT !.pc = "fail"]
        IN st.todo = old.todo /\ st.pc = "fail"
    BY <1>a DEF ShellState
  <2>4. Fresh([old EXCEPT !.pc = "fail"], deliveries)
    BY <1>a, <2>1, <2>3 DEF Fresh
  <2> QED BY <1>b, <1>g, <2>1, <2>2, <2>4
<1>5. CASE MarkFailed(s)
  <2>1. /\ old.pc = "fail" /\ old.todo # <<>>
        /\ \/ Become(s, NextRow(old))
           \/ Become(s, [Waiting EXCEPT !.pc = "reply", !.role = old.role])
    BY <1>a, <1>5 DEF MarkFailed, old, Placed, WorkPcs
  <2>2. NextRow(old).todo = Tail(old.todo) /\ NextRow(old).pc \in {"reply", "inode"}
    BY <1>a DEF NextRow, ShellState
  <2>3. LET st == [Waiting EXCEPT !.pc = "reply", !.role = old.role]
        IN st.todo = <<>> /\ st.pc = "reply"
    BY DEF Waiting
  <2> QED BY <1>b, <1>e, <1>g, <2>1, <2>2, <2>3
<1>6. Waiting.todo = <<>> /\ Waiting.pc = "ask"
  BY DEF Waiting
<1>7. CASE Reply(s)
  <2>1. LET st == [Waiting EXCEPT !.pc = "name", !.results = old.results]
        IN st.todo = <<>> /\ st.pc = "name"
    BY DEF Waiting
  <2> QED BY <1>b, <1>e, <1>6, <1>7, <2>1 DEF Reply, old
<1>8. CASE Save(s)
  <2>1. old.todo = <<>> /\ old.pc \in {"name", "write"}
    BY <1>a, <1>8 DEF Save, ChooseName, WriteFile, old, Placed, WorkPcs
  <2>2. CASE ChooseName(s)
    <3>1. LET st == [old EXCEPT !.pc = "write", !.counter = FreeNumber(s)]
          IN st.todo = <<>> /\ st.pc = "write"
      BY <1>a, <2>1 DEF ShellState
    <3> QED BY <1>b, <1>e, <2>2, <3>1 DEF ChooseName, old
  <2>3. CASE WriteFile(s)
    <3>1. LET st == [old EXCEPT !.pc = "name", !.results = Tail(old.results)]
          IN st.todo = <<>> /\ st.pc = "name"
      BY <1>a, <2>1 DEF ShellState
    <3>2. \/ Become(s, Waiting) \/ Become(s, [old EXCEPT !.pc = "name", !.results = Tail(old.results)])
      BY <2>3 DEF WriteFile, old
    <3> QED BY <1>b, <1>e, <1>6, <3>1, <3>2
  <2> QED BY <1>8, <2>2, <2>3 DEF Save
<1>9. ASSUME NEW command, Ask(s, command) PROVE Fresh(shell'[s], deliveries')
  <2>1. LET st == [Waiting EXCEPT !.pc = "select", !.role = session[Owner[s]]]
        IN st.todo = <<>> /\ st.pc = "select"
    BY DEF Waiting
  <2> QED BY <1>b, <1>e, <1>9, <2>1 DEF Ask
<1>10. CASE shell'[s] \in {Waiting, old} /\ ~MarkRow(s) /\ ~MarkFailed(s)
  <2>1. CASE shell'[s] = Waiting
    BY <1>e, <1>6, <2>1
  <2>2. CASE shell'[s] = old
    <3>1. \A k \in 1 .. Len(old.todo) : deliveries'[old.todo[k]].status = deliveries[old.todo[k]].status
      BY <1>c, <1>10
    <3>2. old.pc \in {"log", "fail"} =>
            deliveries'[Head(old.todo)].status = deliveries[Head(old.todo)].status
      BY <1>a, <1>d, <3>1 DEF Placed, WorkPcs
    <3> QED BY <1>a, <2>2, <3>1, <3>2 DEF Fresh
  <2> QED BY <1>10, <2>1, <2>2
<1>11. CASE Restart
  <2>1. shell'[s] \in {Waiting, old}
    BY <1>11 DEF Restart, old
  <2> QED BY <1>3, <1>5, <1>10, <2>1
<1>12. CASE UNCHANGED shell
  BY <1>3, <1>5, <1>10, <1>12 DEF old
<1>13. ASSUME NEW u \in Shells \ {s}, Moves(u) PROVE Fresh(shell'[s], deliveries')
  <2>1. shell'[s] = old
    BY <1>13 DEF Moves, old
  <2> QED BY <1>3, <1>5, <1>10, <2>1
<1>14. \/ UNCHANGED shell \/ Restart
       \/ \E u \in Shells : Collect(u) \/ Save(u) \/ \E command : Ask(u, command)
  BY DEF Next, vars, Login, ChangeAccount, ChangeFiles, UnlinkBlob, NameBlob,
     DeleteRows, Send, SendRequest, CheckTarget, ResolveFile, CreateDelivery, SendVars
<1>15. CASE \E u \in Shells : Collect(u) \/ Save(u) \/ \E command : Ask(u, command)
  <2>1. PICK u \in Shells : Collect(u) \/ Save(u) \/ \E command : Ask(u, command)
    BY <1>15
  <2>2. CASE u # s
    BY <1>13, <2>1, <2>2, ShellMoves
  <2>3. CASE u = s
    BY <1>1, <1>2, <1>3, <1>4, <1>5, <1>7, <1>8, <1>9, <2>1, <2>3 DEF Collect
  <2> QED BY <2>2, <2>3
<1> QED BY <1>11, <1>12, <1>14, <1>15

\* A step of another shell, or of none.
LEMMA StepKinds ==
  ASSUME [Next]_vars
  PROVE  \/ UNCHANGED <<shell, saved, downloads>> \/ Restart
         \/ \E u \in Shells : Collect(u) \/ Save(u) \/ \E command : Ask(u, command)
BY DEF Next, vars, client, Login, ChangeAccount, ChangeFiles, UnlinkBlob, NameBlob,
   DeleteRows, Send, SendRequest, CheckTarget, ResolveFile, CreateDelivery, SendVars

\* The name chosen for a file stays the name of that file.
LEMMA NameKept ==
  ASSUME TypeInv, Ledger, [Next]_vars, NEW s \in Shells, shell[s].results # <<>>,
         Head(shell'[s].results) = Head(shell[s].results), NEW k
  PROVE  NameOf(s, k)' = NameOf(s, k)
<1> DEFINE id == Head(shell[s].results).id
<1>1. shell[s].results \in Seq(Copy)
  BY DEF TypeInv, TypeOK, ShellState
<1>2. /\ 1 \in 1 .. Len(shell[s].results) /\ Head(shell[s].results) = shell[s].results[1]
      /\ Len(IdsOf(shell[s].results)) = Len(shell[s].results) /\ IdsOf(shell[s].results)[1] = id
  BY <1>1, TailFacts, IdsOfFacts
<1>3. id \in 1 .. Len(deliveries)
  BY <1>2 DEF Ledger, LedgerOK, Lists, Owned
<1>4. deliveries'[id].file = deliveries[id].file /\ deliveries'[id].unmasked = deliveries[id].unmasked
  BY <1>3, RowsStep DEF RowsKept
<1> QED BY <1>4 DEF NameOf

\* WriteFile adds one name.
LEMMA WriteFileNames ==
  ASSUME NEW u \in Shells, WriteFile(u)
  PROVE  \/ UNCHANGED <<downloads, saved>>
         \/ LET dest == NameOf(u, shell[u].counter)
            IN /\ downloads' = [n \in DOMAIN downloads \cup {dest} |->
                                  IF n = dest THEN Head(shell[u].results) ELSE downloads[n]]
               /\ saved' = [saved EXCEPT ![u] = Append(@, Head(shell[u].results).id)]
BY DEF WriteFile, client

\* What the only shell has named and saved, after a step.
LEMMA FolderNext ==
  ASSUME TypeInv, Ledger, Alone, [Next]_vars, NEW s \in Shells, Only(s)
  PROVE  Named(s)' /\ InFolder(saved'[s], downloads')
<1>a. /\ shell[s] \in ShellState /\ Placed(shell[s]) /\ saved[s] \in Seq(Ids)
      /\ Named(s) /\ InFolder(saved[s], downloads)
  BY DEF TypeInv, TypeOK, Alone
<1>b. \A st : Become(s, st) => shell'[s] = st
  BY DEF Become, TypeInv
\* Neither the folder nor its own files change, nor a name it has chosen.
<1>c. ASSUME UNCHANGED downloads, saved'[s] = saved[s], shell'[s].pc # "write" \/ shell'[s] = shell[s]
      PROVE  Named(s)' /\ InFolder(saved'[s], downloads')
  <2>1. CASE shell'[s].pc # "write"
    BY <1>a, <1>c, <2>1 DEF Named
  <2>2. CASE shell'[s] = shell[s] /\ shell[s].pc = "write"
    <3>1. shell[s].results # <<>>
      BY <1>a, <2>2 DEF Placed
    <3>2. NameOf(s, shell[s].counter)' = NameOf(s, shell[s].counter)
      <4>1. \A k : NameOf(s, k)' = NameOf(s, k)
        BY <2>2, <3>1, NameKept
      <4> QED BY <2>2, <4>1 DEF NameOf
    <3> QED BY <1>a, <1>c, <2>2, <3>2 DEF Named
  <2> QED BY <1>c, <2>1, <2>2
<1>1. CASE UNCHANGED <<shell, saved, downloads>>
  BY <1>1, <1>c
<1>2. CASE Restart
  <2>1. UNCHANGED <<saved, downloads>> /\ shell'[s] \in {Waiting, shell[s]}
    BY <1>2 DEF Restart, client
  <2>2. Waiting.pc = "ask"
    BY DEF Waiting
  <2> QED BY <1>c, <2>1, <2>2
<1>3. ASSUME NEW u \in Shells, \E command : Ask(u, command) PROVE Named(s)' /\ InFolder(saved'[s], downloads')
  <2>1. UNCHANGED <<saved, downloads>>
    BY <1>3 DEF Ask, World, client
  <2>2. CASE u # s
    BY <1>3, <1>c, <2>1, <2>2, ShellMoves DEF Moves
  <2>3. CASE u = s
    <3>1. \A r : [Waiting EXCEPT !.pc = "select", !.role = r].pc = "select"
      BY DEF Waiting
    <3>2. shell'[s].pc = "select"
      BY <1>3, <1>b, <2>3, <3>1 DEF Ask
    <3> QED BY <1>c, <2>1, <3>2
  <2> QED BY <2>2, <2>3
<1>4. ASSUME NEW u \in Shells, Collect(u) PROVE Named(s)' /\ InFolder(saved'[s], downloads')
  <2>1. UNCHANGED <<saved, downloads>>
    BY <1>4 DEF Collect, SelectPending, GetInode, GetMeta, DecryptAndMask, MarkRow, LogOutcome,
       MarkFailed, Reply, Local, World, client
  <2>2. CASE u # s
    BY <1>4, <1>c, <2>1, <2>2, ShellMoves DEF Moves
  <2>3. CASE u = s
    <3>1. shell'[s].pc # "write"
      <4>1. CASE SelectPending(s)
        <5>1. \A todo : [shell[s] EXCEPT !.todo = todo, !.pc = IF todo = <<>> THEN "reply" ELSE "inode"].pc
                        # "write"
          BY <1>a DEF ShellState
        <5> QED BY <1>b, <4>1, <5>1 DEF SelectPending
      <4>2. CASE GetInode(s)
        <5>1. /\ [shell[s] EXCEPT !.pc = "meta"].pc # "write"
              /\ [shell[s] EXCEPT !.pc = "mark", !.outcome = "skipped"].pc # "write"
          BY <1>a DEF ShellState
        <5> QED BY <1>b, <4>2, <5>1 DEF GetInode
      <4>3. CASE GetMeta(s)
        <5>1. /\ [shell[s] EXCEPT !.pc = "fail"].pc # "write"
              /\ \A b : [shell[s] EXCEPT !.pc = "open", !.blob = b].pc # "write"
          BY <1>a DEF ShellState
        <5> QED BY <1>b, <4>3, <5>1 DEF GetMeta
      <4>4. CASE DecryptAndMask(s)
        <5>1. /\ [shell[s] EXCEPT !.pc = "fail"].pc # "write"
              /\ \A masked : Prepare(shell[s], masked).pc # "write"
          BY <1>a DEF ShellState, Prepare
        <5> QED BY <1>b, <4>4, <5>1 DEF DecryptAndMask
      <4>5. CASE MarkRow(s)
        <5>1. [shell[s] EXCEPT !.pc = "fail"].pc # "write" /\ [shell[s] EXCEPT !.pc = "log"].pc # "write"
          BY <1>a DEF ShellState
        <5> QED BY <1>b, <4>5, <5>1 DEF MarkRow, Goto
      <4>6. CASE LogOutcome(s)
        <5>1. /\ [shell[s] EXCEPT !.pc = "fail"].pc # "write"
              /\ NextRow([shell[s] EXCEPT !.results = Collected(shell[s])]).pc # "write"
          BY <1>a DEF ShellState, NextRow
        <5> QED BY <1>b, <4>6, <5>1 DEF LogOutcome, Goto
      <4>7. CASE MarkFailed(s)
        <5>1. /\ [Waiting EXCEPT !.pc = "reply", !.role = shell[s].role].pc # "write"
              /\ NextRow(shell[s]).pc # "write"
          BY <1>a DEF ShellState, NextRow, Waiting
        <5> QED BY <1>b, <4>7, <5>1 DEF MarkFailed
      <4>8. CASE Reply(s)
        <5>1. /\ [Waiting EXCEPT !.pc = "name", !.results = shell[s].results].pc # "write"
              /\ Waiting.pc # "write"
          BY DEF Waiting
        <5> QED BY <1>b, <4>8, <5>1 DEF Reply
      <4> QED BY <1>4, <2>3, <4>1, <4>2, <4>3, <4>4, <4>5, <4>6, <4>7, <4>8 DEF Collect
    <3> QED BY <1>c, <2>1, <3>1
  <2> QED BY <2>2, <2>3
<1>5. ASSUME NEW u \in Shells, ChooseName(u) PROVE Named(s)' /\ InFolder(saved'[s], downloads')
  <2>1. UNCHANGED <<saved, downloads>> /\ shell[u].pc = "name"
    BY <1>5 DEF ChooseName, client
  <2>2. CASE u # s
    BY <1>5, <1>c, <2>1, <2>2, ShellMoves DEF Moves, Save
  <2>3. CASE u = s
    <3> DEFINE st == [shell[s] EXCEPT !.pc = "write", !.counter = FreeNumber(s)]
    <3>1. shell'[s] = st
      BY <1>5, <1>b, <2>3 DEF ChooseName
    <3>2. st.counter = FreeNumber(s) /\ st.results = shell[s].results
      BY <1>a DEF ShellState
    <3> HIDE DEF st
    <3>3. shell[s].results # <<>>
      BY <1>a, <2>1, <2>3 DEF Placed
    <3>4. \A k : NameOf(s, k)' = NameOf(s, k)
      BY <3>1, <3>2, <3>3, NameKept
    <3>5. NameOf(s, FreeNumber(s)) \notin DOMAIN downloads
      BY FreeNumberFacts
    <3>6. NameOf(s, shell[s].counter)' = NameOf(s, FreeNumber(s))
      BY <3>1, <3>2, <3>4 DEF NameOf
    <3>7. Named(s)'
      BY <2>1, <3>5, <3>6 DEF Named
    <3> QED BY <1>a, <2>1, <3>7
  <2> QED BY <2>2, <2>3
<1>6. ASSUME NEW u \in Shells, WriteFile(u) PROVE Named(s)' /\ InFolder(saved'[s], downloads')
  <2> DEFINE dest == NameOf(u, shell[u].counter)
  <2>1. shell[u].pc = "write"
    BY <1>6 DEF WriteFile
  <2>2. u = s => shell'[s].pc # "write"
    <3>1. [shell[s] EXCEPT !.pc = "name", !.results = Tail(shell[s].results)].pc # "write"
      BY <1>a DEF ShellState
    <3>2. Waiting.pc # "write"
      BY DEF Waiting
    <3> QED BY <1>6, <1>b, <3>1, <3>2 DEF WriteFile
  <2>3. u # s => shell'[s] = shell[s] /\ saved'[s] = saved[s]
    BY <1>6, ShellMoves DEF Moves, Save
  <2>4. CASE UNCHANGED <<downloads, saved>>
    BY <1>c, <2>2, <2>3, <2>4
  <2>5. CASE /\ downloads' = [n \in DOMAIN downloads \cup {dest} |->
                                IF n = dest THEN Head(shell[u].results) ELSE downloads[n]]
             /\ saved' = [saved EXCEPT ![u] = Append(@, Head(shell[u].results).id)]
    <3> HIDE DEF dest
    <3>1. /\ DOMAIN downloads' = DOMAIN downloads \cup {dest}
          /\ downloads'[dest] = Head(shell[u].results)
          /\ \A n \in DOMAIN downloads \ {dest} : downloads'[n] = downloads[n]
      BY <2>5
    <3>2. u = s
      BY <2>1 DEF Alone, Idle, Only
    <3>3. dest \notin DOMAIN downloads
      BY <1>a, <2>1, <3>2 DEF Named, dest
    <3>4. saved'[s] = Append(saved[s], Head(shell[s].results).id)
      BY <2>5, <3>2 DEF TypeInv, TypeOK
    <3>5. Head(shell[s].results).id \in Ids
      <4>1. shell[s].results \in Seq(Copy) /\ shell[s].results # <<>>
        BY <1>a, <2>1, <3>2 DEF ShellState, Placed
      <4>2. Head(shell[s].results) \in Copy
        BY <4>1, TailFacts
      <4> QED BY <4>2 DEF Copy
    <3>6. /\ Len(saved[s]) \in Nat /\ Len(saved'[s]) = Len(saved[s]) + 1
          /\ \A i \in 1 .. Len(saved[s]) : saved'[s][i] = saved[s][i]
          /\ saved'[s][Len(saved[s]) + 1] = Head(shell[s].results).id
      BY <1>a, <3>4, <3>5, AppendFacts
    <3>7. \A i \in 1 .. Len(saved'[s]) : i \in 1 .. Len(saved[s]) \/ i = Len(saved[s]) + 1
      BY <3>6
    <3>8. \A i \in 1 .. Len(saved[s]) :
            \E n \in DOMAIN downloads' : downloads'[n].id = saved[s][i]
      BY <1>a, <3>1, <3>3 DEF InFolder
    <3>9. dest \in DOMAIN downloads' /\ downloads'[dest].id = Head(shell[s].results).id
      BY <2>5, <3>1, <3>2
    <3>10. InFolder(saved'[s], downloads')
      BY <3>6, <3>7, <3>8, <3>9 DEF InFolder
    <3> QED BY <2>2, <3>2, <3>10 DEF Named
  <2> QED BY <1>6, <2>4, <2>5, WriteFileNames
<1> QED BY <1>1, <1>2, <1>3, <1>4, <1>5, <1>6, StepKinds DEF Save

LEMMA AloneNext == TypeInv /\ Ledger /\ Alone /\ [Next]_vars => Alone'
<1> SUFFICES ASSUME TypeInv, Ledger, Alone, [Next]_vars PROVE Alone'
  OBVIOUS
<1>1. UNCHANGED open
  BY DEF Next, vars, Login, ChangeAccount, ChangeFiles, UnlinkBlob, NameBlob, DeleteRows, Send, SendRequest,
     CheckTarget, ResolveFile, CreateDelivery, SendVars, Restart, Collect, SelectPending, GetInode,
     GetMeta, DecryptAndMask, MarkRow, LogOutcome, MarkFailed, Reply, Local, World, Save, ChooseName,
     WriteFile, ClientVars, Ask
<1>2. ASSUME NEW s \in Shells \ open PROVE Idle(s)'
  <2>1. Idle(s)
    BY DEF Alone
  <2>2. CASE UNCHANGED <<shell, saved, downloads>>
    BY <2>1, <2>2 DEF Idle
  <2>3. CASE Restart
    <3>1. UNCHANGED saved /\ shell'[s] \in {Waiting, shell[s]}
      BY <2>3 DEF Restart, client
    <3>2. Waiting.pc = "ask"
      BY DEF Waiting
    <3> QED BY <2>1, <3>1, <3>2 DEF Idle
  <2>4. ASSUME NEW u \in Shells, Collect(u) \/ Save(u) \/ \E command : Ask(u, command) PROVE Idle(s)'
    <3>1. Moves(u)
      BY <2>4, ShellMoves
    <3>2. u # s
      BY <2>1, <3>1 DEF Moves, Idle
    <3> QED BY <2>1, <3>1, <3>2 DEF Moves, Idle
  <2> QED BY <2>2, <2>3, <2>4, StepKinds
<1>3. ASSUME NEW s \in Shells, Sole(s)' PROVE Fresh(shell'[s], deliveries')
  BY <1>1, <1>3, FreshNext DEF Sole, OneShell
<1>4. ASSUME NEW s \in Shells, Only(s)' PROVE Named(s)' /\ InFolder(saved'[s], downloads')
  BY <1>1, <1>4, FolderNext DEF Only
<1> QED BY <1>1, <1>2, <1>3, <1>4 DEF Alone

\* While one shell works on an installation the files it has saved are all in the folder:
\* the name that _process_deliveries finds free is free when the file is written.
THEOREM NothingOverwritten == Spec => []KeptApart
<1>1. TypeInv /\ Alone => KeptApart
  <2> SUFFICES ASSUME TypeInv, Alone, NEW s \in open, Only(s), NEW i \in ToSet(saved[s])
               PROVE  \E n \in DOMAIN downloads : downloads[n].id = i
    BY DEF KeptApart, Only
  <2>1. s \in Shells
    BY DEF TypeInv, TypeOK
  <2>2. InFolder(saved[s], downloads)
    BY <2>1 DEF Alone
  <2>3. DOMAIN saved[s] = 1 .. Len(saved[s])
    BY <2>1, LenProperties DEF TypeInv, TypeOK
  <2> QED BY <2>2, <2>3 DEF InFolder, ToSet
<1> QED BY <1>1, TypeInit, TypeNext, LedgerInit, LedgerNext, AloneInit, AloneNext, PTL DEF Spec

\* With one shell of its recipient a row that has left pending changes only from delivered
\* or skipped to failed, in the outer except of _collect_pending_deliveries, and then its
\* file is neither in the response nor saved.
THEOREM SettledForGood == Spec => SettledStays
<1>1. TypeInv /\ Ledger /\ Alone /\ [Next]_vars =>
        [\A i \in DOMAIN deliveries :
           LET old == deliveries[i].status
               new == deliveries'[i].status
           IN OneShell(deliveries[i].to) /\ old \notin {"pending", new} =>
                /\ new = "failed" /\ old # "failed"
                /\ \A s \in open : i \notin Carried(shell'[s]) \cup ToSet(saved'[s])]_vars
  <2>1. TypeInv => DOMAIN deliveries = 1 .. Len(deliveries)
    BY LenProperties DEF TypeInv, TypeOK
  <2> QED BY <2>1, SettledStep
<1> QED
  BY <1>1, TypeInit, TypeNext, LedgerInit, LedgerNext, AloneInit, AloneNext, PTL DEF Spec, SettledStays

=============================================================================
