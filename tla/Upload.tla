------------------------------- MODULE Upload -------------------------------
(***************************************************************************)
(* The upload command of the client (cmd_vfs_send): one file, or a         *)
(* directory with all its files, with the questions it asks where the      *)
(* server already has a file of that path.                                 *)
(*                                                                         *)
(* A request is one step: what happens inside the server is in Vfs, and    *)
(* how a connection loses its step in Connection.  Between the requests,   *)
(* and while the user thinks about an answer, other clients store and      *)
(* remove files and the user's own files change.                           *)
(***************************************************************************)
EXTENDS Naturals, Sequences, FiniteSets, SequencesExt

CONSTANTS
  Walk,       \* the files of the directory, in the order of os.walk
  Contents,   \* contents of files
  MaxChanges  \* bound: changes by others

Paths == ToSet(Walk)
Absent == "absent"
Bare == "bare"  \* a file without metadata: the stat has no hash
NotRead == "not read"

UploadAssumption ==
  Walk \in Seq(Paths) /\ IsInjective(Walk) /\ Absent \notin Contents /\ MaxChanges \in Nat

VARIABLES
  stored,   \* the content of each path on the server
  local,    \* the content of each file of the user
  dialog,   \* the local variables of cmd_vfs_send
  agreed,   \* history: the paths whose overwriting the user has agreed to
  replaced, \* history: the paths where the command has put a file in place of another
  mine,     \* history: what the command has stored, by path
  changes

vars == <<stored, local, dialog, agreed, replaced, mine, changes>>

Outcomes == {"none", "stored", "failed", "identical", "canceled", "aborted", "counted", "broken"}

\* The dialogue counts no more files than there are, and whoever is still being asked
\* has not been given an outcome.
TypeOK ==
  /\ stored \in [Paths -> Contents \cup {Absent, Bare}] /\ local \in [Paths -> Contents]
  /\ dialog.pc \in {"start", "new", "choice", "answer", "overwrite", "end"}
  /\ dialog.kind \in {"file", "dir"} /\ dialog.outcome \in Outcomes
  /\ (dialog.pc = "end") = (dialog.outcome # "none")
  /\ dialog.ok + dialog.failed <= Len(Walk)
  /\ ToSet(dialog.todo) \cup ToSet(dialog.conflicts) \cup dialog.over \subseteq Paths
  /\ agreed \subseteq Paths /\ replaced \subseteq Paths
  /\ mine \in [Paths -> Contents \cup {Absent}] /\ changes \in 0 .. MaxChanges

Init ==
  /\ stored \in [Paths -> {Absent, Bare} \cup Contents] /\ local \in [Paths -> Contents]
  /\ dialog = [pc |-> "start", kind |-> "file", todo |-> <<>>, conflicts |-> <<>>, over |-> {},
               bytes |-> NotRead, ok |-> 0, failed |-> 0, outcome |-> "none"]
  /\ agreed = {} /\ replaced = {} /\ mine = [p \in Paths |-> Absent] /\ changes = 0

End(outcome) == [dialog EXCEPT !.pc = "end", !.outcome = outcome]

\* What the server does with a vfs_send that it accepts.
Store(p, content) ==
  /\ stored' = [stored EXCEPT ![p] = content]
  /\ replaced' = IF stored[p] = Absent THEN replaced ELSE replaced \cup {p}
  /\ mine' = [mine EXCEPT ![p] = content]

NoStore == UNCHANGED <<stored, replaced, mine>>

-----------------------------------------------------------------------------
(* One file                                                                *)

\* src.read_bytes(): the bytes that are compared are the bytes that are sent.
StartFile(p) ==
  /\ dialog.pc = "start"
  /\ \/ dialog' = [dialog EXCEPT !.pc = "new", !.todo = <<p>>, !.bytes = local[p]]
     \/ dialog' = End("failed")
  /\ NoStore /\ UNCHANGED <<local, agreed, changes>>

\* The server refuses to overwrite unless it is asked to.
Taken(p) == stored[p] # Absent

\* The first request: stored, refused, or answered with the stat of the file there,
\* which ends the command if it has the hash of the bytes.
SendFile ==
  /\ dialog.pc = "new" /\ dialog.kind = "file"
  /\ LET p == Head(dialog.todo)
     IN \/ Taken(p) /\ NoStore
           /\ dialog' = IF stored[p] = dialog.bytes THEN End("identical")
                        ELSE [dialog EXCEPT !.pc = "answer"]
        \/ ~Taken(p) /\ Store(p, dialog.bytes) /\ dialog' = End("stored")
        \/ NoStore /\ dialog' = End("failed")
  /\ UNCHANGED <<local, agreed, changes>>

\* Mutant: the file is read again for the second request.
Resent_Again(p) == local[p]

\* What the second request sends.
Resent(p) == dialog.bytes

\* "Overwrite? [Y/n]", and the second request.
AnswerFile ==
  /\ dialog.pc = "answer"
  /\ LET p == Head(dialog.todo)
     IN \/ dialog' = End("canceled") /\ NoStore /\ UNCHANGED agreed
        \/ agreed' = {p} /\ Store(p, Resent(p)) /\ dialog' = End("stored")
        \/ agreed' = {p} /\ NoStore /\ dialog' = End("failed")
  /\ UNCHANGED <<local, changes>>

-----------------------------------------------------------------------------
(* A directory                                                             *)

\* The directories are made while the tree is walked, whatever the server answers.
StartDir ==
  /\ dialog.pc = "start"
  /\ dialog' \in {[dialog EXCEPT !.pc = "new", !.kind = "dir", !.todo = Walk],
                  [End("canceled") EXCEPT !.kind = "dir"]}
  /\ NoStore /\ UNCHANGED <<local, agreed, changes>>

\* One file after the other: stored, in conflict, or failed because it cannot be read
\* or the server refuses it.
SendNext ==
  /\ dialog.pc = "new" /\ dialog.kind = "dir" /\ dialog.todo # <<>>
  /\ LET p == Head(dialog.todo)
         rest == [dialog EXCEPT !.todo = Tail(@)]
     IN \/ ~Taken(p) /\ Store(p, local[p]) /\ dialog' = [rest EXCEPT !.ok = @ + 1]
        \/ Taken(p) /\ NoStore /\ dialog' = [rest EXCEPT !.conflicts = Append(@, p)]
        \/ NoStore /\ dialog' = [rest EXCEPT !.failed = @ + 1]
  /\ UNCHANGED <<local, agreed, changes>>

AllSent ==
  /\ dialog.pc = "new" /\ dialog.kind = "dir" /\ dialog.todo = <<>>
  /\ dialog' = [dialog EXCEPT !.pc = IF dialog.conflicts = <<>> THEN "overwrite" ELSE "choice"]
  /\ NoStore /\ UNCHANGED <<local, agreed, changes>>

\* [A]bort; anything else that is not offered; [O]verwrite all, [S]kip all or
\* [C]hoose for each, which are all, none or some of the conflicts.
Choose ==
  /\ dialog.pc = "choice"
  /\ \/ dialog' \in {End("aborted"), End("canceled")} /\ UNCHANGED agreed
     \/ \E yes \in SUBSET ToSet(dialog.conflicts) :
          /\ agreed' = yes
          /\ dialog' = [dialog EXCEPT !.pc = "overwrite", !.over = yes]
  /\ NoStore /\ UNCHANGED <<local, changes>>

\* They are treated in the order in which they were found, which is that of the walk.
NextOver == Walk[SelectInSeq(Walk, LAMBDA p : p \in dialog.over)]

\* _vfs_send_file with overwrite: the file is read again.
OverwriteNext ==
  /\ dialog.pc = "overwrite" /\ dialog.over # {}
  /\ LET p == NextOver
         rest == [dialog EXCEPT !.over = @ \ {p}]
     IN \/ Store(p, local[p]) /\ dialog' = [rest EXCEPT !.ok = @ + 1]
        \/ NoStore /\ dialog' = [rest EXCEPT !.failed = @ + 1]
  /\ UNCHANGED <<local, agreed, changes>>

Finish ==
  /\ dialog.pc = "overwrite" /\ dialog.over = {}
  /\ dialog' = End("counted")
  /\ NoStore /\ UNCHANGED <<local, agreed, changes>>

-----------------------------------------------------------------------------
(* Everything else                                                         *)

\* An error that nothing catches ends the command: of the connection, when the request
\* may have been served, or of a local file that is gone when its size is to be shown.
Break ==
  /\ dialog.pc \in {"new", "choice", "answer", "overwrite"} /\ dialog' = End("broken")
  /\ \/ NoStore
     \/ dialog.pc = "new" /\ dialog.todo # <<>>
        /\ LET p == Head(dialog.todo)
           IN ~Taken(p) /\ Store(p, IF dialog.kind = "file" THEN dialog.bytes ELSE local[p])
     \/ dialog.pc = "overwrite" /\ dialog.over # {} /\ Store(NextOver, local[NextOver])
  /\ UNCHANGED <<local, agreed, changes>>

\* Another client stores or removes a file, or the user edits his.
Change(p, content) ==
  /\ changes < MaxChanges /\ changes' = changes + 1
  /\ \/ stored' = [stored EXCEPT ![p] = content] /\ UNCHANGED local
     \/ content \in Contents /\ local' = [local EXCEPT ![p] = content] /\ UNCHANGED stored
  /\ UNCHANGED <<dialog, agreed, replaced, mine>>

UploadFile == (\E p \in Paths : StartFile(p)) \/ SendFile \/ AnswerFile
UploadDir == StartDir \/ SendNext \/ AllSent \/ Choose \/ OverwriteNext \/ Finish

Next ==
  \/ UploadFile \/ UploadDir \/ Break
  \/ \E p \in Paths, content \in Contents \cup {Absent} : Change(p, content)

Spec == Init /\ [][Next]_vars

-----------------------------------------------------------------------------
(* Properties                                                              *)

\* Nothing is put in place of another file unless the user has agreed to it, whoever
\* stores and removes files meanwhile (cmd_vfs_send).
ReplacedAsAgreed == replaced \subseteq agreed

\* The bytes that are stored are those that were compared with the stored version, if
\* it is one file; the user may edit it while he is being asked.
StoredAsCompared ==
  dialog.kind = "file" => \A p \in Paths : mine[p] \in {Absent, dialog.bytes}

\* "Done. n uploaded, m failed, k skipped": every file is counted once, those that are
\* counted as uploaded were stored, and those that were skipped were not.
Skipped == Len(dialog.conflicts) - Cardinality(agreed)
CountsTrue ==
  dialog.outcome = "counted" =>
    /\ dialog.ok + dialog.failed + Skipped = Len(Walk)
    /\ dialog.ok = Cardinality({p \in Paths : mine[p] # Absent})
    /\ \A p \in ToSet(dialog.conflicts) \ agreed : mine[p] = Absent

=============================================================================
