----------------------------- MODULE Connection -----------------------------
(***************************************************************************)
(* One connection: the lines that a peer sends, the server thread that     *)
(* reads and answers them (_handle_conn), and the peer.                    *)
(*                                                                         *)
(* The peer is the shell of the command-line client, which sends a line    *)
(* and waits for one answer (ServerConn.send), or another program, which   *)
(* may send lines ahead.  Bytes are taken together into units; a recv      *)
(* returns any number of those that have arrived.  The last unit of a line *)
(* is its newline.                                                         *)
(*                                                                         *)
(* What a command does is in the other modules; here it takes time.  The   *)
(* socket of the client has a timeout of 10 seconds, which may end any     *)
(* wait.  The completion of the shell sends requests of its own over the   *)
(* same connection and takes every error for an empty list.                *)
(***************************************************************************)
EXTENDS Naturals, Sequences, SequencesExt

CONSTANTS
  MaxPayload,   \* upload.max_bytes, in units
  Slack,        \* what the buffer may hold beyond that
  FileSizes,    \* sizes of the files that are uploaded, in units
  AnswerUnits,  \* units of an answer
  MaxLines      \* bound: lines of a behaviour

SizeAssumption ==
  /\ MaxPayload \in Nat /\ Slack \in Nat \ {0} /\ FileSizes \subseteq Nat /\ AnswerUnits \in Nat \ {0}
  /\ MaxLines \in Nat

VARIABLES
  peer,     \* "shell" or "other"
  sent,     \* history: the lines sent, by number
  up,       \* units on their way to the server
  server,   \* the connection thread: what it is doing, buf, and the line it handles
  answered, \* history: the lines answered, in order
  down,     \* units on their way to the peer
  shell     \* what the shell is doing, its buf in send, and what it took

vars == <<peer, sent, up, server, answered, down, shell>>

Kinds == {"complete", "command", "upload", "blank", "junk"}
Line == [kind : Kinds, size : Nat]  \* size of the file of an upload

\* Unit i of the text with a number; the last one ends it.
Unit == [of : 1 .. MaxLines, at : Nat \ {0}, end : BOOLEAN]
Text(n, units) == [i \in 1 .. units |-> [of |-> n, at |-> i, end |-> i = units]]

\* base64 makes four units of three; the rest of the JSON and the newline are in one.
Encoded(size) == (4 * size + 2) \div 3
Units(line) == 1 + Encoded(line.size)

Untaken == [request |-> 0, answer |-> 0]

\* What the connection and its ends can hold: a line has been sent, an answer is to a
\* line that was answered, and the server keeps no complete line while it reads.
TypeOK ==
  /\ peer \in {"shell", "other"}
  /\ sent \in Seq(Line) /\ Len(sent) <= MaxLines
  /\ up \in Seq(Unit) /\ down \in Seq(Unit)
  /\ server.pc \in {"recv", "split", "dispatch", "closed"} /\ server.buf \in Seq(Unit)
  /\ server.line \in 0 .. Len(sent)
  /\ server.pc = "recv" => \A i \in DOMAIN server.buf : ~server.buf[i].end
  /\ ToSet(answered) \subseteq 1 .. Len(sent)
  /\ shell.pc \in {"ready", "wait", "gone"} /\ shell.buf \in Seq(Unit)
  /\ shell.missed \in Nat /\ shell.taken.answer \in {0} \cup ToSet(answered)

Init ==
  /\ peer \in {"shell", "other"}
  /\ sent = <<>> /\ up = <<>> /\ down = <<>> /\ answered = <<>>
  /\ server = [pc |-> "recv", buf |-> <<>>, line |-> 0]
  /\ shell = [pc |-> "ready", buf |-> <<>>, missed |-> 0, taken |-> Untaken]

\* Everything up to the first end, and what follows it.
FirstEnd(buf) == SelectInSeq(buf, LAMBDA u : u.end)
HasLine(buf) == FirstEnd(buf) > 0
Front1(buf) == SubSeq(buf, 1, FirstEnd(buf))
Rest(buf) == SubSeq(buf, FirstEnd(buf) + 1, Len(buf))
Whole(line) == line[1].at = 1

-----------------------------------------------------------------------------
(* Sending                                                                 *)

Put(line) ==
  /\ Len(sent) < MaxLines
  /\ sent' = Append(sent, line)
  /\ up' = up \o Text(Len(sent'), Units(line))

\* send, the first half: the shell is ready for one request at a time.
Ask(line) ==
  /\ peer = "shell" /\ shell.pc = "ready" /\ line.kind \in {"complete", "command", "upload"}
  /\ Put(line)
  /\ shell' = [shell EXCEPT !.pc = "wait", !.buf = <<>>]
  /\ UNCHANGED <<peer, server, answered, down>>

\* Another program need not wait, and need not send JSON.
OtherLine(line) ==
  /\ peer = "other" /\ server.pc # "closed" /\ line.kind \in {"command", "blank", "junk"}
  /\ Put(line)
  /\ UNCHANGED <<peer, server, answered, down, shell>>

-----------------------------------------------------------------------------
(* _handle_conn                                                            *)

TooLong(buf) == Len(buf) > MaxPayload + Slack

\* A recv of any part of what has arrived; a buffer that is too long ends the
\* connection before any line is taken from it.
Recv(k) ==
  /\ server.pc = "recv" /\ k \in 1 .. Len(up)
  /\ LET buf == server.buf \o SubSeq(up, 1, k)
     IN server' = IF TooLong(buf) THEN [pc |-> "closed", buf |-> <<>>, line |-> 0]
                  ELSE [server EXCEPT !.pc = "split", !.buf = buf]
  /\ up' = SubSeq(up, k + 1, Len(up))
  /\ UNCHANGED <<peer, sent, answered, down, shell>>

\* Mutant: what follows the line in the buffer is thrown away.
Kept_None(buf) == <<>>

\* What stays in the buffer when a line has been split off.
Kept(buf) == Rest(buf)

\* The next line: a blank one is skipped, others are dispatched or found invalid.
Split ==
  /\ server.pc = "split"
  /\ server' =
       IF ~HasLine(server.buf) THEN [server EXCEPT !.pc = "recv"]
       ELSE LET n == Front1(server.buf)[1].of
            IN [server EXCEPT !.buf = Kept(@),
                              !.pc = IF sent[n].kind = "blank" THEN "split" ELSE "dispatch",
                              !.line = IF sent[n].kind = "blank" THEN 0 ELSE n]
  /\ UNCHANGED <<peer, sent, up, answered, down, shell>>

\* _dispatch has returned, or the line is not JSON: one answer.  If the peer is gone,
\* sendall fails and the connection is closed.
Answer ==
  /\ server.pc = "dispatch"
  /\ IF shell.pc = "gone"
     THEN server' = [pc |-> "closed", buf |-> <<>>, line |-> 0] /\ UNCHANGED <<answered, down>>
     ELSE /\ server' = [server EXCEPT !.pc = "split", !.line = 0]
          /\ answered' = Append(answered, server.line)
          /\ down' = IF peer = "shell" THEN down \o Text(server.line, AnswerUnits) ELSE down
  /\ UNCHANGED <<peer, sent, up, shell>>

\* recv returns nothing: the peer has closed.
HangUp ==
  /\ server.pc = "recv" /\ shell.pc = "gone" /\ up = <<>>
  /\ server' = [pc |-> "closed", buf |-> <<>>, line |-> 0]
  /\ UNCHANGED <<peer, sent, up, answered, down, shell>>

-----------------------------------------------------------------------------
(* ServerConn.send, the second half, and what the shell does with its errors *)

Request == Len(sent)
Completing == sent[Request].kind = "complete"

\* An error in send: the completion takes it for an empty list and the shell goes on
\* with the same connection; a command ends the shell.
SendFails == shell' = [shell EXCEPT !.buf = <<>>,
                                    !.pc = IF Completing THEN "ready" ELSE "gone",
                                    !.missed = IF Completing THEN @ + 1 ELSE @]

\* A recv; with a newline the answer is what comes before it, the rest is dropped.
\* The rest of an answer that was begun before a timeout is not JSON.
Take(k) ==
  /\ shell.pc = "wait" /\ k \in 1 .. Len(down)
  /\ LET buf == shell.buf \o SubSeq(down, 1, k)
     IN IF ~HasLine(buf) THEN shell' = [shell EXCEPT !.buf = buf]
        ELSE IF ~Whole(buf) THEN SendFails
        ELSE shell' = [shell EXCEPT !.pc = "ready", !.buf = <<>>,
                         !.taken = [request |-> Request, answer |-> buf[1].of]]
  /\ down' = SubSeq(down, k + 1, Len(down))
  /\ UNCHANGED <<peer, sent, up, server, answered>>

\* The wait for the next part of the answer takes ten seconds.
Timeout ==
  /\ shell.pc = "wait" /\ server.pc # "closed"
  /\ SendFails
  /\ UNCHANGED <<peer, sent, up, server, answered, down>>

\* The server has closed the connection.
Closed ==
  /\ shell.pc = "wait" /\ server.pc = "closed" /\ down = <<>>
  /\ SendFails
  /\ UNCHANGED <<peer, sent, up, server, answered, down>>

-----------------------------------------------------------------------------

Serve == (\E k \in 1 .. Len(up) : Recv(k)) \/ Split \/ Answer \/ HangUp
Receive == (\E k \in 1 .. Len(down) : Take(k)) \/ Closed

Next ==
  \/ \E kind \in Kinds, size \in FileSizes :
       LET line == [kind |-> kind, size |-> IF kind = "upload" THEN size ELSE 0]
       IN Ask(line) \/ OtherLine(line)
  \/ Serve \/ Receive \/ Timeout

Spec == Init /\ [][Next]_vars

-----------------------------------------------------------------------------
(* Properties                                                              *)

\* Whatever the recvs return, lines are handled in the order they were sent, none
\* twice, none left out but the blank ones, and none torn (_handle_conn).
InOrder ==
  /\ \A i, j \in DOMAIN answered : i < j => answered[i] < answered[j]
  /\ \A n \in ToSet(answered), m \in 1 .. Len(sent) :
       m < n => m \in ToSet(answered) \/ sent[m].kind = "blank"

\* "Send a request dict and return the response dict" (ServerConn.send): the answer
\* taken is the answer to the request.
AnswerIsOwn == shell.taken.answer = shell.taken.request

\* As long as no completion has failed, the shell and the server are in step: the
\* answer taken is the one to the request, and nothing is on its way when it is ready.
InStep ==
  peer = "shell" /\ shell.missed = 0 =>
    /\ AnswerIsOwn
    /\ shell.pc = "ready" => up = <<>> /\ down = <<>>

\* A file that upload.max_bytes allows does not cost the connection.
LegalUploadAnswered ==
  server.pc = "closed" /\ shell.pc # "gone" /\ peer = "shell" =>
    \E n \in 1 .. Len(sent) : sent[n].size > MaxPayload

=============================================================================
