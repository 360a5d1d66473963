----------------------------- MODULE LogPipeline -----------------------------
(***************************************************************************)
(* What becomes of the output of one program: the reader tasks of its      *)
(* streams (spawn_log_reader in cirond/src/process.rs), the ring buffer    *)
(* and the broadcast channel they feed, and GetLogs (grpc_server.rs) with  *)
(* the task that serves one client's stream.                               *)
(*                                                                         *)
(* A reader records a line in the buffer and then publishes it on the      *)
(* channel; GetLogs copies the buffer and then subscribes to the channel.  *)
(* No lock covers both steps of either.  Every use of the buffer's mutex   *)
(* is one step: nothing is awaited while it is held.                       *)
(***************************************************************************)
EXTENDS Integers, Sequences

CONSTANTS
  Readers,     \* the reader tasks: one per stream of every child of the program
  Clients,     \* the GetLogs calls
  LineCounts,  \* the values of GetLogsRequest.lines
  BufferSize,  \* LOG_BUFFER_CAPACITY
  Backlog,     \* lines the broadcast channel keeps for a slow receiver
  StreamSize,  \* lines the mpsc channel to a client holds
  PipeSize,    \* lines a pipe holds
  MaxLines     \* per reader: lines the child writes to the stream

ASSUME SizesAssumption ==
  /\ LineCounts \subseteq Int
  /\ \A n \in {BufferSize, Backlog, StreamSize, PipeSize} : n \in Nat \ {0}
  /\ MaxLines \in [Readers -> Nat]

VARIABLES
  forward,         \* log_forward of the program
  written, taken,  \* per reader: lines written to its pipe, lines read from it
  closed,          \* the pipes whose writing end is closed
  reader,          \* where a reader is
  line,            \* the number of the line it has in hand
  buffer,          \* the ring buffer
  sent,            \* all that was published: receivers hold positions in it
  call,            \* where a GetLogs call, or the task it spawned, is
  follow,          \* the calls with follow = true
  todo,            \* the lines the task has in hand for its client
  pos,             \* how much of "sent" its receiver has gone past
  unread,          \* lines in the channel to the client
  gone,            \* the clients that hung up
  recorded,        \* history: all the lines ever pushed to the buffer
  output,          \* history: the lines put into the channel to the client
  mark             \* history: what had happened when a call copied, subscribed, lagged

pipes == <<written, taken, closed>>
readers == <<reader, line>>
lines == <<forward, pipes, readers, buffer, sent, recorded>>
calls == <<call, follow, todo, pos, unread, gone, output, mark>>
vars == <<lines, calls>>

Line == [from : Readers, no : Nat]
NoMark == [recorded |-> 0, copied |-> 0, sent |-> 0, subscribed |-> 0, lagged |-> FALSE]

TypeOK ==
  /\ forward \in BOOLEAN
  /\ written \in [Readers -> Nat] /\ taken \in [Readers -> Nat]
  /\ \A r \in Readers : taken[r] <= written[r] /\ line[r] <= taken[r]
  /\ closed \subseteq Readers
  /\ reader \in [Readers -> {"reading", "read", "recorded", "stopped"}]
  /\ line \in [Readers -> Nat]
  /\ buffer \in Seq(Line) /\ Len(buffer) <= BufferSize
  /\ sent \in Seq(Line) /\ recorded \in Seq(Line)
  /\ call \in [Clients -> {"none", "copied", "sending", "following", "over", "refused"}]
  /\ follow \subseteq Clients /\ gone \subseteq Clients
  /\ todo \in [Clients -> Seq(Line)] /\ output \in [Clients -> Seq(Line)]
  /\ pos \in [Clients -> 0 .. Len(sent)]
  /\ unread \in [Clients -> 0 .. StreamSize]
  /\ mark \in [Clients -> [recorded : Nat, copied : Nat, sent : Nat, subscribed : Nat, lagged : BOOLEAN]]

Init ==
  /\ forward \in BOOLEAN
  /\ written = [r \in Readers |-> 0] /\ taken = [r \in Readers |-> 0]
  /\ closed = {}
  /\ reader = [r \in Readers |-> "reading"] /\ line = [r \in Readers |-> 0]
  /\ buffer = <<>> /\ sent = <<>> /\ recorded = <<>>
  /\ call = [c \in Clients |-> "none"]
  /\ follow = {} /\ gone = {}
  /\ todo = [c \in Clients |-> <<>>] /\ output = [c \in Clients |-> <<>>]
  /\ pos = [c \in Clients |-> 0] /\ unread = [c \in Clients |-> 0]
  /\ mark = [c \in Clients |-> NoMark]

\* The last n elements of s.
Newest(s, n) == SubSeq(s, Len(s) - n + 1, Len(s))

-----------------------------------------------------------------------------
(* The child at the other end of the pipes.                                *)

\* A write blocks while the pipe is full, and fails once the reader is gone.
Write(r) ==
  /\ r \notin closed /\ reader[r] # "stopped"
  /\ written[r] < MaxLines[r] /\ written[r] - taken[r] < PipeSize
  /\ written' = [written EXCEPT ![r] = @ + 1]
  /\ UNCHANGED <<forward, taken, closed, readers, buffer, sent, recorded, calls>>

Close(r) ==
  /\ r \notin closed
  /\ closed' = closed \cup {r}
  /\ UNCHANGED <<forward, written, taken, readers, buffer, sent, recorded, calls>>

-----------------------------------------------------------------------------
(* A reader.                                                               *)

\* Ok(Some(message)).  Without log_forward the output is copied to a sink.
ReadLine(r) ==
  /\ reader[r] = "reading" /\ taken[r] < written[r]
  /\ taken' = [taken EXCEPT ![r] = @ + 1]
  /\ IF forward
     THEN /\ reader' = [reader EXCEPT ![r] = "read"]
          /\ line' = [line EXCEPT ![r] = taken'[r]]
     ELSE UNCHANGED readers
  /\ UNCHANGED <<forward, written, closed, buffer, sent, recorded, calls>>

\* Ok(None)
ReadEnd(r) ==
  /\ reader[r] = "reading" /\ taken[r] = written[r] /\ r \in closed
  /\ reader' = [reader EXCEPT ![r] = "stopped"]
  /\ UNCHANGED <<forward, pipes, line, buffer, sent, recorded, calls>>

\* Err(e): the line is not UTF-8.
ReadError(r) ==
  /\ forward /\ reader[r] = "reading" /\ taken[r] < written[r]
  /\ taken' = [taken EXCEPT ![r] = @ + 1]
  /\ reader' = [reader EXCEPT ![r] = "stopped"]
  /\ UNCHANGED <<forward, written, closed, line, buffer, sent, recorded, calls>>

InHand(r) == [from |-> r, no |-> line[r]]

\* Fault: a full buffer takes no more lines.
RecordUnlessFull(r) ==
  /\ reader[r] = "read"
  /\ reader' = [reader EXCEPT ![r] = "recorded"]
  /\ buffer' = IF Len(buffer) >= BufferSize THEN buffer ELSE Append(buffer, InHand(r))
  /\ recorded' = Append(recorded, InHand(r))
  /\ UNCHANGED <<forward, pipes, line, sent, calls>>

\* Fault: the buffer is checked after the line is added, and one line is kept too many.
RecordThenTrim(r) ==
  /\ reader[r] = "read"
  /\ reader' = [reader EXCEPT ![r] = "recorded"]
  /\ buffer' = Append(IF Len(buffer) > BufferSize THEN Tail(buffer) ELSE buffer, InHand(r))
  /\ recorded' = Append(recorded, InHand(r))
  /\ UNCHANGED <<forward, pipes, line, sent, calls>>

\* The oldest line makes room for the new one.
Record(r) ==
  /\ reader[r] = "read"
  /\ reader' = [reader EXCEPT ![r] = "recorded"]
  /\ buffer' = Append(IF Len(buffer) >= BufferSize THEN Tail(buffer) ELSE buffer, InHand(r))
  /\ recorded' = Append(recorded, InHand(r))
  /\ UNCHANGED <<forward, pipes, line, sent, calls>>

\* Fault: a line waits until every follower has passed on the one before it.
PublishInTurn(r) ==
  /\ reader[r] = "recorded"
  /\ \A c \in Clients : call[c] = "following" => pos[c] = Len(sent) /\ todo[c] = <<>>
  /\ reader' = [reader EXCEPT ![r] = "reading"]
  /\ sent' = Append(sent, InHand(r))
  /\ UNCHANGED <<forward, pipes, line, buffer, recorded, calls>>

\* log_tx.send never waits: a receiver that is too slow loses lines.
Publish(r) ==
  /\ reader[r] = "recorded"
  /\ reader' = [reader EXCEPT ![r] = "reading"]
  /\ sent' = Append(sent, InHand(r))
  /\ UNCHANGED <<forward, pipes, line, buffer, recorded, calls>>

-----------------------------------------------------------------------------
(* GetLogs, and the task that serves its stream.                           *)

\* The call: an error without log_forward, or a copy of the newest lines.
\* Zero lines, or fewer, mean all.
Copy(c, n, f) ==
  /\ call[c] = "none"
  /\ follow' = IF f THEN follow \cup {c} ELSE follow
  /\ \/ /\ ~ forward
        /\ call' = [call EXCEPT ![c] = "refused"]
        /\ UNCHANGED <<todo, mark>>
     \/ /\ forward
        /\ call' = [call EXCEPT ![c] = IF f THEN "copied" ELSE "sending"]
        /\ todo' = [todo EXCEPT ![c] = IF n <= 0 \/ n >= Len(buffer) THEN buffer ELSE Newest(buffer, n)]
        /\ mark' = [mark EXCEPT ![c].recorded = Len(recorded),
                                ![c].copied = Len(todo'[c]), ![c].sent = Len(sent)]
  /\ UNCHANGED <<lines, pos, unread, gone, output>>

\* Fault: a channel that replays its backlog to a new receiver.
SubscribeToBacklog(c) ==
  /\ call[c] = "copied"
  /\ call' = [call EXCEPT ![c] = "sending"]
  /\ pos' = [pos EXCEPT ![c] = IF Len(sent) < Backlog THEN 0 ELSE Len(sent) - Backlog]
  /\ mark' = [mark EXCEPT ![c].subscribed = pos'[c]]
  /\ UNCHANGED <<lines, follow, todo, unread, gone, output>>

\* log_tx.subscribe(): the receiver gets what is published from now on.
Subscribe(c) ==
  /\ call[c] = "copied"
  /\ call' = [call EXCEPT ![c] = "sending"]
  /\ pos' = [pos EXCEPT ![c] = Len(sent)]
  /\ mark' = [mark EXCEPT ![c].subscribed = Len(sent)]
  /\ UNCHANGED <<lines, follow, todo, unread, gone, output>>

\* tx.send(line).await: it waits for room, and ends the task when the client is gone.
Send(c) ==
  /\ call[c] \in {"sending", "following"} /\ todo[c] # <<>>
  /\ c \notin gone /\ unread[c] < StreamSize
  /\ output' = [output EXCEPT ![c] = Append(@, Head(todo[c]))]
  /\ todo' = [todo EXCEPT ![c] = Tail(@)]
  /\ unread' = [unread EXCEPT ![c] = @ + 1]
  /\ UNCHANGED <<lines, call, follow, pos, gone, mark>>

SendFails(c) ==
  /\ call[c] \in {"sending", "following"} /\ todo[c] # <<>> /\ c \in gone
  /\ call' = [call EXCEPT ![c] = "over"]
  /\ UNCHANGED <<lines, follow, todo, pos, unread, gone, output, mark>>

\* Fault: the subscription waits until the copied lines are sent.
SubscribeAfterTheCopy(c) ==
  /\ call[c] = "sending" /\ todo[c] = <<>>
  /\ call' = [call EXCEPT ![c] = IF c \in follow THEN "following" ELSE "over"]
  /\ pos' = [pos EXCEPT ![c] = Len(sent)]
  /\ UNCHANGED <<lines, follow, todo, unread, gone, output, mark>>

\* The copied lines are all sent.
CopySent(c) ==
  /\ call[c] = "sending" /\ todo[c] = <<>>
  /\ call' = [call EXCEPT ![c] = IF c \in follow THEN "following" ELSE "over"]
  /\ UNCHANGED <<lines, follow, todo, pos, unread, gone, output, mark>>

\* follow_rx.recv(): the next line, unless the channel has dropped it.
Lagging(c) == Len(sent) - pos[c] > Backlog

Receive(c) ==
  /\ call[c] = "following" /\ todo[c] = <<>>
  /\ pos[c] < Len(sent) /\ ~ Lagging(c)
  /\ pos' = [pos EXCEPT ![c] = @ + 1]
  /\ todo' = [todo EXCEPT ![c] = <<sent[pos'[c]]>>]
  /\ UNCHANGED <<lines, call, follow, unread, gone, output, mark>>

\* Fault: the receiver stays where the lost lines were.
SkipNothing(c) ==
  /\ call[c] = "following" /\ todo[c] = <<>> /\ Lagging(c)
  /\ mark' = [mark EXCEPT ![c].lagged = TRUE]
  /\ UNCHANGED <<lines, call, follow, todo, pos, unread, gone, output>>

\* Err(Lagged(_)) => continue, from the oldest line the channel still has.
SkipLost(c) ==
  /\ call[c] = "following" /\ todo[c] = <<>> /\ Lagging(c)
  /\ pos' = [pos EXCEPT ![c] = Len(sent) - Backlog]
  /\ mark' = [mark EXCEPT ![c].lagged = TRUE]
  /\ UNCHANGED <<lines, call, follow, todo, unread, gone, output>>

\* The client.
ClientReads(c) ==
  /\ c \notin gone /\ unread[c] > 0
  /\ unread' = [unread EXCEPT ![c] = @ - 1]
  /\ UNCHANGED <<lines, call, follow, todo, pos, gone, output, mark>>

HangUp(c) ==
  /\ call[c] \in {"sending", "following"} /\ c \notin gone
  /\ gone' = gone \cup {c}
  /\ UNCHANGED <<lines, call, follow, todo, pos, unread, output, mark>>

-----------------------------------------------------------------------------
Reader(r) == ReadLine(r) \/ ReadEnd(r) \/ ReadError(r) \/ Record(r) \/ Publish(r)
Server(c) == \/ Subscribe(c) \/ Send(c) \/ SendFails(c) \/ CopySent(c)
             \/ Receive(c) \/ SkipLost(c)
GetLogs(c) == \E n \in LineCounts, f \in BOOLEAN : Copy(c, n, f)

\* Every child is done and every task waits for good.
Quiet ==
  /\ \A r \in Readers : reader[r] = "stopped" /\ r \in closed
  /\ \A c \in Clients : call[c] # "none"
  /\ UNCHANGED vars

Next ==
  \/ \E r \in Readers : Write(r) \/ Close(r) \/ Reader(r)
  \/ \E c \in Clients : GetLogs(c) \/ Server(c) \/ ClientReads(c) \/ HangUp(c)
  \/ Quiet

Spec == Init /\ [][Next]_vars

-----------------------------------------------------------------------------
(* Safety.                                                                 *)

(***************************************************************************)
(* README.md:77, "keep the last 1000 lines per process in memory": at any  *)
(* moment the buffer holds the newest lines that were read, in the order   *)
(* in which they were read, whichever readers took turns, and all of them  *)
(* until there are more than it can hold.                                  *)
(***************************************************************************)
BufferIsTheTail ==
  buffer = IF Len(recorded) <= BufferSize THEN recorded ELSE Newest(recorded, BufferSize)

\* What a client has been sent and what is on its way to it.
Stream(c) == output[c] \o todo[c]

(***************************************************************************)
(* A client gets the lines of one stream in the order they were written.   *)
(* A line comes twice only across the seam between the copy of the buffer  *)
(* and the subscription, where a reader has recorded it and not published  *)
(* it yet; so each reader repeats one line at most.                        *)
(***************************************************************************)
RepeatsOnlyAtTheSeam ==
  \A c \in Clients : \A j \in DOMAIN Stream(c) : \A i \in 1 .. j - 1 :
    Stream(c)[i].from = Stream(c)[j].from =>
      \/ Stream(c)[i].no < Stream(c)[j].no
      \/ Stream(c)[i] = Stream(c)[j] /\ i <= mark[c].copied /\ j > mark[c].copied

(***************************************************************************)
(* A follower that never lags misses a line recorded after its copy of the *)
(* buffer only if the line was also published before its subscription: no  *)
(* other order of the four steps loses one.                                *)
(***************************************************************************)
MissesOnlyTheGap ==
  \A c \in follow :
    call[c] \in {"sending", "following"} /\ ~ mark[c].lagged =>
      \A k \in mark[c].recorded + 1 .. Len(recorded) :
        \/ \E i \in DOMAIN Stream(c) : Stream(c)[i] = recorded[k]
        \/ \E i \in mark[c].sent + 1 .. mark[c].subscribed : sent[i] = recorded[k]
        \/ \A i \in 1 .. pos[c] : sent[i] # recorded[k]

-----------------------------------------------------------------------------
(***************************************************************************)
(* Liveness.  Tokio runs the readers and the tasks of the calls.  Nothing  *)
(* is assumed of the children or of the clients.                           *)
(***************************************************************************)
Fairness ==
  /\ \A r \in Readers : WF_vars(Reader(r))
  /\ \A c \in Clients : WF_vars(Server(c))

FairSpec == Spec /\ Fairness

(***************************************************************************)
(* process.rs:352, "Always drain stdout/stderr so the child never blocks   *)
(* on a full pipe buffer": a full pipe gets room again (or its reader is   *)
(* gone, and the write fails), however slow the clients are that follow.   *)
(***************************************************************************)
ChildNeverBlocks ==
  \A r \in Readers :
    written[r] - taken[r] = PipeSize
      ~> written[r] - taken[r] < PipeSize \/ reader[r] = "stopped"

(***************************************************************************)
(* A follower is served: it catches up with what was published, also after *)
(* it lagged, unless its client leaves the stream full or hangs up.        *)
(***************************************************************************)
FollowerCatchesUp ==
  \A c \in Clients :
    call[c] = "following" /\ pos[c] < Len(sent)
      ~> \/ pos[c] = Len(sent) /\ todo[c] = <<>>
         \/ unread[c] = StreamSize \/ c \in gone

-----------------------------------------------------------------------------
(***************************************************************************)
(* process.rs:352, "Always drain stdout/stderr", and README.md:70-71: a    *)
(* reader stops only when the child has closed its end and nothing is left *)
(* in the pipe.                                                            *)
(***************************************************************************)
AlwaysDrained ==
  \A r \in Readers :
    reader[r] = "stopped" => r \in closed /\ taken[r] = written[r]

=============================================================================
