-------------------------- MODULE LogPipelineProofs --------------------------
(***************************************************************************)
(* Theorems about LogPipeline, for any readers and clients, any sizes, and *)
(* however much the children write.                                        *)
(***************************************************************************)
EXTENDS LogPipeline, SequenceTheorems, TLAPS

-----------------------------------------------------------------------------
(* Sequences.                                                              *)

\* The newest lines are lines, as many as were asked for.
LEMMA NewestType ==
  ASSUME NEW S, NEW s \in Seq(S), NEW n \in 0 .. Len(s)
  PROVE  /\ Newest(s, n) \in Seq(S)
         /\ Len(Newest(s, n)) = n
         /\ \A i \in 1 .. n : Newest(s, n)[i] = s[Len(s) - n + i]
<1> DEFINE m == Len(s) - n + 1
<1>1. m \in 1 .. Len(s) + 1
  OBVIOUS
<1>2. SubSeq(s, m, Len(s)) \in Seq(S)
  BY <1>1, SubSeqProperties
<1>3. Len(SubSeq(s, m, Len(s))) = n
  BY <1>1, SubSeqProperties
<1>4. \A i \in 1 .. n : SubSeq(s, m, Len(s))[i] = s[m + i - 1]
  BY <1>1, SubSeqProperties
<1>5. \A i \in 1 .. n : m + i - 1 = Len(s) - n + i
  OBVIOUS
<1> QED
  BY <1>2, <1>3, <1>4, <1>5 DEF Newest

\* The first element of t may be moved to the end of s.
LEMMA HeadMoved ==
  ASSUME NEW S, NEW s \in Seq(S), NEW t \in Seq(S), t # <<>>
  PROVE  Append(s, Head(t)) \o Tail(t) = s \o t
<1> DEFINE more == Append(s, Head(t))
           rest == Tail(t)
<1>1. /\ Head(t) \in S /\ Head(t) = t[1] /\ Len(t) \in Nat /\ Len(t) > 0
      /\ rest \in Seq(S) /\ Len(rest) = Len(t) - 1
      /\ \A i \in 1 .. Len(rest) : rest[i] = t[i + 1]
  BY HeadTailProperties, EmptySeq
<1>2. /\ more \in Seq(S) /\ Len(more) = Len(s) + 1 /\ Len(s) \in Nat
      /\ more[Len(s) + 1] = t[1]
      /\ \A i \in 1 .. Len(s) : more[i] = s[i]
  BY <1>1, AppendProperties
<1> HIDE DEF more, rest
<1>3. /\ s \o t \in Seq(S) /\ Len(s \o t) = Len(s) + Len(t)
      /\ \A i \in 1 .. Len(s) + Len(t) : (s \o t)[i] = IF i <= Len(s) THEN s[i] ELSE t[i - Len(s)]
  BY ConcatProperties
<1>4. /\ more \o rest \in Seq(S) /\ Len(more \o rest) = Len(more) + Len(rest)
      /\ \A i \in 1 .. Len(more) + Len(rest) :
           (more \o rest)[i] = IF i <= Len(more) THEN more[i] ELSE rest[i - Len(more)]
  BY <1>1, <1>2, ConcatProperties
<1>5. Len(more) + Len(rest) = Len(s) + Len(t)
  BY <1>1, <1>2
<1>6. ASSUME NEW i \in 1 .. Len(s) + Len(t)
      PROVE  (more \o rest)[i] = (s \o t)[i]
  <2>1. CASE i <= Len(s)
    BY <1>2, <1>3, <1>4, <1>5, <2>1
  <2>2. CASE i = Len(s) + 1
    BY <1>2, <1>3, <1>4, <1>5, <2>2
  <2>3. CASE i > Len(s) + 1
    <3>1. (more \o rest)[i] = rest[i - (Len(s) + 1)]
      BY <1>2, <1>4, <1>5, <2>3
    <3>2. i - (Len(s) + 1) \in 1 .. Len(rest)
      BY <1>1, <1>2, <2>3
    <3>3. (i - (Len(s) + 1)) + 1 = i - Len(s)
      BY <1>1, <1>2
    <3>4. rest[i - (Len(s) + 1)] = t[i - Len(s)]
      BY <1>1, <3>2, <3>3
    <3> QED
      BY <1>1, <1>2, <1>3, <2>3, <3>1, <3>4
  <2> QED
    BY <1>1, <1>2, <2>1, <2>2, <2>3
<1> QED
  BY <1>3, <1>4, <1>5, <1>6, SeqEqual DEF more, rest

-----------------------------------------------------------------------------
(* Types.                                                                  *)

\* The lines a reader has in hand are lines.
LEMMA InHandType ==
  ASSUME TypeOK, NEW r \in Readers
  PROVE  InHand(r) \in Line
BY DEF TypeOK, InHand, Line

\* What happens at the other end of the pipes keeps the types.
LEMMA ChildType ==
  ASSUME TypeOK, NEW r \in Readers, Write(r) \/ Close(r)
  PROVE  TypeOK'
<1>1. CASE Write(r)
  <2>1. written' = [written EXCEPT ![r] = written[r] + 1]
    BY <1>1 DEF Write
  <2>2. written' \in [Readers -> Nat]
    BY <2>1 DEF TypeOK
  <2>3. \A s \in Readers : written[s] <= written'[s]
    BY <2>1 DEF TypeOK
  <2>4. \A s \in Readers : taken'[s] <= written'[s] /\ line'[s] <= taken'[s]
    BY <1>1, <2>2, <2>3 DEF TypeOK, Write, readers
  <2> QED
    BY <1>1, <2>2, <2>4 DEF TypeOK, Write, readers, calls
<1>2. CASE Close(r)
  BY <1>2 DEF TypeOK, Close, readers, calls
<1> QED
  BY <1>1, <1>2

\* Taking one of the lines that wait in a pipe.
LEMMA OneTaken ==
  ASSUME TypeOK, NEW r \in Readers, taken[r] < written[r],
         taken' = [taken EXCEPT ![r] = taken[r] + 1]
  PROVE  /\ taken' \in [Readers -> Nat]
         /\ \A s \in Readers : taken[s] <= taken'[s] /\ taken'[s] <= written[s]
<1>1. taken \in [Readers -> Nat] /\ written \in [Readers -> Nat]
  BY DEF TypeOK
<1>2. \A s \in Readers : taken[s] <= written[s]
  BY DEF TypeOK
<1> QED
  BY <1>1, <1>2

\* So does every step of a reader.
LEMMA ReaderType ==
  ASSUME TypeOK, NEW r \in Readers, Reader(r)
  PROVE  TypeOK'
<1> USE SizesAssumption
<1>1. CASE ReadLine(r)
  <2>1. taken' \in [Readers -> Nat] /\ \A s \in Readers : taken[s] <= taken'[s] /\ taken'[s] <= written[s]
    BY <1>1, OneTaken DEF ReadLine
  <2>2. line' \in [Readers -> Nat]
    BY <1>1, <2>1 DEF TypeOK, ReadLine, readers
  <2>3. \A s \in Readers : line'[s] <= taken'[s]
    <3> SUFFICES ASSUME NEW s \in Readers
                 PROVE  line'[s] <= taken'[s]
      OBVIOUS
    <3>1. line'[s] = line[s] \/ line'[s] = taken'[s]
      BY <1>1 DEF TypeOK, ReadLine, readers
    <3>2. line[s] \in Nat /\ line[s] <= taken[s] /\ taken[s] \in Nat
      BY DEF TypeOK
    <3> QED
      BY <2>1, <3>1, <3>2
  <2>4. reader' \in [Readers -> {"reading", "read", "recorded", "stopped"}]
    <3>1. reader \in [Readers -> {"reading", "read", "recorded", "stopped"}]
      BY DEF TypeOK
    <3>2. reader' = reader \/ reader' = [reader EXCEPT ![r] = "read"]
      BY <1>1 DEF ReadLine, readers
    <3> QED
      BY <3>1, <3>2
  <2> QED
    BY <1>1, <2>1, <2>2, <2>3, <2>4 DEF TypeOK, ReadLine, calls
<1>2. CASE ReadEnd(r)
  BY <1>2 DEF TypeOK, ReadEnd, pipes, calls
<1>3. CASE ReadError(r)
  <2>1. taken' \in [Readers -> Nat] /\ \A s \in Readers : taken[s] <= taken'[s] /\ taken'[s] <= written[s]
    BY <1>3, OneTaken DEF ReadError
  <2>2. \A s \in Readers : line[s] <= taken'[s]
    <3> SUFFICES ASSUME NEW s \in Readers
                 PROVE  line[s] <= taken'[s]
      OBVIOUS
    <3>1. line[s] \in Nat /\ line[s] <= taken[s] /\ taken[s] \in Nat
      BY DEF TypeOK
    <3> QED
      BY <2>1, <3>1
  <2> QED
    BY <1>3, <2>1, <2>2 DEF TypeOK, ReadError, calls
<1>4. CASE Record(r)
  <2> DEFINE kept == IF Len(buffer) >= BufferSize THEN Tail(buffer) ELSE buffer
  <2>1. InHand(r) \in Line
    BY InHandType
  <2>2. kept \in Seq(Line) /\ Len(kept) < BufferSize
    <3>1. CASE Len(buffer) >= BufferSize
      <4>1. buffer \in Seq(Line) /\ Len(buffer) = BufferSize /\ buffer # <<>>
        BY <3>1 DEF TypeOK
      <4>2. Tail(buffer) \in Seq(Line) /\ Len(Tail(buffer)) = Len(buffer) - 1
        BY <4>1, HeadTailProperties
      <4> QED
        BY <3>1, <4>1, <4>2
    <3>2. CASE Len(buffer) < BufferSize
      BY <3>2 DEF TypeOK
    <3> QED
      BY <3>1, <3>2 DEF TypeOK
  <2>3. buffer' = Append(kept, InHand(r))
    BY <1>4 DEF Record
  <2> HIDE DEF kept
  <2>4. buffer' \in Seq(Line) /\ Len(buffer') <= BufferSize
    BY <2>1, <2>2, <2>3, AppendProperties
  <2>5. recorded' \in Seq(Line)
    BY <1>4, <2>1 DEF TypeOK, Record
  <2> QED
    BY <1>4, <2>4, <2>5 DEF TypeOK, Record, pipes, calls
<1>5. CASE Publish(r)
  <2>1. sent' \in Seq(Line) /\ Len(sent') = Len(sent) + 1
    BY <1>5, InHandType, AppendProperties DEF TypeOK, Publish
  <2>2. pos' \in [Clients -> 0 .. Len(sent')]
    <3>1. pos \in [Clients -> 0 .. Len(sent)] /\ pos' = pos /\ Len(sent) \in Nat
      BY <1>5 DEF TypeOK, Publish, calls
    <3>2. 0 .. Len(sent) \subseteq 0 .. Len(sent')
      BY <2>1, <3>1
    <3> QED
      BY <3>1, <3>2
  <2> QED
    BY <1>5, <2>1, <2>2 DEF TypeOK, Publish, pipes, calls
<1> QED
  BY <1>1, <1>2, <1>3, <1>4, <1>5 DEF Reader

\* What the copy of a call holds.
LEMMA CopyType ==
  ASSUME TypeOK, NEW c \in Clients, NEW n \in LineCounts, NEW f \in BOOLEAN, Copy(c, n, f)
  PROVE  TypeOK'
<1> USE SizesAssumption
<1> DEFINE copied == IF n <= 0 \/ n >= Len(buffer) THEN buffer ELSE Newest(buffer, n)
<1>1. copied \in Seq(Line)
  <2>1. n \in Int /\ buffer \in Seq(Line)
    BY DEF TypeOK
  <2>2. ~ (n <= 0 \/ n >= Len(buffer)) => n \in 0 .. Len(buffer)
    BY <2>1
  <2> QED
    BY <2>1, <2>2, NewestType
<1>2. follow' \subseteq Clients
  BY DEF TypeOK, Copy
<1>3. CASE ~ forward
  BY <1>2, <1>3 DEF TypeOK, Copy, lines, pipes, readers
<1>4. CASE forward
  <2> HIDE DEF copied
  <2>1. todo' = [todo EXCEPT ![c] = copied]
    BY <1>4 DEF Copy, copied
  <2>2. todo' \in [Clients -> Seq(Line)]
    BY <1>1, <2>1 DEF TypeOK
  <2>3. Len(recorded) \in Nat /\ Len(todo'[c]) \in Nat /\ Len(sent) \in Nat
    <3>1. recorded \in Seq(Line) /\ sent \in Seq(Line)
      BY DEF TypeOK
    <3>2. todo'[c] \in Seq(Line)
      BY <2>2
    <3> QED
      BY <3>1, <3>2, LenProperties
  <2>4. mark' \in [Clients -> [recorded : Nat, copied : Nat, sent : Nat, subscribed : Nat, lagged : BOOLEAN]]
    <3> DEFINE Marks == [recorded : Nat, copied : Nat, sent : Nat, subscribed : Nat, lagged : BOOLEAN]
               new == [mark[c] EXCEPT !.recorded = Len(recorded),
                                      !.copied = Len(todo'[c]), !.sent = Len(sent)]
    <3>1. mark \in [Clients -> Marks]
      BY DEF TypeOK
    <3>2. new \in Marks
      BY <2>3, <3>1
    <3>3. mark' = [mark EXCEPT ![c] = new]
      BY <1>4, <3>1 DEF Copy
    <3> HIDE DEF new
    <3> QED
      BY <3>1, <3>2, <3>3
  <2>5. call' \in [Clients -> {"none", "copied", "sending", "following", "over", "refused"}]
    BY <1>4 DEF TypeOK, Copy
  <2> QED
    BY <1>2, <2>2, <2>4, <2>5 DEF TypeOK, Copy, lines, pipes, readers
<1> QED
  BY <1>3, <1>4 DEF TypeOK

\* The steps of the task that serves a call keep the types.
LEMMA ServerType ==
  ASSUME TypeOK, NEW c \in Clients, Server(c)
  PROVE  TypeOK'
<1> USE SizesAssumption
<1>0. sent \in Seq(Line) /\ Len(sent) \in Nat
  BY DEF TypeOK
<1>1. CASE Subscribe(c)
  <2>1. pos' \in [Clients -> 0 .. Len(sent)]
    <3>1. pos \in [Clients -> 0 .. Len(sent)]
      BY DEF TypeOK
    <3>2. pos' = [pos EXCEPT ![c] = Len(sent)]
      BY <1>1 DEF Subscribe
    <3> QED
      BY <1>0, <3>1, <3>2
  <2>2. mark' \in [Clients -> [recorded : Nat, copied : Nat, sent : Nat, subscribed : Nat, lagged : BOOLEAN]]
    <3>1. mark \in [Clients -> [recorded : Nat, copied : Nat, sent : Nat, subscribed : Nat, lagged : BOOLEAN]]
      BY DEF TypeOK
    <3>2. mark' = [mark EXCEPT ![c].subscribed = Len(sent)]
      BY <1>1 DEF Subscribe
    <3> QED
      BY <1>0, <3>1, <3>2
  <2> QED
    BY <1>1, <2>1, <2>2 DEF TypeOK, Subscribe, lines, pipes, readers
<1>2. CASE Send(c)
  <2>1. todo[c] \in Seq(Line) /\ todo[c] # <<>> /\ output[c] \in Seq(Line)
    BY <1>2 DEF TypeOK, Send
  <2>2. Head(todo[c]) \in Line /\ Tail(todo[c]) \in Seq(Line)
    BY <2>1, HeadTailProperties
  <2>3. Append(output[c], Head(todo[c])) \in Seq(Line)
    BY <2>1, <2>2
  <2>4. todo' \in [Clients -> Seq(Line)] /\ output' \in [Clients -> Seq(Line)]
    BY <1>2, <2>2, <2>3 DEF TypeOK, Send
  <2>5. unread' \in [Clients -> 0 .. StreamSize]
    <3>1. unread \in [Clients -> 0 .. StreamSize] /\ unread[c] < StreamSize
      BY <1>2 DEF TypeOK, Send
    <3>2. unread[c] + 1 \in 0 .. StreamSize /\ unread' = [unread EXCEPT ![c] = unread[c] + 1]
      BY <1>2, <3>1 DEF Send
    <3> QED
      BY <3>1, <3>2
  <2> QED
    BY <1>2, <2>4, <2>5 DEF TypeOK, Send, lines, pipes, readers
<1>3. CASE SendFails(c)
  BY <1>3 DEF TypeOK, SendFails, lines, pipes, readers
<1>4. CASE CopySent(c)
  BY <1>4 DEF TypeOK, CopySent, lines, pipes, readers
<1>5. CASE Receive(c)
  <2>0. pos \in [Clients -> 0 .. Len(sent)]
    BY DEF TypeOK
  <2>1. pos[c] + 1 \in 1 .. Len(sent) /\ pos' = [pos EXCEPT ![c] = pos[c] + 1]
    <3>1. pos[c] < Len(sent) /\ pos' = [pos EXCEPT ![c] = pos[c] + 1]
      BY <1>5 DEF Receive
    <3> QED
      BY <1>0, <2>0, <3>1
  <2>2. pos'[c] = pos[c] + 1
    BY <2>0, <2>1
  <2>3. sent[pos'[c]] \in Line
    BY <1>0, <2>1, <2>2, ElementOfSeq
  <2>4. todo' \in [Clients -> Seq(Line)]
    BY <1>5, <2>3 DEF TypeOK, Receive
  <2>5. pos' \in [Clients -> 0 .. Len(sent)]
    BY <1>0, <2>0, <2>1
  <2> QED
    BY <1>5, <2>4, <2>5 DEF TypeOK, Receive, lines, pipes, readers
<1>6. CASE SkipLost(c)
  <2>1. Len(sent) - Backlog \in 0 .. Len(sent)
    <3>1. Backlog \in Nat /\ pos[c] \in 0 .. Len(sent)
      BY DEF TypeOK
    <3>2. Len(sent) - pos[c] > Backlog
      BY <1>6 DEF SkipLost, Lagging
    <3> QED
      BY <1>0, <3>1, <3>2
  <2>2. pos' \in [Clients -> 0 .. Len(sent)]
    BY <1>6, <2>1 DEF TypeOK, SkipLost
  <2>3. mark' \in [Clients -> [recorded : Nat, copied : Nat, sent : Nat, subscribed : Nat, lagged : BOOLEAN]]
    <3>1. mark \in [Clients -> [recorded : Nat, copied : Nat, sent : Nat, subscribed : Nat, lagged : BOOLEAN]]
      BY DEF TypeOK
    <3>2. mark' = [mark EXCEPT ![c].lagged = TRUE]
      BY <1>6 DEF SkipLost
    <3> QED
      BY <1>0, <3>1, <3>2
  <2> QED
    BY <1>6, <2>2, <2>3 DEF TypeOK, SkipLost, lines, pipes, readers
<1> QED
  BY <1>1, <1>2, <1>3, <1>4, <1>5, <1>6 DEF Server

\* The client reads and hangs up.
LEMMA ClientType ==
  ASSUME TypeOK, NEW c \in Clients, ClientReads(c) \/ HangUp(c)
  PROVE  TypeOK'
<1> USE SizesAssumption
<1>1. CASE ClientReads(c)
  <2>1. unread \in [Clients -> 0 .. StreamSize] /\ unread[c] > 0
    BY <1>1 DEF TypeOK, ClientReads
  <2>2. unread[c] - 1 \in 0 .. StreamSize /\ unread' = [unread EXCEPT ![c] = unread[c] - 1]
    BY <1>1, <2>1 DEF ClientReads
  <2>3. unread' \in [Clients -> 0 .. StreamSize]
    BY <2>1, <2>2
  <2> QED
    BY <1>1, <2>3 DEF TypeOK, ClientReads, lines, pipes, readers
<1>2. CASE HangUp(c)
  BY <1>2 DEF TypeOK, HangUp, lines, pipes, readers
<1> QED
  BY <1>1, <1>2

(***************************************************************************)
(* Type correctness, with the bounds that matter: the ring buffer never    *)
(* outgrows LOG_BUFFER_CAPACITY, the channel to a client never holds more  *)
(* than its size, and no receiver is ahead of what was published.          *)
(***************************************************************************)
THEOREM LogTypeCorrect == Spec => []TypeOK
<1>1. Init => TypeOK
  BY SizesAssumption DEF Init, TypeOK, NoMark
<1>2. TypeOK /\ [Next]_vars => TypeOK'
  <2> SUFFICES ASSUME TypeOK, [Next]_vars
               PROVE  TypeOK'
    OBVIOUS
  <2>1. CASE \E r \in Readers : Write(r) \/ Close(r) \/ Reader(r)
    BY <2>1, ChildType, ReaderType
  <2>2. CASE \E c \in Clients : GetLogs(c) \/ Server(c) \/ ClientReads(c) \/ HangUp(c)
    BY <2>2, CopyType, ServerType, ClientType DEF GetLogs
  <2>3. CASE UNCHANGED vars
    BY <2>3 DEF TypeOK, vars, lines, pipes, readers, calls
  <2> QED
    BY <2>1, <2>2, <2>3 DEF Next, Quiet
<1> QED
  BY <1>1, <1>2, PTL DEF Spec

-----------------------------------------------------------------------------
(* The ring buffer.                                                        *)

\* BufferIsTheTail line by line: what the buffer holds at i.
TailByPlace ==
  /\ Len(buffer) = IF Len(recorded) <= BufferSize THEN Len(recorded) ELSE BufferSize
  /\ \A i \in 1 .. Len(buffer) : buffer[i] = recorded[Len(recorded) - Len(buffer) + i]

\* The two forms say the same.
LEMMA TailPointwise ==
  ASSUME TypeOK
  PROVE  BufferIsTheTail <=> TailByPlace
<1> USE SizesAssumption
<1>0. buffer \in Seq(Line) /\ recorded \in Seq(Line) /\ BufferSize \in Nat
  BY DEF TypeOK
<1>1. CASE Len(recorded) <= BufferSize
  <2>1. BufferIsTheTail <=> buffer = recorded
    BY <1>1 DEF BufferIsTheTail
  <2>2. TailByPlace <=> Len(buffer) = Len(recorded) /\ \A i \in 1 .. Len(buffer) : buffer[i] = recorded[i]
    BY <1>0, <1>1 DEF TailByPlace
  <2>3. Len(buffer) = Len(recorded) /\ (\A i \in 1 .. Len(buffer) : buffer[i] = recorded[i]) => buffer = recorded
    BY <1>0, SeqEqual
  <2> QED
    BY <2>1, <2>2, <2>3
<1>2. CASE ~ Len(recorded) <= BufferSize
  <2> DEFINE newest == Newest(recorded, BufferSize)
  <2>1. BufferSize \in 0 .. Len(recorded)
    BY <1>0, <1>2
  <2>2. /\ newest \in Seq(Line) /\ Len(newest) = BufferSize
        /\ \A i \in 1 .. BufferSize : newest[i] = recorded[Len(recorded) - BufferSize + i]
    BY <1>0, <2>1, NewestType
  <2>3. BufferIsTheTail <=> buffer = newest
    BY <1>2 DEF BufferIsTheTail
  <2> HIDE DEF newest
  <2>4. TailByPlace <=> /\ Len(buffer) = BufferSize
                        /\ \A i \in 1 .. BufferSize : buffer[i] = newest[i]
    BY <1>0, <1>2, <2>2 DEF TailByPlace
  <2>5. Len(buffer) = BufferSize /\ (\A i \in 1 .. BufferSize : buffer[i] = newest[i]) => buffer = newest
    BY <1>0, <2>2, SeqEqual
  <2> QED
    BY <2>2, <2>3, <2>4, <2>5
<1> QED
  BY <1>1, <1>2

\* The one step that changes the buffer shifts it by a line when it is full.
LEMMA RecordKeepsTail ==
  ASSUME TypeOK, TailByPlace, NEW r \in Readers, Record(r)
  PROVE  TailByPlace'
<1> USE SizesAssumption
<1> DEFINE kept == IF Len(buffer) >= BufferSize THEN Tail(buffer) ELSE buffer
           gone1 == IF Len(buffer) >= BufferSize THEN 1 ELSE 0
<1>0. /\ buffer \in Seq(Line) /\ recorded \in Seq(Line) /\ InHand(r) \in Line
      /\ BufferSize \in Nat /\ BufferSize > 0 /\ Len(buffer) \in Nat /\ Len(recorded) \in Nat
      /\ gone1 \in 0 .. 1 /\ (gone1 = 1 <=> Len(buffer) >= BufferSize)
  <2>1. buffer \in Seq(Line) /\ recorded \in Seq(Line) /\ InHand(r) \in Line
    BY InHandType DEF TypeOK
  <2>2. BufferSize \in Nat /\ BufferSize > 0
    OBVIOUS
  <2> QED
    BY <2>1, <2>2
<1>1. /\ kept \in Seq(Line) /\ Len(kept) = Len(buffer) - gone1
      /\ \A i \in 1 .. Len(kept) : kept[i] = buffer[i + gone1]
  <2>1. CASE Len(buffer) >= BufferSize
    <3>1. buffer # <<>>
      BY <1>0, <2>1
    <3>2. Tail(buffer) \in Seq(Line) /\ Len(Tail(buffer)) = Len(buffer) - 1
          /\ \A i \in 1 .. Len(Tail(buffer)) : Tail(buffer)[i] = buffer[i + 1]
      BY <1>0, <3>1, HeadTailProperties
    <3> QED
      BY <2>1, <3>2
  <2>2. CASE ~ Len(buffer) >= BufferSize
    BY <1>0, <2>2
  <2> QED
    BY <2>1, <2>2
<1>2. buffer' = Append(kept, InHand(r)) /\ recorded' = Append(recorded, InHand(r))
  BY DEF Record
<1> HIDE DEF kept, gone1
<1>3. /\ Len(buffer') = Len(kept) + 1
      /\ \A i \in 1 .. Len(kept) : buffer'[i] = kept[i]
      /\ buffer'[Len(kept) + 1] = InHand(r)
  BY <1>0, <1>1, <1>2, AppendProperties
<1>4. /\ Len(recorded') = Len(recorded) + 1
      /\ \A i \in 1 .. Len(recorded) : recorded'[i] = recorded[i]
      /\ recorded'[Len(recorded) + 1] = InHand(r)
  BY <1>0, <1>2, AppendProperties
<1>5. /\ Len(buffer) = IF Len(recorded) <= BufferSize THEN Len(recorded) ELSE BufferSize
      /\ \A i \in 1 .. Len(buffer) : buffer[i] = recorded[Len(recorded) - Len(buffer) + i]
  BY DEF TailByPlace
<1>6. Len(buffer') = IF Len(recorded') <= BufferSize THEN Len(recorded') ELSE BufferSize
  BY <1>0, <1>1, <1>3, <1>4, <1>5
<1>7. ASSUME NEW i \in 1 .. Len(buffer')
      PROVE  buffer'[i] = recorded'[Len(recorded') - Len(buffer') + i]
  <2>1. CASE i \in 1 .. Len(kept)
    <3> DEFINE j == i + gone1
               k == Len(recorded) - Len(buffer) + j
    <3>1. buffer'[i] = buffer[j] /\ j \in 1 .. Len(buffer)
      <4>1. buffer'[i] = kept[i] /\ kept[i] = buffer[i + gone1]
        BY <1>1, <1>3, <2>1
      <4>2. i + gone1 \in 1 .. Len(buffer)
        BY <1>0, <1>1, <2>1
      <4> QED
        BY <4>1, <4>2
    <3>2. buffer[j] = recorded[k]
      BY <1>5, <3>1
    <3>3. Len(buffer) <= Len(recorded) /\ Len(buffer') = Len(buffer) - gone1 + 1 /\ i \in Nat
      BY <1>0, <1>1, <1>3, <1>5, <2>1
    <3>4. k \in 1 .. Len(recorded)
      BY <1>0, <3>1, <3>3
    <3>5. k = Len(recorded') - Len(buffer') + i
      BY <1>0, <1>4, <3>3
    <3> HIDE DEF j, k
    <3> QED
      BY <1>4, <3>1, <3>2, <3>4, <3>5
  <2>2. CASE i = Len(kept) + 1
    <3>1. Len(recorded') - Len(buffer') + i = Len(recorded) + 1
      BY <1>0, <1>1, <1>3, <1>4, <2>2
    <3> QED
      BY <1>3, <1>4, <2>2, <3>1
  <2>3. i \in 1 .. Len(kept) \/ i = Len(kept) + 1
    <3>1. Len(kept) \in Nat /\ i \in 1 .. Len(kept) + 1
      BY <1>1, <1>3, LenProperties
    <3> QED
      BY <3>1
  <2> QED
    BY <2>1, <2>2, <2>3
<1> QED
  BY <1>6, <1>7 DEF TailByPlace

\* Nothing else touches the buffer, and nothing but a reader the logs.
LEMMA OnlyReadersTouchTheLogs ==
  ASSUME [Next]_vars
  PROVE  \/ UNCHANGED <<buffer, recorded, sent>>
         \/ \E r \in Readers : Record(r) \/ Publish(r)
<1>1. CASE \E r \in Readers : Write(r) \/ Close(r) \/ Reader(r)
  BY <1>1 DEF Write, Close, Reader, ReadLine, ReadEnd, ReadError
<1>2. CASE \E c \in Clients : GetLogs(c) \/ Server(c) \/ ClientReads(c) \/ HangUp(c)
  BY <1>2 DEF GetLogs, Copy, Server, Subscribe, Send, SendFails, CopySent, Receive, SkipLost,
              ClientReads, HangUp, lines
<1>3. CASE UNCHANGED vars
  BY <1>3 DEF vars, lines
<1> QED
  BY <1>1, <1>2, <1>3 DEF Next, Quiet

(***************************************************************************)
(* However the readers of a program take turns, and however often its      *)
(* buffer wraps around, the buffer that GetLogs copies holds the newest    *)
(* LOG_BUFFER_CAPACITY lines in the order in which they were recorded.     *)
(***************************************************************************)
THEOREM BufferTailCorrect == Spec => []BufferIsTheTail
<1>1. Init => BufferIsTheTail
  BY SizesAssumption DEF Init, BufferIsTheTail
<1>2. TypeOK /\ TypeOK' /\ BufferIsTheTail /\ [Next]_vars => BufferIsTheTail'
  <2> SUFFICES ASSUME TypeOK, TypeOK', BufferIsTheTail, [Next]_vars
               PROVE  BufferIsTheTail'
    OBVIOUS
  <2>1. CASE UNCHANGED <<buffer, recorded>>
    BY <2>1 DEF BufferIsTheTail, Newest
  <2>2. CASE \E r \in Readers : Record(r)
    <3>1. TailByPlace'
      BY <2>2, TailPointwise, RecordKeepsTail
    <3>2. (BufferIsTheTail <=> TailByPlace)'
      BY TailPointwise, PTL
    <3> QED
      BY <3>1, <3>2
  <2>3. CASE \E r \in Readers : Publish(r)
    BY <2>1, <2>3 DEF Publish
  <2> QED
    BY <2>1, <2>2, <2>3, OnlyReadersTouchTheLogs
<1> QED
  BY <1>1, <1>2, LogTypeCorrect, PTL DEF Spec

-----------------------------------------------------------------------------
(* The order of the lines.                                                 *)

\* The lines of one reader come in the order in which it read them.
InOrder(s) ==
  \A j \in 1 .. Len(s) : \A i \in 1 .. j - 1 : s[i].from = s[j].from => s[i].no < s[j].no

\* What a reader has in hand comes after all it recorded before, or published before.
LinesInOrder ==
  /\ InOrder(recorded) /\ InOrder(sent)
  /\ \A k \in 1 .. Len(recorded) : \A r \in Readers : recorded[k].from = r =>
       /\ recorded[k].no <= line[r]
       /\ reader[r] = "read" => recorded[k].no < line[r]
  /\ \A k \in 1 .. Len(sent) : \A r \in Readers : sent[k].from = r =>
       /\ sent[k].no <= line[r]
       /\ reader[r] \in {"read", "recorded"} => sent[k].no < line[r]

\* A line that is later than all of its reader may be added.
LEMMA AppendInOrder ==
  ASSUME NEW s \in Seq(Line), NEW x \in Line, InOrder(s),
         \A k \in 1 .. Len(s) : s[k].from = x.from => s[k].no < x.no
  PROVE  InOrder(Append(s, x))
<1> DEFINE t == Append(s, x)
<1>1. /\ Len(t) = Len(s) + 1 /\ Len(s) \in Nat /\ t[Len(s) + 1] = x
      /\ \A k \in 1 .. Len(s) : t[k] = s[k]
  BY AppendProperties
<1> HIDE DEF t
<1>2. ASSUME NEW j \in 1 .. Len(t), NEW i \in 1 .. j - 1, t[i].from = t[j].from
      PROVE  t[i].no < t[j].no
  <2>1. i \in 1 .. Len(s) /\ t[i] = s[i]
    BY <1>1, <1>2
  <2>2. CASE j = Len(s) + 1
    BY <1>1, <1>2, <2>1, <2>2
  <2>3. CASE j \in 1 .. Len(s)
    BY <1>1, <1>2, <2>1, <2>3 DEF InOrder
  <2> QED
    BY <1>1, <2>2, <2>3
<1> QED
  BY <1>2 DEF InOrder, t

\* The steps of a reader that add nothing to what was recorded or published.
LEMMA ReadKeepsOrder ==
  ASSUME TypeOK, LinesInOrder, NEW r \in Readers, ReadLine(r) \/ ReadEnd(r) \/ ReadError(r)
  PROVE  LinesInOrder'
<1>1. UNCHANGED <<recorded, sent>>
  BY DEF ReadLine, ReadEnd, ReadError
<1>2. ASSUME NEW q \in Readers
      PROVE  \/ line'[q] = line[q] /\ reader'[q] = reader[q]
             \/ line'[q] = line[q] /\ reader'[q] = "stopped"
             \/ line[q] < line'[q]
  <2>1. CASE ReadLine(r)
    <3>1. CASE forward /\ q = r
      <4>1. line'[r] = taken[r] + 1 /\ line[r] <= taken[r] /\ line[r] \in Nat /\ taken[r] \in Nat
        BY <2>1, <3>1 DEF TypeOK, ReadLine
      <4> QED
        BY <3>1, <4>1
    <3>2. CASE ~ (forward /\ q = r)
      BY <2>1, <3>2 DEF TypeOK, ReadLine, readers
    <3> QED
      BY <3>1, <3>2
  <2>2. CASE ReadEnd(r) \/ ReadError(r)
    BY <2>2 DEF TypeOK, ReadEnd, ReadError
  <2> QED
    BY <2>1, <2>2
<1>3. ASSUME NEW q \in Readers
      PROVE  line[q] \in Nat /\ line'[q] \in Nat
  BY ReaderType DEF Reader, TypeOK
<1>4. ASSUME NEW k \in 1 .. Len(recorded), NEW q \in Readers, recorded[k].from = q
      PROVE  /\ recorded[k].no <= line'[q]
             /\ reader'[q] = "read" => recorded[k].no < line'[q]
  <2>1. recorded[k].no \in Nat
    <3>1. recorded \in Seq(Line)
      BY DEF TypeOK
    <3>2. recorded[k] \in Line
      BY <3>1, ElementOfSeq
    <3> QED
      BY <3>2 DEF Line
  <2>2. recorded[k].no <= line[q] /\ (reader[q] = "read" => recorded[k].no < line[q])
    BY <1>4 DEF LinesInOrder
  <2> QED
    BY <1>2, <1>3, <2>1, <2>2
<1>5. ASSUME NEW k \in 1 .. Len(sent), NEW q \in Readers, sent[k].from = q
      PROVE  /\ sent[k].no <= line'[q]
             /\ reader'[q] \in {"read", "recorded"} => sent[k].no < line'[q]
  <2>1. sent[k].no \in Nat
    <3>1. sent \in Seq(Line)
      BY DEF TypeOK
    <3>2. sent[k] \in Line
      BY <3>1, ElementOfSeq
    <3> QED
      BY <3>2 DEF Line
  <2>2. sent[k].no <= line[q] /\ (reader[q] \in {"read", "recorded"} => sent[k].no < line[q])
    BY <1>5 DEF LinesInOrder
  <2> QED
    BY <1>2, <1>3, <2>1, <2>2
<1>6. InOrder(recorded)' /\ InOrder(sent)'
  BY <1>1 DEF LinesInOrder, InOrder
<1> QED
  BY <1>1, <1>4, <1>5, <1>6 DEF LinesInOrder

\* A line is recorded after the reader's earlier ones.
LEMMA RecordKeepsOrder ==
  ASSUME TypeOK, LinesInOrder, NEW r \in Readers, Record(r)
  PROVE  LinesInOrder'
<1>1. recorded \in Seq(Line) /\ InHand(r) \in Line /\ InHand(r).from = r /\ InHand(r).no = line[r]
  BY InHandType DEF TypeOK, InHand
<1>2. recorded' = Append(recorded, InHand(r)) /\ UNCHANGED <<line, sent>>
  BY DEF Record
<1>3. reader[r] = "read" /\ reader'[r] = "recorded" /\ \A q \in Readers : q # r => reader'[q] = reader[q]
  BY DEF Record, TypeOK
<1>4. /\ Len(recorded') = Len(recorded) + 1 /\ Len(recorded) \in Nat
      /\ recorded'[Len(recorded) + 1] = InHand(r)
      /\ \A k \in 1 .. Len(recorded) : recorded'[k] = recorded[k]
  BY <1>1, <1>2, AppendProperties
<1>5. InOrder(recorded')
  BY <1>1, <1>2, <1>3, AppendInOrder DEF LinesInOrder
<1>6. ASSUME NEW k \in 1 .. Len(recorded'), NEW q \in Readers, recorded'[k].from = q
      PROVE  recorded'[k].no <= line[q] /\ (reader'[q] = "read" => recorded'[k].no < line[q])
  <2>1. CASE k \in 1 .. Len(recorded)
    BY <1>3, <1>4, <1>6, <2>1 DEF LinesInOrder
  <2>2. CASE k = Len(recorded) + 1
    <3>1. recorded'[k].no = line[r] /\ q = r /\ line[r] \in Nat
      BY <1>1, <1>4, <1>6, <2>2 DEF TypeOK
    <3> QED
      BY <1>3, <3>1
  <2> QED
    BY <1>4, <2>1, <2>2
<1>7. ASSUME NEW k \in 1 .. Len(sent), NEW q \in Readers, sent[k].from = q
      PROVE  sent[k].no <= line[q] /\ (reader'[q] \in {"read", "recorded"} => sent[k].no < line[q])
  BY <1>3, <1>7 DEF LinesInOrder
<1>8. InOrder(sent')
  BY <1>2 DEF LinesInOrder
<1> QED
  BY <1>2, <1>5, <1>6, <1>7, <1>8 DEF LinesInOrder, InOrder

\* And published after those it published before.
LEMMA PublishKeepsOrder ==
  ASSUME TypeOK, LinesInOrder, NEW r \in Readers, Publish(r)
  PROVE  LinesInOrder'
<1>1. sent \in Seq(Line) /\ InHand(r) \in Line /\ InHand(r).from = r /\ InHand(r).no = line[r]
  BY InHandType DEF TypeOK, InHand
<1>2. sent' = Append(sent, InHand(r)) /\ UNCHANGED <<line, recorded>>
  BY DEF Publish
<1>3. reader[r] = "recorded" /\ reader'[r] = "reading" /\ \A q \in Readers : q # r => reader'[q] = reader[q]
  BY DEF Publish, TypeOK
<1>4. /\ Len(sent') = Len(sent) + 1 /\ Len(sent) \in Nat
      /\ sent'[Len(sent) + 1] = InHand(r)
      /\ \A k \in 1 .. Len(sent) : sent'[k] = sent[k]
  BY <1>1, <1>2, AppendProperties
<1>5. InOrder(sent')
  BY <1>1, <1>2, <1>3, AppendInOrder DEF LinesInOrder
<1>6. ASSUME NEW k \in 1 .. Len(sent'), NEW q \in Readers, sent'[k].from = q
      PROVE  sent'[k].no <= line[q] /\ (reader'[q] \in {"read", "recorded"} => sent'[k].no < line[q])
  <2>1. CASE k \in 1 .. Len(sent)
    BY <1>3, <1>4, <1>6, <2>1 DEF LinesInOrder
  <2>2. CASE k = Len(sent) + 1
    <3>1. sent'[k].no = line[r] /\ q = r /\ line[r] \in Nat
      BY <1>1, <1>4, <1>6, <2>2 DEF TypeOK
    <3> QED
      BY <1>3, <3>1
  <2> QED
    BY <1>4, <2>1, <2>2
<1>7. ASSUME NEW k \in 1 .. Len(recorded), NEW q \in Readers, recorded[k].from = q
      PROVE  recorded[k].no <= line[q] /\ (reader'[q] = "read" => recorded[k].no < line[q])
  BY <1>3, <1>7 DEF LinesInOrder
<1>8. InOrder(recorded')
  BY <1>2 DEF LinesInOrder
<1> QED
  BY <1>2, <1>5, <1>6, <1>7, <1>8 DEF LinesInOrder, InOrder

\* Every step keeps the order of the lines.
LEMMA OrderKept ==
  ASSUME TypeOK, LinesInOrder, [Next]_vars
  PROVE  LinesInOrder'
<1>1. CASE \E r \in Readers : Write(r) \/ Close(r)
  BY <1>1 DEF Write, Close, readers, LinesInOrder, InOrder
<1>2. CASE \E r \in Readers : Reader(r)
  BY <1>2, ReadKeepsOrder, RecordKeepsOrder, PublishKeepsOrder DEF Reader
<1>3. CASE UNCHANGED lines
  BY <1>3 DEF lines, readers, LinesInOrder, InOrder
<1>4. CASE \E c \in Clients : GetLogs(c) \/ Server(c) \/ ClientReads(c) \/ HangUp(c)
  <2>1. UNCHANGED lines
    BY <1>4 DEF GetLogs, Copy, Server, Subscribe, Send, SendFails, CopySent, Receive, SkipLost,
                ClientReads, HangUp
  <2> QED
    BY <1>3, <2>1
<1> QED
  BY <1>1, <1>2, <1>3, <1>4 DEF Next, Quiet, vars

-----------------------------------------------------------------------------
(* A client's place in the log.                                            *)

\* The parts of the state that belong to one client.
LEMMA ClientParts ==
  ASSUME TypeOK, NEW c \in Clients
  PROVE  /\ mark[c].recorded \in Nat /\ mark[c].copied \in Nat /\ mark[c].sent \in Nat
         /\ mark[c].subscribed \in Nat /\ pos[c] \in 0 .. Len(sent) /\ Len(sent) \in Nat
         /\ Len(recorded) \in Nat /\ Len(Stream(c)) \in Nat
         /\ todo[c] \in Seq(Line) /\ output[c] \in Seq(Line) /\ Stream(c) \in Seq(Line)
<1>1. todo[c] \in Seq(Line) /\ output[c] \in Seq(Line) /\ pos[c] \in 0 .. Len(sent)
  BY DEF TypeOK
<1>2. mark[c] \in [recorded : Nat, copied : Nat, sent : Nat, subscribed : Nat, lagged : BOOLEAN]
  BY DEF TypeOK
<1>3. Stream(c) \in Seq(Line)
  BY <1>1, ConcatProperties DEF Stream
<1>4. Len(sent) \in Nat /\ Len(recorded) \in Nat
  BY DEF TypeOK
<1> QED
  BY <1>1, <1>2, <1>3, <1>4

\* A step that is not one of c's own.
Untouched(c) ==
  /\ call'[c] = call[c] /\ (c \in follow' <=> c \in follow)
  /\ todo'[c] = todo[c] /\ output'[c] = output[c]
  /\ pos'[c] = pos[c] /\ mark'[c] = mark[c]

\* Only a client's call and its task move it.
LEMMA StepsOfAClient ==
  ASSUME TypeOK, [Next]_vars, NEW c \in Clients
  PROVE  Untouched(c) \/ (UNCHANGED lines /\ (GetLogs(c) \/ Server(c)))
<1>1. CASE UNCHANGED calls
  BY <1>1 DEF calls, Untouched
<1>2. CASE \E r \in Readers : Write(r) \/ Close(r) \/ Reader(r)
  BY <1>1, <1>2 DEF Write, Close, Reader, ReadLine, ReadEnd, ReadError, Record, Publish
<1>3. ASSUME NEW d \in Clients, GetLogs(d) \/ Server(d) \/ ClientReads(d) \/ HangUp(d)
      PROVE  Untouched(c) \/ (UNCHANGED lines /\ (GetLogs(c) \/ Server(c)))
  <2>1. CASE ClientReads(d) \/ HangUp(d)
    BY <2>1 DEF ClientReads, HangUp, Untouched
  <2>2. CASE d # c /\ GetLogs(d)
    <3>1. PICK n \in LineCounts, f \in BOOLEAN : Copy(d, n, f)
      BY <2>2 DEF GetLogs
    <3>2. (c \in follow' <=> c \in follow) /\ UNCHANGED <<pos, output>>
      BY <2>2, <3>1 DEF Copy
    <3>3. call'[c] = call[c] /\ todo'[c] = todo[c] /\ mark'[c] = mark[c]
      BY <2>2, <3>1 DEF Copy, TypeOK
    <3> QED
      BY <3>2, <3>3 DEF Untouched
  <2>3. CASE d # c /\ Server(d)
    BY <2>3 DEF TypeOK, Server, Subscribe, Send, SendFails, CopySent, Receive, SkipLost, Untouched
  <2>4. CASE d = c /\ (GetLogs(d) \/ Server(d))
    BY <2>4 DEF GetLogs, Copy, Server, Subscribe, Send, SendFails, CopySent, Receive, SkipLost
  <2> QED
    BY <1>3, <2>1, <2>2, <2>3, <2>4
<1>4. CASE UNCHANGED vars
  BY <1>1, <1>4 DEF vars
<1> QED
  BY <1>2, <1>3, <1>4 DEF Next, Quiet

\* What was recorded and what was published only grow, at the end.
LEMMA LogsGrow ==
  ASSUME TypeOK, [Next]_vars
  PROVE  /\ Len(recorded) \in Nat /\ Len(recorded') \in Nat /\ Len(recorded) <= Len(recorded')
         /\ \A k \in 1 .. Len(recorded) : recorded'[k] = recorded[k]
         /\ Len(sent) \in Nat /\ Len(sent') \in Nat /\ Len(sent) <= Len(sent')
         /\ \A k \in 1 .. Len(sent) : sent'[k] = sent[k]
<1>1. recorded \in Seq(Line) /\ sent \in Seq(Line)
  BY DEF TypeOK
<1>2. CASE UNCHANGED <<recorded, sent>>
  BY <1>1, <1>2
<1>3. ASSUME NEW r \in Readers, Record(r) \/ Publish(r)
      PROVE  \/ recorded' = Append(recorded, InHand(r)) /\ sent' = sent
             \/ sent' = Append(sent, InHand(r)) /\ recorded' = recorded
  BY <1>3 DEF Record, Publish
<1>4. CASE \E r \in Readers : Record(r) \/ Publish(r)
  <2>1. PICK r \in Readers : Record(r) \/ Publish(r)
    BY <1>4
  <2>2. InHand(r) \in Line
    BY InHandType
  <2>3. CASE recorded' = Append(recorded, InHand(r)) /\ sent' = sent
    BY <1>1, <2>2, <2>3, AppendProperties
  <2>4. CASE sent' = Append(sent, InHand(r)) /\ recorded' = recorded
    BY <1>1, <2>2, <2>4, AppendProperties
  <2> QED
    BY <1>3, <2>1, <2>3, <2>4
<1> QED
  BY <1>2, <1>4, OnlyReadersTouchTheLogs

\* A call copies before it subscribes, and what it has is what it had not before.
MarksInOrder(c) ==
  /\ mark[c].copied <= mark[c].recorded /\ mark[c].recorded <= Len(recorded)
  /\ mark[c].sent <= Len(sent)
  /\ call[c] = "none" => output[c] = <<>> /\ todo[c] = <<>> /\ mark[c] = NoMark /\ c \notin follow
  /\ call[c] = "copied" => Len(Stream(c)) = mark[c].copied
  /\ call[c] = "following" => c \in follow
  /\ call[c] \in {"sending", "following"} /\ c \in follow =>
       mark[c].sent <= mark[c].subscribed /\ mark[c].subscribed <= pos[c]

\* The copy: the newest lines of the buffer are the newest that were recorded.
LEMMA CopiedLines ==
  ASSUME TypeOK, TailByPlace, NEW c \in Clients, MarksInOrder(c), forward,
         NEW n \in LineCounts, NEW f \in BOOLEAN, Copy(c, n, f)
  PROVE  /\ (Stream(c))' \in Seq(Line) /\ Len((Stream(c))') <= Len(recorded)
         /\ \A i \in 1 .. Len((Stream(c))') :
              (Stream(c))'[i] = recorded[Len(recorded) - Len((Stream(c))') + i]
         /\ mark'[c].recorded = Len(recorded) /\ mark'[c].copied = Len((Stream(c))')
         /\ mark'[c].sent = Len(sent)
<1> USE SizesAssumption
<1> DEFINE copied == IF n <= 0 \/ n >= Len(buffer) THEN buffer ELSE Newest(buffer, n)
<1>0. /\ buffer \in Seq(Line) /\ recorded \in Seq(Line) /\ n \in Int
      /\ Len(buffer) \in Nat /\ Len(recorded) \in Nat
      /\ Len(buffer) <= Len(recorded)
      /\ \A i \in 1 .. Len(buffer) : buffer[i] = recorded[Len(recorded) - Len(buffer) + i]
  <2>1. buffer \in Seq(Line) /\ recorded \in Seq(Line)
    BY DEF TypeOK
  <2>2. Len(buffer) \in Nat /\ Len(recorded) \in Nat
    BY <2>1, LenProperties
  <2>3. n \in Int
    OBVIOUS
  <2> QED
    BY <2>1, <2>2, <2>3 DEF TailByPlace
<1>1. /\ copied \in Seq(Line) /\ Len(copied) <= Len(recorded)
      /\ \A i \in 1 .. Len(copied) : copied[i] = recorded[Len(recorded) - Len(copied) + i]
  <2>1. CASE n <= 0 \/ n >= Len(buffer)
    BY <1>0, <2>1
  <2>2. CASE ~ (n <= 0 \/ n >= Len(buffer))
    <3> DEFINE newest == Newest(buffer, n)
    <3>1. n \in 0 .. Len(buffer) /\ copied = newest
      BY <1>0, <2>2
    <3>2. /\ newest \in Seq(Line) /\ Len(newest) = n
          /\ \A i \in 1 .. n : newest[i] = buffer[Len(buffer) - n + i]
      BY <1>0, <3>1, NewestType
    <3> HIDE DEF newest, copied
    <3>3. ASSUME NEW i \in 1 .. n
          PROVE  newest[i] = recorded[Len(recorded) - n + i]
      <4> DEFINE j == Len(buffer) - n + i
      <4>1. j \in 1 .. Len(buffer) /\ Len(recorded) - Len(buffer) + j = Len(recorded) - n + i
        BY <1>0, <3>1
      <4> QED
        BY <1>0, <3>2, <4>1
    <3> QED
      BY <1>0, <3>1, <3>2, <3>3
  <2> QED
    BY <2>1, <2>2
<1> HIDE DEF copied
<1>2. output'[c] = <<>> /\ todo'[c] = copied
  BY DEF Copy, copied, MarksInOrder, TypeOK
<1>3. (Stream(c))' = copied
  <2>1. (Stream(c))' = <<>> \o copied
    BY <1>2 DEF Stream
  <2> QED
    BY <1>1, <2>1, ConcatEmptySeq
<1>4. mark'[c] = [NoMark EXCEPT !.recorded = Len(recorded), !.copied = Len(copied), !.sent = Len(sent)]
  <2>1. mark[c] = NoMark
    BY DEF Copy, MarksInOrder
  <2>2. mark' = [mark EXCEPT ![c].recorded = Len(recorded),
                             ![c].copied = Len(todo'[c]), ![c].sent = Len(sent)]
    BY DEF Copy
  <2>3. mark'[c] = [mark[c] EXCEPT !.recorded = Len(recorded),
                                   !.copied = Len(todo'[c]), !.sent = Len(sent)]
    BY <2>2 DEF TypeOK
  <2> QED
    BY <1>2, <2>1, <2>3
<1>5. /\ mark'[c].recorded = Len(recorded) /\ mark'[c].copied = Len(copied)
      /\ mark'[c].sent = Len(sent)
  BY <1>4 DEF NoMark
<1> QED
  BY <1>1, <1>3, <1>5

\* Passing a line on moves it within the stream.
LEMMA SendKeepsStream ==
  ASSUME TypeOK, NEW c \in Clients, Send(c)
  PROVE  (Stream(c))' = Stream(c)
<1>1. todo[c] \in Seq(Line) /\ todo[c] # <<>> /\ output[c] \in Seq(Line)
  BY DEF TypeOK, Send
<1>2. output'[c] = Append(output[c], Head(todo[c])) /\ todo'[c] = Tail(todo[c])
  BY DEF TypeOK, Send
<1>3. Append(output[c], Head(todo[c])) \o Tail(todo[c]) = output[c] \o todo[c]
  BY <1>1, HeadMoved
<1> QED
  BY <1>2, <1>3 DEF Stream

\* The stream, step by step: nothing, or one more published line.
LEMMA StreamOfAStep ==
  ASSUME TypeOK, NEW c \in Clients, Untouched(c) \/ Server(c)
  PROVE  /\ ~ Receive(c) => (Stream(c))' = Stream(c)
         /\ Receive(c) => /\ pos'[c] = pos[c] + 1 /\ pos'[c] \in 1 .. Len(sent)
                          /\ (Stream(c))' = Append(Stream(c), sent[pos'[c]])
<1>1. CASE Untouched(c) /\ ~ Receive(c)
  BY <1>1 DEF Untouched, Stream
<1>2. CASE Send(c)
  <2>1. ~ Receive(c)
    BY <1>2 DEF Send, Receive
  <2> QED
    BY <1>2, <2>1, SendKeepsStream
<1>3. CASE Subscribe(c) \/ SendFails(c) \/ CopySent(c) \/ SkipLost(c)
  <2>1. UNCHANGED <<todo, output>>
    BY <1>3 DEF Subscribe, SendFails, CopySent, SkipLost
  <2>2. (Stream(c))' = Stream(c)
    BY <2>1 DEF Stream
  <2>3. ~ Receive(c)
    BY <1>3 DEF Subscribe, SendFails, CopySent, SkipLost, Receive
  <2> QED
    BY <2>2, <2>3
<1>4. CASE Receive(c)
  <2>1. pos'[c] = pos[c] + 1 /\ pos[c] < Len(sent) /\ pos[c] \in 0 .. Len(sent) /\ Len(sent) \in Nat
    BY <1>4 DEF TypeOK, Receive
  <2>2. pos'[c] \in 1 .. Len(sent)
    BY <2>1
  <2>3. todo[c] = <<>> /\ todo'[c] = <<sent[pos'[c]]>> /\ output'[c] = output[c]
    BY <1>4 DEF TypeOK, Receive
  <2>4. output[c] \in Seq(Line) /\ sent \in Seq(Line)
    BY DEF TypeOK
  <2>5. Stream(c) = output[c]
    BY <2>3, <2>4, ConcatEmptySeq DEF Stream
  <2> DEFINE x == sent[pos'[c]]
  <2>6. x \in Line
    BY <2>2, <2>4, ElementOfSeq
  <2> HIDE DEF x
  <2>7. output[c] \o <<x>> = Append(output[c], x)
    BY <2>4, <2>6, AppendIsConcat
  <2>8. (Stream(c))' = output[c] \o <<x>>
    BY <2>3 DEF Stream, x
  <2>9. (Stream(c))' = Append(Stream(c), sent[pos'[c]])
    BY <2>5, <2>7, <2>8 DEF x
  <2> QED
    BY <1>4, <2>1, <2>2, <2>9
<1> QED
  BY <1>1, <1>2, <1>3, <1>4 DEF Server

\* What a call marks when it copies stays as it is.
LEMMA MarksOfAStep ==
  ASSUME TypeOK, NEW c \in Clients, Untouched(c) \/ Server(c)
  PROVE  /\ mark'[c].recorded = mark[c].recorded /\ mark'[c].copied = mark[c].copied
         /\ mark'[c].sent = mark[c].sent
         /\ ~ Subscribe(c) => mark'[c].subscribed = mark[c].subscribed
         /\ ~ SkipLost(c) => mark'[c].lagged = mark[c].lagged
<1>1. CASE Untouched(c)
  BY <1>1 DEF Untouched
<1>2. CASE Send(c) \/ SendFails(c) \/ CopySent(c) \/ Receive(c)
  BY <1>2 DEF Send, SendFails, CopySent, Receive
<1>3. mark \in [Clients -> [recorded : Nat, copied : Nat, sent : Nat, subscribed : Nat, lagged : BOOLEAN]]
  BY DEF TypeOK
<1>4. CASE Subscribe(c)
  <2>1. mark' = [mark EXCEPT ![c].subscribed = Len(sent)] /\ ~ SkipLost(c)
    BY <1>4 DEF Subscribe, SkipLost
  <2> QED
    BY <1>3, <1>4, <2>1
<1>5. CASE SkipLost(c)
  <2>1. mark' = [mark EXCEPT ![c].lagged = TRUE] /\ ~ Subscribe(c)
    BY <1>5 DEF Subscribe, SkipLost
  <2> QED
    BY <1>3, <1>5, <2>1
<1> QED
  BY <1>1, <1>2, <1>4, <1>5 DEF Server

\* Where a task goes, and which of its variables say so.
LEMMA PlaceOfAStep ==
  ASSUME TypeOK, TypeOK', NEW c \in Clients, MarksInOrder(c), Untouched(c) \/ Server(c)
  PROVE  /\ pos[c] \in Nat /\ pos'[c] \in Nat /\ pos[c] <= pos'[c]
         /\ c \in follow' <=> c \in follow
         /\ \/ Subscribe(c) /\ pos'[c] = mark'[c].subscribed /\ pos'[c] = Len(sent)
            \/ SkipLost(c) /\ mark'[c].lagged
            \/ Receive(c)
            \/ pos'[c] = pos[c]
<1>1. /\ pos[c] \in 0 .. Len(sent) /\ pos'[c] \in Nat /\ Len(sent) \in Nat
  <2>1. (pos[c] \in 0 .. Len(sent) /\ Len(sent) \in Nat)'
    BY DEF TypeOK
  <2> QED
    BY <2>1, ClientParts
<1>2. CASE Untouched(c)
  BY <1>1, <1>2 DEF Untouched
<1>3. CASE Send(c) \/ SendFails(c) \/ CopySent(c)
  BY <1>1, <1>3 DEF Send, SendFails, CopySent
<1>4. CASE Subscribe(c)
  BY <1>1, <1>4 DEF TypeOK, Subscribe
<1>5. CASE Receive(c)
  <2>1. pos'[c] = pos[c] + 1 /\ follow' = follow
    BY <1>5 DEF TypeOK, Receive
  <2> QED
    BY <1>1, <1>5, <2>1
<1>6. CASE SkipLost(c)
  <2>1. pos'[c] = Len(sent) - Backlog /\ follow' = follow /\ mark'[c].lagged
    BY <1>6 DEF TypeOK, SkipLost
  <2>2. Len(sent) - pos[c] > Backlog /\ Backlog \in Nat
    BY <1>6, SizesAssumption DEF SkipLost, Lagging
  <2> QED
    BY <1>1, <1>6, <2>1, <2>2
<1> QED
  BY <1>2, <1>3, <1>4, <1>5, <1>6 DEF Server

\* The marks stay in order.
LEMMA MarksKept ==
  ASSUME TypeOK, TypeOK', TailByPlace, NEW c \in Clients, MarksInOrder(c), [Next]_vars
  PROVE  MarksInOrder(c)'
<1> DEFINE M == mark[c]
<1>0. /\ M.recorded \in Nat /\ M.copied \in Nat /\ M.sent \in Nat /\ M.subscribed \in Nat
      /\ pos[c] \in Nat /\ pos[c] <= Len(sent) /\ Len(sent) \in Nat /\ Len(recorded) \in Nat
  BY ClientParts
<1>1. CASE Untouched(c)
  <2>1. (Stream(c))' = Stream(c)
    BY <1>1 DEF Untouched, Stream
  <2>2. M.recorded <= Len(recorded') /\ M.sent <= Len(sent')
    BY <1>0, LogsGrow DEF MarksInOrder
  <2> QED
    BY <1>1, <2>1, <2>2 DEF Untouched, MarksInOrder
<1>2. CASE Server(c) /\ UNCHANGED lines
  <2>0. UNCHANGED <<recorded, sent>>
    BY <1>2 DEF lines
  <2>1. /\ mark'[c].recorded = M.recorded /\ mark'[c].copied = M.copied /\ mark'[c].sent = M.sent
        /\ ~ Subscribe(c) => mark'[c].subscribed = M.subscribed
    BY <1>2, MarksOfAStep
  <2>2. /\ pos'[c] \in Nat /\ pos[c] <= pos'[c] /\ (c \in follow' <=> c \in follow)
        /\ Subscribe(c) => mark'[c].subscribed = Len(sent) /\ pos'[c] = Len(sent)
    <3>1. Subscribe(c) => mark'[c].subscribed = Len(sent) /\ pos'[c] = Len(sent)
      BY DEF TypeOK, Subscribe
    <3> QED
      BY <1>2, <3>1, PlaceOfAStep
  <2>3. call'[c] \in {"sending", "following", "over"}
    BY <1>2 DEF TypeOK, Server, Subscribe, Send, SendFails, CopySent, Receive, SkipLost
  <2>4. call'[c] = "following" => c \in follow
    BY <1>2 DEF TypeOK, MarksInOrder, Server, Subscribe, Send, SendFails, CopySent, Receive, SkipLost
  <2>5. ASSUME call'[c] \in {"sending", "following"}, c \in follow
        PROVE  M.sent <= mark'[c].subscribed /\ mark'[c].subscribed <= pos'[c]
    <3>1. CASE Subscribe(c)
      BY <1>0, <2>2, <3>1 DEF MarksInOrder
    <3>2. CASE ~ Subscribe(c)
      <4>1. call[c] \in {"sending", "following"}
        BY <1>2, <3>2 DEF Server, Send, SendFails, CopySent, Receive, SkipLost
      <4>2. M.sent <= M.subscribed /\ M.subscribed <= pos[c]
        BY <2>5, <4>1 DEF MarksInOrder
      <4> QED
        BY <1>0, <2>1, <2>2, <3>2, <4>2
    <3> QED
      BY <3>1, <3>2
  <2> QED
    BY <2>0, <2>1, <2>2, <2>3, <2>4, <2>5 DEF MarksInOrder
<1>3. CASE GetLogs(c) /\ UNCHANGED lines
  <2>0. UNCHANGED <<recorded, sent>>
    BY <1>3 DEF lines
  <2>1. PICK n \in LineCounts, f \in BOOLEAN : Copy(c, n, f)
    BY <1>3 DEF GetLogs
  <2>2. CASE ~ forward
    <3>1. call'[c] = "refused" /\ mark'[c] = M
      BY <2>1, <2>2 DEF TypeOK, Copy
    <3> QED
      BY <2>0, <3>1 DEF MarksInOrder
  <2>3. CASE forward
    <3> DEFINE L == Len((Stream(c))')
    <3>1. /\ L <= Len(recorded)
          /\ mark'[c].recorded = Len(recorded) /\ mark'[c].copied = L /\ mark'[c].sent = Len(sent)
      BY <2>1, <2>3, CopiedLines
    <3>2. call'[c] = IF f THEN "copied" ELSE "sending"
      BY <2>1, <2>3 DEF TypeOK, Copy
    <3>3. f \/ c \notin follow'
      BY <2>1 DEF Copy, MarksInOrder
    <3> QED
      BY <1>0, <2>0, <3>1, <3>2, <3>3 DEF MarksInOrder
  <2> QED
    BY <2>2, <2>3
<1> QED
  BY <1>1, <1>2, <1>3, StepsOfAClient

(***************************************************************************)
(* The seam between the copy of the buffer and the subscription.  What was *)
(* recorded before the copy and what is published after it may only meet   *)
(* in a line its reader had in hand; what is recorded after the copy was   *)
(* not published before it.                                                *)
(***************************************************************************)
SeamInOrder(c) ==
  /\ \A k \in 1 .. mark[c].recorded, p \in mark[c].sent + 1 .. Len(sent) :
       recorded[k].from = sent[p].from => recorded[k].no <= sent[p].no
  /\ \A k \in mark[c].recorded + 1 .. Len(recorded), p \in 1 .. mark[c].sent :
       sent[p] # recorded[k]

\* It only matters where the marks are, and what the readers add.
LEMMA ReadersKeepSeam ==
  ASSUME TypeOK, TypeOK', LinesInOrder, [Next]_vars,
         NEW c \in Clients, MarksInOrder(c), SeamInOrder(c),
         mark'[c].recorded = mark[c].recorded, mark'[c].sent = mark[c].sent
  PROVE  SeamInOrder(c)'
<1> DEFINE R == mark[c].recorded
           S == mark[c].sent
<1>0. /\ R \in Nat /\ S \in Nat /\ Len(sent) \in Nat /\ Len(recorded) \in Nat
      /\ R <= Len(recorded) /\ S <= Len(sent)
      /\ sent \in Seq(Line) /\ recorded \in Seq(Line)
  BY ClientParts DEF MarksInOrder, TypeOK
<1>1. /\ \A k \in 1 .. R, p \in S + 1 .. Len(sent) :
           recorded[k].from = sent[p].from => recorded[k].no <= sent[p].no
      /\ \A k \in R + 1 .. Len(recorded), p \in 1 .. S : sent[p] # recorded[k]
  BY DEF SeamInOrder
<1>2. mark'[c].recorded = R /\ mark'[c].sent = S
  OBVIOUS
<1> HIDE DEF R, S
<1>3. CASE UNCHANGED <<recorded, sent>>
  BY <1>1, <1>2, <1>3 DEF SeamInOrder
<1>4. ASSUME NEW r \in Readers, Record(r)
      PROVE  SeamInOrder(c)'
  <2>1. recorded' = Append(recorded, InHand(r)) /\ sent' = sent
    BY <1>4 DEF Record
  <2>2. InHand(r) \in Line
    BY InHandType
  <2>3. /\ Len(recorded') = Len(recorded) + 1 /\ recorded'[Len(recorded) + 1] = InHand(r)
        /\ \A k \in 1 .. Len(recorded) : recorded'[k] = recorded[k]
    BY <1>0, <2>1, <2>2, AppendProperties
  <2>4. ASSUME NEW p \in 1 .. S
        PROVE  sent[p] # InHand(r)
    <3>1. p \in 1 .. Len(sent)
      BY <1>0
    <3>2. sent[p].from = r => sent[p].no < line[r]
      BY <1>4, <3>1 DEF LinesInOrder, Record
    <3>3. InHand(r).from = r /\ InHand(r).no = line[r] /\ line[r] \in Nat
      BY DEF InHand, TypeOK
    <3> QED
      BY <3>2, <3>3
  <2>5. \A k \in 1 .. R, p \in S + 1 .. Len(sent) :
          recorded'[k].from = sent[p].from => recorded'[k].no <= sent[p].no
    <3>1. \A k \in 1 .. R : recorded'[k] = recorded[k]
      BY <1>0, <2>3
    <3> QED
      BY <1>1, <3>1
  <2>6. ASSUME NEW k \in R + 1 .. Len(recorded'), NEW p \in 1 .. S
        PROVE  sent[p] # recorded'[k]
    <3>1. CASE k = Len(recorded) + 1
      BY <2>3, <2>4, <3>1
    <3>2. CASE k \in R + 1 .. Len(recorded)
      BY <1>0, <1>1, <2>3, <3>2
    <3> QED
      BY <1>0, <2>3, <3>1, <3>2
  <2> QED
    BY <1>2, <2>1, <2>5, <2>6 DEF SeamInOrder
<1>5. ASSUME NEW r \in Readers, Publish(r)
      PROVE  SeamInOrder(c)'
  <2>1. sent' = Append(sent, InHand(r)) /\ recorded' = recorded
    BY <1>5 DEF Publish
  <2>2. InHand(r) \in Line
    BY InHandType
  <2>3. /\ Len(sent') = Len(sent) + 1 /\ sent'[Len(sent) + 1] = InHand(r)
        /\ \A p \in 1 .. Len(sent) : sent'[p] = sent[p]
    BY <1>0, <2>1, <2>2, AppendProperties
  <2>4. ASSUME NEW k \in 1 .. R, NEW p \in S + 1 .. Len(sent'), recorded[k].from = sent'[p].from
        PROVE  recorded[k].no <= sent'[p].no
    <3>1. CASE p = Len(sent) + 1
      <4>1. k \in 1 .. Len(recorded)
        BY <1>0
      <4>2. sent'[p].from = r /\ sent'[p].no = line[r]
        BY <2>3, <3>1 DEF InHand
      <4> QED
        BY <2>4, <4>1, <4>2 DEF LinesInOrder
    <3>2. CASE p \in S + 1 .. Len(sent)
      BY <1>0, <1>1, <2>3, <2>4, <3>2
    <3> QED
      BY <1>0, <2>3, <3>1, <3>2
  <2>5. \A k \in R + 1 .. Len(recorded), p \in 1 .. S : sent'[p] # recorded[k]
    <3>1. \A p \in 1 .. S : sent'[p] = sent[p]
      BY <1>0, <2>3
    <3> QED
      BY <1>1, <3>1
  <2> QED
    BY <1>2, <2>1, <2>4, <2>5 DEF SeamInOrder
<1> QED
  BY <1>3, <1>4, <1>5, OnlyReadersTouchTheLogs

\* A copy that is being made has nothing behind it.
LEMMA SeamKept ==
  ASSUME TypeOK, TypeOK', LinesInOrder, TailByPlace, [Next]_vars,
         NEW c \in Clients, MarksInOrder(c), SeamInOrder(c)
  PROVE  SeamInOrder(c)'
<1>1. CASE Untouched(c) \/ Server(c)
  BY <1>1, MarksOfAStep, ReadersKeepSeam
<1>2. CASE GetLogs(c) /\ UNCHANGED lines
  <2>1. PICK n \in LineCounts, f \in BOOLEAN : Copy(c, n, f)
    BY <1>2 DEF GetLogs
  <2>2. CASE ~ forward
    <3>1. mark'[c] = mark[c]
      BY <2>1, <2>2 DEF Copy
    <3> QED
      BY <3>1, ReadersKeepSeam
  <2>3. CASE forward
    <3>1. mark'[c].recorded = Len(recorded) /\ mark'[c].sent = Len(sent)
      BY <2>1, <2>3, CopiedLines
    <3>2. UNCHANGED <<recorded, sent>>
      BY <1>2 DEF lines
    <3>3. Len(recorded) \in Nat /\ Len(sent) \in Nat
      BY ClientParts
    <3> QED
      BY <3>1, <3>2, <3>3 DEF SeamInOrder
  <2> QED
    BY <2>2, <2>3
<1> QED
  BY <1>1, <1>2, StepsOfAClient

-----------------------------------------------------------------------------
(* A client's stream, line by line.                                        *)

\* It begins with the copy, which is a part of what was recorded ...
CopyByPlace(c) ==
  /\ mark[c].copied <= Len(Stream(c))
  /\ \A i \in 1 .. mark[c].copied : Stream(c)[i] = recorded[mark[c].recorded - mark[c].copied + i]

\* ... and goes on with what was published after the copy, in order ...
RestByPlace(c) ==
  /\ \A i \in mark[c].copied + 1 .. Len(Stream(c)) :
       \E p \in mark[c].sent + 1 .. pos[c] : Stream(c)[i] = sent[p]
  /\ \A j \in mark[c].copied + 1 .. Len(Stream(c)) : \A i \in mark[c].copied + 1 .. j - 1 :
       Stream(c)[i].from = Stream(c)[j].from => Stream(c)[i].no < Stream(c)[j].no

\* ... without a gap, for one who follows and never lagged.
NothingSkipped(c) ==
  c \in follow /\ call[c] \in {"sending", "following"} /\ ~ mark[c].lagged =>
    \A p \in mark[c].subscribed + 1 .. pos[c] : \E i \in 1 .. Len(Stream(c)) : Stream(c)[i] = sent[p]

StreamByPlace(c) == CopyByPlace(c) /\ RestByPlace(c) /\ NothingSkipped(c)

\* A copy is all there is of a new stream.
LEMMA CopyStartsStream ==
  ASSUME TypeOK, TypeOK', TailByPlace, NEW c \in Clients, MarksInOrder(c), StreamByPlace(c),
         GetLogs(c), UNCHANGED lines
  PROVE  StreamByPlace(c)'
<1>0. UNCHANGED <<recorded, sent>> /\ call[c] = "none"
  BY DEF lines, GetLogs, Copy
<1>1. PICK n \in LineCounts, f \in BOOLEAN : Copy(c, n, f)
  BY DEF GetLogs
<1>2. CASE ~ forward
  <2>1. mark'[c] = mark[c] /\ UNCHANGED <<pos, todo, output>> /\ call'[c] = "refused"
    BY <1>1, <1>2 DEF TypeOK, Copy
  <2>2. (Stream(c))' = Stream(c)
    BY <2>1 DEF Stream
  <2> QED
    BY <1>0, <2>1, <2>2 DEF StreamByPlace, CopyByPlace, RestByPlace, NothingSkipped
<1>3. CASE forward
  <2> DEFINE T == (Stream(c))'
  <2>1. /\ T \in Seq(Line) /\ Len(T) <= Len(recorded)
        /\ \A i \in 1 .. Len(T) : T[i] = recorded[Len(recorded) - Len(T) + i]
        /\ mark'[c].recorded = Len(recorded) /\ mark'[c].copied = Len(T)
    BY <1>1, <1>3, CopiedLines
  <2>2. Len(T) \in Nat
    BY <2>1
  <2>3. call'[c] = "copied" \/ c \notin follow'
    BY <1>1, <1>3 DEF TypeOK, Copy, MarksInOrder
  <2>4. CopyByPlace(c)'
    BY <1>0, <2>1, <2>2 DEF CopyByPlace
  <2>5. RestByPlace(c)'
    BY <2>1, <2>2 DEF RestByPlace
  <2>6. NothingSkipped(c)'
    BY <2>3 DEF NothingSkipped
  <2> QED
    BY <2>4, <2>5, <2>6 DEF StreamByPlace
<1> QED
  BY <1>2, <1>3

\* A step that does not add to the stream keeps it in its place.
LEMMA StreamKeepsItsPlace ==
  ASSUME TypeOK, TypeOK', [Next]_vars, NEW c \in Clients, MarksInOrder(c), StreamByPlace(c),
         Untouched(c) \/ Server(c), ~ Receive(c)
  PROVE  StreamByPlace(c)'
<1> DEFINE T == Stream(c)
           R == mark[c].recorded
           C == mark[c].copied
           S == mark[c].sent
<1>0. /\ R \in Nat /\ C \in Nat /\ S \in Nat /\ mark[c].subscribed \in Nat /\ Len(T) \in Nat
      /\ C <= R /\ R <= Len(recorded) /\ S <= Len(sent)
      /\ pos[c] \in Nat /\ pos[c] <= Len(sent)
  BY ClientParts DEF MarksInOrder
<1>1. (Stream(c))' = T
  BY StreamOfAStep
<1>2. mark'[c].recorded = R /\ mark'[c].copied = C /\ mark'[c].sent = S
  BY MarksOfAStep
<1>3. /\ pos'[c] \in Nat /\ pos[c] <= pos'[c] /\ (c \in follow' <=> c \in follow)
      /\ \/ Subscribe(c) /\ pos'[c] = mark'[c].subscribed
         \/ mark'[c].lagged
         \/ ~ Subscribe(c) /\ ~ SkipLost(c) /\ pos'[c] = pos[c]
  <2>1. SkipLost(c) => mark'[c].lagged
    BY DEF TypeOK, SkipLost
  <2>2. Subscribe(c) => pos'[c] = mark'[c].subscribed
    BY DEF TypeOK, Subscribe
  <2> QED
    BY <2>1, <2>2, PlaceOfAStep
<1>4. /\ \A k \in 1 .. Len(recorded) : recorded'[k] = recorded[k]
      /\ \A p \in 1 .. Len(sent) : sent'[p] = sent[p]
      /\ Len(recorded) \in Nat /\ Len(sent) \in Nat
  BY LogsGrow
<1> HIDE DEF T, R, C, S
<1>5. CopyByPlace(c)'
  <2>1. C <= Len(T) /\ \A i \in 1 .. C : T[i] = recorded[R - C + i]
    BY DEF StreamByPlace, CopyByPlace, T, R, C
  <2>2. \A i \in 1 .. C : R - C + i \in 1 .. Len(recorded)
    BY <1>0, <1>4
  <2>3. \A i \in 1 .. C : T[i] = recorded'[R - C + i]
    BY <1>4, <2>1, <2>2
  <2> QED
    BY <1>1, <1>2, <2>1, <2>3 DEF CopyByPlace
<1>6. RestByPlace(c)'
  <2>1. /\ \A i \in C + 1 .. Len(T) : \E p \in S + 1 .. pos[c] : T[i] = sent[p]
        /\ \A j \in C + 1 .. Len(T) : \A i \in C + 1 .. j - 1 :
             T[i].from = T[j].from => T[i].no < T[j].no
    BY DEF StreamByPlace, RestByPlace, T, C, S
  <2>2. ASSUME NEW i \in C + 1 .. Len(T)
        PROVE  \E p \in S + 1 .. pos'[c] : T[i] = sent'[p]
    <3>1. PICK p \in S + 1 .. pos[c] : T[i] = sent[p]
      BY <2>1
    <3>2. /\ S \in Nat /\ pos[c] \in Nat /\ pos'[c] \in Nat /\ Len(sent) \in Nat
          /\ pos[c] <= pos'[c] /\ pos[c] <= Len(sent)
      BY <1>0, <1>3, <1>4
    <3>3. p \in S + 1 .. pos'[c] /\ p \in 1 .. Len(sent)
      BY <3>2
    <3> QED
      BY <1>4, <3>1, <3>3
  <2> QED
    BY <1>1, <1>2, <2>1, <2>2 DEF RestByPlace
<1>7. NothingSkipped(c)'
  <2> SUFFICES ASSUME c \in follow', call'[c] \in {"sending", "following"}, ~ mark'[c].lagged,
                      NEW p \in mark'[c].subscribed + 1 .. pos'[c]
               PROVE  \E i \in 1 .. Len(T) : T[i] = sent'[p]
    BY <1>1 DEF NothingSkipped, T
  <2>1. CASE Subscribe(c) /\ pos'[c] = mark'[c].subscribed
    BY <1>3, <2>1
  <2>2. CASE ~ Subscribe(c) /\ ~ SkipLost(c) /\ pos'[c] = pos[c]
    <3>1. call[c] \in {"sending", "following"}
      BY <2>2 DEF Untouched, Server, Send, SendFails, CopySent, Receive
    <3>2. c \in follow /\ ~ mark[c].lagged /\ mark'[c].subscribed = mark[c].subscribed
      BY <1>3, <2>2, MarksOfAStep
    <3>3. \E i \in 1 .. Len(T) : T[i] = sent[p]
      BY <2>2, <3>1, <3>2 DEF StreamByPlace, NothingSkipped, T
    <3>4. p \in 1 .. Len(sent)
      BY <1>0, <1>4, <2>2, <3>2
    <3> QED
      BY <1>4, <3>3, <3>4
  <2> QED
    BY <1>3, <2>1, <2>2
<1> QED
  BY <1>5, <1>6, <1>7 DEF StreamByPlace

\* A line that is received has its place behind all that came before.
LEMMA ReceiveKeepsPlaces ==
  ASSUME TypeOK, TypeOK', LinesInOrder, NEW c \in Clients, MarksInOrder(c), StreamByPlace(c),
         Receive(c)
  PROVE  StreamByPlace(c)'
<1> DEFINE T == Stream(c)
           R == mark[c].recorded
           C == mark[c].copied
           S == mark[c].sent
           q == pos[c] + 1
<1>0. /\ R \in Nat /\ C \in Nat /\ S \in Nat /\ mark[c].subscribed \in Nat /\ Len(T) \in Nat
      /\ C <= Len(T) /\ pos[c] \in Nat /\ Len(sent) \in Nat /\ T \in Seq(Line)
  BY ClientParts DEF StreamByPlace, CopyByPlace
<1>1. pos'[c] = q /\ q \in 1 .. Len(sent) /\ (Stream(c))' = Append(T, sent[q])
  BY StreamOfAStep DEF Server
<1>2. call[c] = "following" /\ call' = call /\ follow' = follow /\ mark' = mark
      /\ recorded' = recorded /\ sent' = sent
  BY DEF Receive, lines
<1>3. S <= mark[c].subscribed /\ mark[c].subscribed <= pos[c]
  BY <1>2 DEF MarksInOrder
<1> DEFINE T1 == (Stream(c))'
<1>4. /\ Len(T1) = Len(T) + 1 /\ T1[Len(T) + 1] = sent[q]
      /\ \A i \in 1 .. Len(T) : T1[i] = T[i]
  <2>1. sent[q] \in Line
    BY <1>1, ElementOfSeq DEF TypeOK
  <2> QED
    BY <1>0, <1>1, <2>1, AppendProperties
<1> HIDE DEF T1
<1>5. CopyByPlace(c)'
  <2>1. \A i \in 1 .. C : T[i] = recorded[R - C + i]
    BY DEF StreamByPlace, CopyByPlace
  <2>2. \A i \in 1 .. C : T1[i] = recorded[R - C + i]
    BY <1>0, <1>4, <2>1
  <2>3. C <= Len(T1)
    BY <1>0, <1>4
  <2> QED
    BY <1>2, <2>2, <2>3 DEF CopyByPlace, T1
<1>6. \A p \in S + 1 .. pos[c] : p \in 1 .. q - 1 /\ p \in S + 1 .. q
  <2>1. S \in Nat /\ pos[c] \in Nat
    BY <1>0
  <2> QED
    BY <2>1
<1>7. \A i \in C + 1 .. Len(T) : \E p \in S + 1 .. pos[c] : T[i] = sent[p]
  BY DEF StreamByPlace, RestByPlace
<1>8. ASSUME NEW i \in C + 1 .. Len(T1)
      PROVE  \E p \in S + 1 .. q : T1[i] = sent[p]
  <2>1. CASE i \in C + 1 .. Len(T)
    <3>1. PICK p \in S + 1 .. pos[c] : T[i] = sent[p]
      BY <1>7, <2>1
    <3>2. p \in S + 1 .. q
      BY <1>6
    <3>3. i \in 1 .. Len(T)
      BY <1>0, <2>1
    <3> QED
      BY <1>4, <3>1, <3>2, <3>3
  <2>2. CASE i = Len(T) + 1
    <3>1. S \in Nat /\ mark[c].subscribed \in Nat /\ pos[c] \in Nat
      BY <1>0
    <3>2. q \in S + 1 .. q
      BY <1>3, <3>1
    <3> QED
      BY <1>4, <2>2, <3>2
  <2> QED
    BY <1>0, <1>4, <2>1, <2>2
<1>9. ASSUME NEW j \in C + 1 .. Len(T1), NEW i \in C + 1 .. j - 1, T1[i].from = T1[j].from
      PROVE  T1[i].no < T1[j].no
  <2>1. i \in C + 1 .. Len(T) /\ T1[i] = T[i]
    <3>1. j \in Int /\ j <= Len(T) + 1 /\ i \in Int /\ C + 1 <= i /\ i <= j - 1
      BY <1>0, <1>4
    <3>2. i \in C + 1 .. Len(T) /\ i \in 1 .. Len(T)
      BY <1>0, <3>1
    <3> QED
      BY <1>4, <3>2
  <2>2. CASE j \in C + 1 .. Len(T)
    <3>1. T1[j] = T[j]
      BY <1>0, <1>4, <2>2
    <3> QED
      BY <1>9, <2>1, <2>2, <3>1 DEF StreamByPlace, RestByPlace
  <2>3. CASE j = Len(T) + 1
    <3>1. PICK p \in S + 1 .. pos[c] : T[i] = sent[p]
      BY <1>7, <2>1
    <3>2. p \in 1 .. q - 1
      BY <1>6
    <3>3. sent[p].from = sent[q].from => sent[p].no < sent[q].no
      BY <1>1, <3>2 DEF LinesInOrder, InOrder
    <3> QED
      BY <1>4, <1>9, <2>1, <2>3, <3>1, <3>3
  <2>4. j \in C + 1 .. Len(T) \/ j = Len(T) + 1
    BY <1>0, <1>4
  <2> QED
    BY <2>2, <2>3, <2>4
<1>10. RestByPlace(c)'
  BY <1>1, <1>2, <1>8, <1>9 DEF RestByPlace, T1
<1>11. NothingSkipped(c)'
  <2> SUFFICES ASSUME c \in follow, ~ mark[c].lagged,
                      NEW p \in mark[c].subscribed + 1 .. q
               PROVE  \E i \in 1 .. Len(T1) : T1[i] = sent[p]
    BY <1>1, <1>2 DEF NothingSkipped, T1
  <2>1. CASE p = q
    BY <1>0, <1>4, <2>1
  <2>2. CASE p \in mark[c].subscribed + 1 .. pos[c]
    <3>1. PICK i \in 1 .. Len(T) : T[i] = sent[p]
      BY <1>2, <2>2 DEF StreamByPlace, NothingSkipped
    <3> QED
      BY <1>0, <1>4, <3>1
  <2> QED
    BY <1>0, <2>1, <2>2
<1> QED
  BY <1>5, <1>10, <1>11 DEF StreamByPlace

-----------------------------------------------------------------------------
(* What a client gets.                                                     *)

\* Everything that is known of the place of a line.
PlacesInv ==
  /\ LinesInOrder
  /\ \A c \in Clients : MarksInOrder(c) /\ SeamInOrder(c) /\ StreamByPlace(c)

(***************************************************************************)
(* Every line of every stream has its place in what was recorded or in     *)
(* what was published, on its side of the seam, whatever the readers and   *)
(* the other clients do between two steps of a call.                       *)
(***************************************************************************)
THEOREM LinesKeepTheirPlaces == Spec => []PlacesInv
<1>1. Init => PlacesInv
  <2> SUFFICES ASSUME Init
               PROVE  PlacesInv
    OBVIOUS
  <2>1. recorded = <<>> /\ sent = <<>> /\ Len(recorded) = 0 /\ Len(sent) = 0
    BY DEF Init
  <2>2. LinesInOrder
    BY <2>1 DEF LinesInOrder, InOrder
  <2>3. ASSUME NEW c \in Clients
        PROVE  MarksInOrder(c) /\ SeamInOrder(c) /\ StreamByPlace(c)
    <3>1. /\ call[c] = "none" /\ output[c] = <<>> /\ todo[c] = <<>> /\ mark[c] = NoMark
          /\ c \notin follow /\ pos[c] = 0
      BY DEF Init
    <3>2. Len(Stream(c)) = 0
      BY <3>1, EmptySeq, ConcatProperties DEF Stream
    <3>3. mark[c].recorded = 0 /\ mark[c].copied = 0 /\ mark[c].sent = 0
      BY <3>1 DEF NoMark
    <3>4. MarksInOrder(c)
      BY <2>1, <3>1, <3>3 DEF MarksInOrder
    <3>5. SeamInOrder(c)
      BY <2>1, <3>3 DEF SeamInOrder
    <3>6. StreamByPlace(c)
      BY <3>1, <3>2, <3>3 DEF StreamByPlace, CopyByPlace, RestByPlace, NothingSkipped
    <3> QED
      BY <3>4, <3>5, <3>6
  <2> QED
    BY <2>2, <2>3 DEF PlacesInv
<1>2. TypeOK /\ TypeOK' /\ TailByPlace /\ PlacesInv /\ [Next]_vars => PlacesInv'
  <2> SUFFICES ASSUME TypeOK, TypeOK', TailByPlace, PlacesInv, [Next]_vars
               PROVE  PlacesInv'
    OBVIOUS
  <2>1. LinesInOrder'
    BY OrderKept DEF PlacesInv
  <2>2. ASSUME NEW c \in Clients
        PROVE  MarksInOrder(c)' /\ SeamInOrder(c)' /\ StreamByPlace(c)'
    <3>1. LinesInOrder /\ MarksInOrder(c) /\ SeamInOrder(c) /\ StreamByPlace(c)
      BY DEF PlacesInv
    <3>2. MarksInOrder(c)'
      BY <3>1, MarksKept
    <3>3. SeamInOrder(c)'
      BY <3>1, SeamKept
    <3>4. CASE GetLogs(c) /\ UNCHANGED lines
      BY <3>1, <3>2, <3>3, <3>4, CopyStartsStream
    <3>5. CASE Receive(c)
      BY <3>1, <3>2, <3>3, <3>5, ReceiveKeepsPlaces
    <3>6. CASE (Untouched(c) \/ Server(c)) /\ ~ Receive(c)
      BY <3>1, <3>2, <3>3, <3>6, StreamKeepsItsPlace
    <3> QED
      BY <3>4, <3>5, <3>6, StepsOfAClient
  <2> QED
    BY <2>1, <2>2 DEF PlacesInv
<1>3. TypeOK /\ BufferIsTheTail => TailByPlace
  BY TailPointwise
<1> QED
  BY <1>1, <1>2, <1>3, LogTypeCorrect, BufferTailCorrect, PTL DEF Spec

(***************************************************************************)
(* A client never gets the lines of a stream out of order, and never gets  *)
(* one twice but for the line that its reader had recorded and not yet     *)
(* published while GetLogs copied and subscribed: for any number of        *)
(* readers, clients and lines, any sizes, and however often one lags.      *)
(***************************************************************************)
THEOREM RepeatsCorrect == Spec => []RepeatsOnlyAtTheSeam
<1>1. TypeOK /\ PlacesInv => RepeatsOnlyAtTheSeam
  <2> SUFFICES ASSUME TypeOK, PlacesInv, NEW c \in Clients,
                      NEW j \in DOMAIN Stream(c), NEW i \in 1 .. j - 1,
                      Stream(c)[i].from = Stream(c)[j].from
               PROVE  \/ Stream(c)[i].no < Stream(c)[j].no
                      \/ Stream(c)[i] = Stream(c)[j] /\ i <= mark[c].copied /\ j > mark[c].copied
    BY DEF RepeatsOnlyAtTheSeam
  <2> DEFINE T == Stream(c)
             R == mark[c].recorded
             C == mark[c].copied
             S == mark[c].sent
  <2>0. /\ T \in Seq(Line) /\ Len(T) \in Nat /\ R \in Nat /\ C \in Nat /\ S \in Nat
        /\ Len(sent) \in Nat /\ pos[c] \in Nat /\ pos[c] <= Len(sent) /\ Len(recorded) \in Nat
        /\ C <= R /\ R <= Len(recorded) /\ C <= Len(T)
    BY ClientParts DEF PlacesInv, MarksInOrder, StreamByPlace, CopyByPlace
  <2>1. \A k \in 1 .. C : T[k] = recorded[R - C + k]
    BY DEF PlacesInv, StreamByPlace, CopyByPlace
  <2>2. /\ \A k \in C + 1 .. Len(T) : \E p \in S + 1 .. pos[c] : T[k] = sent[p]
        /\ \A l \in C + 1 .. Len(T) : \A k \in C + 1 .. l - 1 : T[k].from = T[l].from => T[k].no < T[l].no
    BY DEF PlacesInv, StreamByPlace, RestByPlace
  <2>3. T[i].from = T[j].from
    OBVIOUS
  <2>4. j \in 1 .. Len(T) /\ i \in 1 .. Len(T) /\ i < j
    <3>1. DOMAIN T = 1 .. Len(T)
      BY <2>0
    <3> QED
      BY <2>0, <3>1
  <2> HIDE DEF T, R, C, S
  <2>5. CASE j <= C
    <3> DEFINE k == R - C + i
               l == R - C + j
    <3>1. k \in 1 .. l - 1 /\ l \in 1 .. Len(recorded)
      BY <2>0, <2>4, <2>5
    <3>2. T[i] = recorded[k] /\ T[j] = recorded[l]
      BY <2>0, <2>1, <2>4, <2>5
    <3> HIDE DEF k, l
    <3>3. T[i].no < T[j].no
      BY <2>3, <3>1, <3>2 DEF PlacesInv, LinesInOrder, InOrder
    <3> QED
      BY <3>3 DEF T
  <2>6. CASE i <= C /\ C < j
    <3> DEFINE k == R - C + i
    <3>1. k \in 1 .. R
      BY <2>0, <2>4, <2>6
    <3>2. T[i] = recorded[k]
      BY <2>0, <2>1, <2>4, <2>6
    <3>3. PICK p \in S + 1 .. pos[c] : T[j] = sent[p]
      BY <2>0, <2>2, <2>4, <2>6
    <3>4. p \in S + 1 .. Len(sent)
      BY <2>0
    <3> HIDE DEF k
    <3>5. T[i].no <= T[j].no
      BY <2>3, <3>1, <3>2, <3>3, <3>4 DEF PlacesInv, SeamInOrder, R, S
    <3>6. T[i] \in Line /\ T[j] \in Line
      BY <2>0, <2>4, ElementOfSeq
    <3>7. T[i].no < T[j].no \/ T[i] = T[j]
      BY <2>3, <3>5, <3>6 DEF Line
    <3> QED
      BY <2>6, <3>7 DEF T, C
  <2>7. CASE C < i
    <3>1. j \in C + 1 .. Len(T) /\ i \in C + 1 .. j - 1
      BY <2>0, <2>4, <2>7
    <3>2. T[i].no < T[j].no
      BY <2>2, <2>3, <3>1
    <3> QED
      BY <3>2 DEF T
  <2> QED
    BY <2>0, <2>4, <2>5, <2>6, <2>7
<1> QED
  BY <1>1, LogTypeCorrect, LinesKeepTheirPlaces, PTL

(***************************************************************************)
(* A follower that keeps up misses nothing that was recorded after its     *)
(* copy, except a line that was published in the gap between its copy and  *)
(* its subscription: for any number of readers and any sizes.              *)
(***************************************************************************)
THEOREM MissesCorrect == Spec => []MissesOnlyTheGap
<1>1. TypeOK /\ PlacesInv => MissesOnlyTheGap
  <2> SUFFICES ASSUME TypeOK, PlacesInv, NEW c \in follow,
                      call[c] \in {"sending", "following"}, ~ mark[c].lagged,
                      NEW k \in mark[c].recorded + 1 .. Len(recorded),
                      NEW p \in 1 .. pos[c], sent[p] = recorded[k]
               PROVE  \/ \E i \in DOMAIN Stream(c) : Stream(c)[i] = recorded[k]
                      \/ \E i \in mark[c].sent + 1 .. mark[c].subscribed : sent[i] = recorded[k]
    BY DEF MissesOnlyTheGap
  <2>0. c \in Clients
    BY DEF TypeOK
  <2>1. /\ mark[c].sent \in Nat /\ mark[c].subscribed \in Nat /\ pos[c] \in Nat
        /\ Stream(c) \in Seq(Line)
    BY <2>0, ClientParts
  <2>2. mark[c].sent <= mark[c].subscribed /\ mark[c].subscribed <= pos[c]
    BY <2>0 DEF PlacesInv, MarksInOrder
  <2>3. ~ p \in 1 .. mark[c].sent
    BY <2>0 DEF PlacesInv, SeamInOrder
  <2>4. CASE p \in mark[c].sent + 1 .. mark[c].subscribed
    BY <2>4
  <2>5. CASE p \in mark[c].subscribed + 1 .. pos[c]
    <3>1. PICK i \in 1 .. Len(Stream(c)) : Stream(c)[i] = sent[p]
      BY <2>0, <2>5 DEF PlacesInv, StreamByPlace, NothingSkipped
    <3>2. i \in DOMAIN Stream(c)
      BY <2>1
    <3> QED
      BY <3>1, <3>2
  <2> QED
    BY <2>1, <2>2, <2>3, <2>4, <2>5
<1> QED
  BY <1>1, LogTypeCorrect, LinesKeepTheirPlaces, PTL

=============================================================================
