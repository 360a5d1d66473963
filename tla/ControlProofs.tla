--------------------------- MODULE ControlProofs ---------------------------
(***************************************************************************)
(* Proofs about Control: its types, that what a writer does is never seen  *)
(* half done, that the clients see an atomic manager, and that the lock is *)
(* passed on, for any number of clients and programs and any start orders. *)
(***************************************************************************)
EXTENDS Control, FiniteSetTheorems, WellFoundedInduction, TLAPS

(***************************************************************************)
(* The inductive invariant.  Exclusive: a writer is alone.  ClientWork:    *)
(* how far the writing client has come, and what it has changed so far.    *)
(***************************************************************************)
Exclusive == \A x, y \in holders : Writer(x) => x = y

PhaseIsHeld == phase # "idle" => \E x \in holders : Writer(x)

Base(c) == IF call[c].op = "restart" THEN before \ {target} ELSE before

Starting(c) ==
  /\ Base(c) \subseteq running /\ running \subseteq Base(c) \cup Brings[target]
  /\ todo \subseteq Brings[target]
  /\ target \in todo \/ (result # "none" /\ (result = "ok" <=> target \in running))

WorkOf(c) ==
  /\ target = call[c].name
  /\ target = Unknown => phase = "idle" /\ running = before
  /\ target # Unknown => phase # "idle"
  /\ call[c].op = "start" => phase \in {"idle", "starting"}
  /\ call[c].op = "stop" => phase \in {"idle", "stopping"}
  /\ phase = "stopping" => running = before
  /\ phase = "sleeping" => running = before \ {target}
  /\ phase = "starting" => Starting(c)

ClientWork == \A c \in holders \cap Clients : Writer(c) => WorkOf(c)

LoopWork == Loop \in holders => phase \in {"idle", "starting"}

Quiet == \A c \in Clients : call[c] # NoCall => printed[c] = Says("nothing")

Inv == TypeOK /\ Exclusive /\ PhaseIsHeld /\ ClientWork /\ LoopWork /\ Quiet

-----------------------------------------------------------------------------
(* Types.                                                                  *)

LEMMA CallFacts ==
  /\ NoCall \notin Call
  /\ \A k \in Call : k.op \in Reads \cup Writes /\ k.name \in Programs \cup {Unknown}
  /\ NoCall.op = "none" /\ NoCall.name = Unknown
BY DEF NoCall, Call, Reads, Writes

LEMMA ReplyFacts ==
  /\ \A w \in Words : Says(w) \in Reply
  /\ \A names \in SUBSET Programs : Printed(names) \in Reply
BY DEF Says, Reply, Words, Printed

LEMMA InitTyped == Init => TypeOK
<1> SUFFICES ASSUME Init PROVE TypeOK
  OBVIOUS
<1>1. Says("nothing") \in Reply
  BY ReplyFacts DEF Words
<1> QED BY <1>1, CallFacts
    DEF Init, TypeOK, ManagerType, LockType, CallType, WorkType, Parties

\* Who joins the queue of the lock keeps its types, as who leaves it does.
LEMMA JoinTyped ==
  ASSUME LockType, NEW x \in Parties, x \notin waiting \cup holders,
         Join(x), holders' = holders
  PROVE  LockType' /\ waiting' \cup holders' = waiting \cup holders \cup {x}
BY DEF LockType, Join, Parties

LEMMA GoneTyped ==
  ASSUME LockType, NEW x \in waiting, Gone(x), holders' = holders
  PROVE  LockType' /\ x \notin waiting' \cup holders'
         /\ waiting' \cup holders' = (waiting \cup holders) \ {x}
BY DEF LockType, Gone, Parties

LEMMA GrantedTyped ==
  ASSUME LockType, NEW x \in Parties, Granted(x)
  PROVE  LockType' /\ waiting' \cup holders' = waiting \cup holders
BY DEF LockType, Granted, Gone, Parties

LEMMA LeaveTyped ==
  ASSUME LockType, NEW x \in holders, Leave(x)
  PROVE  LockType' /\ waiting' \cup holders' = (waiting \cup holders) \ {x}
BY DEF LockType, Leave, Parties

\* An answer keeps the types of all that it touches.
LEMMA AnsweredTyped ==
  ASSUME LockType, CallType, NEW c \in Clients, c \in holders,
         NEW reply \in Reply, Answered(c, reply)
  PROVE  LockType' /\ CallType' /\ WorkType' /\ before' \subseteq Programs
<1>1. LockType' /\ waiting' \cup holders' = (waiting \cup holders) \ {c}
  BY LeaveTyped DEF Answered
<1>2. CallType'
  BY <1>1 DEF CallType, Answered
<1> QED BY <1>1, <1>2, CallFacts DEF Answered, WorkDone, WorkType

LEMMA StepTyped == TypeOK /\ [Next]_vars => TypeOK'
<1> SUFFICES ASSUME TypeOK, [Next]_vars PROVE TypeOK'
  OBVIOUS
<1> USE ControlAssumption
<1>1. CASE UNCHANGED vars
  BY <1>1 DEF TypeOK, ManagerType, LockType, CallType, WorkType, vars,
     manager, rwlock, work
<1>2. ASSUME NEW c \in Clients, Run(c) PROVE TypeOK'
  <2>1. c \in Parties /\ c \notin waiting \cup holders
    BY <1>2 DEF TypeOK, CallType, Run, Parties
  <2>2. LockType' /\ waiting' \cup holders' = waiting \cup holders \cup {c}
    BY <1>2, <2>1, JoinTyped DEF TypeOK, Run
  <2>3. Says("nothing") \in Reply
    BY ReplyFacts DEF Words
  <2>4. CallType'
    BY <1>2, <2>2, <2>3, CallFacts DEF TypeOK, CallType, Run
  <2> QED BY <1>2, <2>2, <2>4
      DEF Run, TypeOK, ManagerType, WorkType, manager, work
<1>3. ASSUME NEW c \in Clients, Handler(c), c \in holders PROVE TypeOK'
  <2>1. CASE GetStatus(c)
    BY <1>3, <2>1, AnsweredTyped, ReplyFacts DEF GetStatus, TypeOK, ManagerType, manager
  <2>2. CASE GetProcessStatus(c)
    <3>1. call[c].name \in Programs \cup {Unknown}
      BY CallFacts DEF TypeOK, CallType
    <3>2. PICK reply \in Reply : Answered(c, reply)
      BY <2>2, <3>1, ReplyFacts DEF GetProcessStatus, Words
    <3> QED BY <1>3, <2>2, <3>2, AnsweredTyped DEF GetProcessStatus, TypeOK, ManagerType, manager
  <2>3. CASE GetLogs(c)
    <3>1. PICK reply \in Reply : Answered(c, reply)
      BY <2>3, ReplyFacts DEF GetLogs, Words
    <3> QED BY <1>3, <2>3, <3>1, AnsweredTyped DEF GetLogs, TypeOK, ManagerType, manager
  <2>4. CASE NotFound(c)
    BY <1>3, <2>4, AnsweredTyped, ReplyFacts DEF NotFound, Words, TypeOK, ManagerType, manager
  <2>5. CASE StartDone(c)
    <3>1. PICK reply \in Reply : Answered(c, reply)
      BY <2>5, ReplyFacts DEF StartDone, Words
    <3> QED BY <1>3, <2>5, <3>1, AnsweredTyped DEF StartDone, TypeOK, ManagerType, manager
  <2>6. CASE StopDone(c)
    BY <1>3, <2>6, AnsweredTyped, ReplyFacts DEF StopDone, Words, TypeOK, ManagerType
  <2>7. CASE StopForRestart(c)
    BY <1>3, <2>7 DEF StopForRestart, TypeOK, ManagerType, LockType, CallType, WorkType, rwlock
  <2> QED BY <1>3, <2>1, <2>2, <2>3, <2>4, <2>5, <2>6, <2>7 DEF Handler
<1>4. ASSUME NEW c \in Clients, HangUp(c) PROVE TypeOK'
  <2>1. CASE c \in waiting /\ Gone(c) /\ UNCHANGED <<holders, work, before>>
    <3>1. LockType' /\ waiting' \cup holders' = (waiting \cup holders) \ {c}
      BY <2>1, GoneTyped DEF TypeOK
    <3>2. CallType'
      BY <1>4, <3>1 DEF CallType, HangUp, TypeOK
    <3> QED BY <1>4, <2>1, <3>1, <3>2 DEF HangUp, TypeOK, ManagerType, WorkType, manager, work
  <2>2. CASE c \in holders /\ phase = "sleeping" /\ Leave(c) /\ WorkDone /\ before' = {}
    <3>1. LockType' /\ waiting' \cup holders' = (waiting \cup holders) \ {c}
      BY <2>2, LeaveTyped DEF TypeOK
    <3>2. CallType'
      BY <1>4, <3>1 DEF CallType, HangUp, TypeOK
    <3> QED BY <1>4, <2>2, <3>1, <3>2 DEF HangUp, TypeOK, ManagerType, WorkType, WorkDone, manager
  <2> QED BY <1>4, <2>1, <2>2 DEF HangUp
<1>5. CASE EnterLoop
  <2>1. LockType' /\ waiting' \cup holders' = waiting \cup holders
    BY <1>5, GrantedTyped DEF EnterLoop, TypeOK, Parties
  <2> QED BY <1>5, <2>1 DEF EnterLoop, TypeOK, ManagerType, CallType, WorkType, manager, work
<1>6. ASSUME NEW c \in Clients, EnterReader(c) PROVE TypeOK'
  <2>1. LockType' /\ waiting' \cup holders' = waiting \cup holders
    BY <1>6, GrantedTyped DEF EnterReader, TypeOK, Parties
  <2> QED BY <1>6, <2>1 DEF EnterReader, TypeOK, ManagerType, CallType, WorkType, manager, work
<1>7. ASSUME NEW c \in Clients, EnterWriter(c) PROVE TypeOK'
  <2>1. LockType' /\ waiting' \cup holders' = waiting \cup holders
    BY <1>7, GrantedTyped DEF EnterWriter, TypeOK, Parties
  <2>2. CallType'
    BY <1>7, <2>1 DEF EnterWriter, TypeOK, CallType
  <2>3. call[c].name \in Programs \cup {Unknown}
    BY CallFacts DEF TypeOK, CallType
  <2>4. phase' \in {"idle", "starting", "stopping"} /\ (phase' # "idle" => call[c].name # Unknown)
    BY <1>7 DEF EnterWriter
  <2>5. WorkType'
    BY <1>7, <2>3, <2>4 DEF EnterWriter, WorkType
  <2> QED BY <1>7, <2>1, <2>2, <2>5 DEF EnterWriter, TypeOK, ManagerType, manager
<1>8. CASE SleepDone
  BY <1>8 DEF SleepDone, TypeOK, ManagerType, LockType, CallType, WorkType, manager, rwlock
<1>9. CASE LoopWakes
  <2>1. LockType' /\ waiting' \cup holders' = waiting \cup holders \cup {Loop}
    BY <1>9, JoinTyped DEF LoopWakes, TypeOK, Parties
  <2> QED BY <1>9, <2>1 DEF LoopWakes, TypeOK, ManagerType, CallType, WorkType, manager, work
<1>10. CASE LoopRestarted
  BY <1>10 DEF LoopRestarted, WorkDone, TypeOK, ManagerType, LockType, CallType,
     WorkType, manager, rwlock
<1>11. CASE LoopSleeps
  <2>1. LockType' /\ waiting' \cup holders' = (waiting \cup holders) \ {Loop}
    BY <1>11, LeaveTyped DEF LoopSleeps, LoopBetweenEvents, TypeOK
  <2> QED BY <1>11, <2>1 DEF LoopSleeps, TypeOK, ManagerType, CallType, WorkType, manager, work
<1>12. ASSUME NEW p \in Programs, LoopExited(p) PROVE TypeOK'
  BY <1>12 DEF LoopExited, TypeOK, ManagerType, LockType, CallType, WorkType, rwlock, work
<1>13. ASSUME NEW p \in Programs, LoopRestart(p) PROVE TypeOK'
  BY <1>13 DEF LoopRestart, TypeOK, ManagerType, LockType, CallType, WorkType, rwlock
<1>14. ASSUME NEW p \in Programs, StartUnit(p) PROVE TypeOK'
  BY <1>14 DEF StartUnit, TypeOK, ManagerType, LockType, CallType, WorkType, rwlock
<1>15. ASSUME NEW p \in Programs, Exit(p) \/ TimerFires(p) PROVE TypeOK'
  BY <1>15 DEF Exit, TimerFires, TypeOK, ManagerType, LockType, CallType, WorkType, rwlock, work
<1>16. ASSUME NEW c \in Clients, Handler(c) PROVE c \in holders
  BY <1>16 DEF Handler, GetStatus, GetProcessStatus, GetLogs, NotFound, StartDone,
     StopDone, StopForRestart
<1> QED BY <1>1, <1>2, <1>3, <1>4, <1>5, <1>6, <1>7, <1>8, <1>9, <1>10, <1>11,
    <1>12, <1>13, <1>14, <1>15, <1>16 DEF Next, Enter, LoopPass

(***************************************************************************)
(* Type correctness, the queue of the lock (grpc_server.rs, main.rs:220)   *)
(* included: nobody waits for what it has, or behind one who is gone.      *)
(***************************************************************************)
THEOREM TypeCorrect == Spec => []TypeOK
BY InitTyped, StepTyped, PTL DEF Spec

-----------------------------------------------------------------------------
(* The inductive invariant.                                                *)

LEMMA InitInv == Init => Inv
BY InitTyped DEF Init, Inv, Exclusive, PhaseIsHeld, ClientWork, LoopWork, Quiet

\* A writer that has the lock is alone with it.
LEMMA Alone ==
  ASSUME Exclusive, NEW x \in holders, Writer(x)
  PROVE  holders = {x}
BY DEF Exclusive

\* While some work is under way, who has the lock is the one who does it.
LEMMA WorkerHolds ==
  ASSUME Inv, phase # "idle", NEW c \in holders
  PROVE  Writer(c) /\ holders = {c}
BY Alone DEF Inv, PhaseIsHeld

\* An answer leaves nobody but readers with the lock.
LEMMA AnsweredInv ==
  ASSUME Inv, TypeOK', NEW c \in Clients, c \in holders, NEW reply,
         Answered(c, reply)
  PROVE  Inv'
<1> USE ControlAssumption
<1>1. holders' = holders \ {c} /\ phase' = "idle"
      /\ \A d \in Clients : d # c => call'[d] = call[d]
  BY DEF Answered, Leave, WorkDone, Inv, TypeOK, CallType
<1>2. \A x \in holders' : Writer(x)' <=> Writer(x)
  BY <1>1 DEF Writer, Inv, TypeOK, LockType, Parties
<1>3. Exclusive'
  BY <1>1, <1>2 DEF Inv, Exclusive
<1>4. ClientWork'
  <2> SUFFICES ASSUME NEW d \in holders' \cap Clients, Writer(d)' PROVE FALSE
    BY DEF ClientWork
  <2> QED BY <1>1, <1>2 DEF Inv, Exclusive
<1>5. Quiet'
  BY <1>1 DEF Quiet, Inv, Answered, TypeOK, CallType
<1> QED BY <1>1, <1>3, <1>4, <1>5 DEF Inv, PhaseIsHeld, LoopWork

\* A step of the loop or of a start touches neither the lock nor the calls.
LEMMA SameHands ==
  ASSUME Inv, UNCHANGED <<holders, call, printed>>
  PROVE  /\ Exclusive' /\ Quiet'
         /\ \A x \in holders : Writer(x)' <=> Writer(x)
BY DEF Inv, Exclusive, Quiet, Writer

LEMMA InvStep == Inv /\ [Next]_vars => Inv'
<1> SUFFICES ASSUME Inv, [Next]_vars PROVE Inv'
  OBVIOUS
<1> USE ControlAssumption
<1>1. TypeOK'
  BY StepTyped DEF Inv
<1>2. CASE UNCHANGED vars
  BY <1>2, <1>1 DEF Inv, vars, manager, rwlock, work, Exclusive, PhaseIsHeld,
     ClientWork, WorkOf, Starting, Base, LoopWork, Quiet, Writer
<1>3. ASSUME NEW c \in Clients, Run(c) PROVE Inv'
  <2>1. c \notin holders /\ holders' = holders
        /\ \A d \in Clients : d # c => call'[d] = call[d]
    BY <1>3 DEF Inv, TypeOK, CallType, Run
  <2>2. \A x \in holders : Writer(x)' <=> Writer(x)
    BY <2>1 DEF Writer, Inv, TypeOK, LockType, Parties
  <2>3. Exclusive' /\ PhaseIsHeld'
    BY <1>3, <2>1, <2>2 DEF Inv, Exclusive, PhaseIsHeld, Run, work
  <2>4. ClientWork'
    BY <1>3, <2>1, <2>2 DEF Inv, ClientWork, WorkOf, Starting, Base, Run, work, manager
  <2>5. Quiet'
    BY <1>3, <2>1 DEF Inv, TypeOK, CallType, Quiet, Run
  <2> QED BY <1>1, <1>3, <2>1, <2>3, <2>4, <2>5 DEF Inv, LoopWork, Run, work
<1>4. ASSUME NEW c \in Clients, Handler(c), c \in holders PROVE Inv'
  <2>1. CASE StopForRestart(c)
    <3>1. Writer(c) /\ holders = {c} /\ c # Loop
      BY <1>4, <2>1, WorkerHolds DEF StopForRestart
    <3>2. Exclusive' /\ Quiet' /\ \A x \in holders : Writer(x)' <=> Writer(x)
      BY <2>1, SameHands DEF StopForRestart, rwlock
    <3>3. WorkOf(c) /\ target # Unknown
      BY <1>4, <2>1, <3>1 DEF Inv, ClientWork, StopForRestart, TypeOK, WorkType
    <3>4. WorkOf(c)'
      BY <2>1, <3>3 DEF WorkOf, StopForRestart
    <3> QED BY <1>1, <2>1, <3>1, <3>2, <3>4
        DEF Inv, PhaseIsHeld, ClientWork, LoopWork, StopForRestart, rwlock
  <2>2. CASE ~ StopForRestart(c)
    <3>1. PICK reply : Answered(c, reply)
      BY <1>4, <2>2 DEF Handler, GetStatus, GetProcessStatus, GetLogs, NotFound,
         StartDone, StopDone
    <3> QED BY <1>1, <1>4, <3>1, AnsweredInv
  <2> QED BY <2>1, <2>2
<1>5. ASSUME NEW c \in Clients, HangUp(c) PROVE Inv'
  <2>1. CASE c \in waiting /\ Gone(c) /\ UNCHANGED <<holders, work, before>>
    <3>1. c \notin holders /\ \A d \in Clients : d # c => call'[d] = call[d]
      BY <1>5, <2>1 DEF Inv, TypeOK, LockType, CallType, HangUp
    <3>2. \A x \in holders : Writer(x)' <=> Writer(x)
      BY <3>1 DEF Writer, Inv, TypeOK, LockType, Parties
    <3>3. Exclusive' /\ PhaseIsHeld' /\ LoopWork'
      BY <2>1, <3>2 DEF Inv, Exclusive, PhaseIsHeld, LoopWork, work
    <3>4. ClientWork'
      BY <1>5, <2>1, <3>1, <3>2
         DEF Inv, ClientWork, WorkOf, Starting, Base, HangUp, work, manager
    <3>5. Quiet'
      BY <1>5, <3>1 DEF Inv, TypeOK, CallType, Quiet, HangUp
    <3> QED BY <1>1, <3>3, <3>4, <3>5 DEF Inv
  <2>2. CASE c \in holders /\ phase = "sleeping" /\ Leave(c) /\ WorkDone /\ before' = {}
    <3>1. holders' = {}
      BY <2>2, WorkerHolds DEF Leave
    <3>2. Quiet'
      BY <1>5 DEF Inv, TypeOK, CallType, Quiet, HangUp
    <3> QED BY <1>1, <2>2, <3>1, <3>2
        DEF Inv, Exclusive, PhaseIsHeld, ClientWork, LoopWork, WorkDone
  <2> QED BY <1>5, <2>1, <2>2 DEF HangUp
<1>6. CASE EnterLoop
  <2>1. holders = {} /\ holders' = {Loop}
    BY <1>6 DEF EnterLoop, Granted, Compatible, Writer
  <2>2. phase' = "idle" /\ UNCHANGED <<call, printed>>
    BY <1>6, <2>1 DEF Inv, PhaseIsHeld, EnterLoop, work
  <2> QED BY <1>1, <2>1, <2>2
      DEF Inv, Exclusive, PhaseIsHeld, ClientWork, LoopWork, Quiet
<1>7. ASSUME NEW c \in Clients, EnterReader(c) PROVE Inv'
  <2>1. /\ \A y \in holders : ~ Writer(y)
        /\ holders' = holders \cup {c} /\ ~ Writer(c)
        /\ UNCHANGED <<manager, call, work, printed, before>>
    BY <1>7 DEF EnterReader, Granted, Compatible
  <2>2. \A y \in holders' : ~ Writer(y)'
    BY <2>1 DEF Writer
  <2>3. phase' = "idle"
    BY <2>1 DEF Inv, PhaseIsHeld, work
  <2> QED BY <1>1, <2>1, <2>2, <2>3
      DEF Inv, Exclusive, PhaseIsHeld, ClientWork, LoopWork, Quiet
<1>8. ASSUME NEW c \in Clients, EnterWriter(c) PROVE Inv'
  <2>1. holders = {} /\ holders' = {c}
    BY <1>8 DEF EnterWriter, Granted, Compatible
  <2>2. Writer(c)' /\ c # Loop /\ call[c].op \in Writes
    BY <1>8 DEF EnterWriter, Writer
  <2>3. WorkOf(c)'
    <3>1. call[c].name \in Programs \cup {Unknown} /\ before' = running /\ running' = running
      BY <1>8, CallFacts DEF Inv, TypeOK, CallType, EnterWriter, manager
    <3>2. phase' = IF call[c].name = Unknown THEN "idle"
                   ELSE IF call[c].op = "start" THEN "starting" ELSE "stopping"
      BY <1>8 DEF EnterWriter
    <3>3. CASE phase' = "starting"
      <4>1. call[c].op = "start" /\ call[c].name \in Programs
        BY <3>1, <3>2, <3>3
      <4>2. todo' = Brings[target'] /\ target' = call[c].name /\ call' = call
        BY <1>8, <3>3 DEF EnterWriter
      <4>3. Starting(c)'
        BY <3>1, <4>1, <4>2 DEF Starting, Base
      <4> QED BY <3>1, <3>3, <4>1, <4>2, <4>3 DEF WorkOf
    <3>4. CASE phase' # "starting"
      BY <1>8, <2>2, <3>1, <3>2, <3>4 DEF WorkOf, EnterWriter
    <3> QED BY <3>3, <3>4
  <2>4. Quiet'
    BY <1>8 DEF Inv, Quiet, EnterWriter
  <2> QED BY <1>1, <2>1, <2>2, <2>3, <2>4
      DEF Inv, Exclusive, PhaseIsHeld, ClientWork, LoopWork
<1>9. CASE SleepDone
  <2>1. PICK x \in holders : Writer(x)
    BY <1>9 DEF Inv, PhaseIsHeld, SleepDone
  <2>2. holders = {x} /\ x \in Clients
    BY <1>9, <2>1, WorkerHolds
       DEF Inv, LoopWork, SleepDone, TypeOK, LockType, Parties
  <2>3. Exclusive' /\ Quiet' /\ Writer(x)'
    BY <1>9, <2>1, SameHands DEF SleepDone, rwlock
  <2>4. WorkOf(x) /\ target \in Programs /\ call[x].op = "restart"
    BY <1>9, <2>1, <2>2, CallFacts
       DEF Inv, ClientWork, WorkOf, SleepDone, TypeOK, WorkType, CallType, Writer, Writes
  <2>5. /\ todo' = Brings[target] /\ target' = target /\ phase' = "starting"
        /\ running' = running /\ before' = before /\ call' = call
    BY <1>9 DEF SleepDone, manager
  <2>6. Starting(x)'
    BY <1>9, <2>4, <2>5 DEF WorkOf, Starting, Base, SleepDone
  <2>7. WorkOf(x)'
    BY <2>4, <2>5, <2>6 DEF WorkOf
  <2> QED BY <1>1, <1>9, <2>2, <2>3, <2>5, <2>7
      DEF Inv, PhaseIsHeld, ClientWork, LoopWork, SleepDone, rwlock
<1>10. CASE LoopWakes
  <2>1. UNCHANGED <<holders, call, printed, phase, target, todo, result, running, before>>
    BY <1>10 DEF LoopWakes, manager, work
  <2>2. Exclusive' /\ Quiet' /\ \A x \in holders : Writer(x)' <=> Writer(x)
    BY <2>1, SameHands
  <2> QED BY <1>1, <2>1, <2>2
      DEF Inv, PhaseIsHeld, ClientWork, WorkOf, Starting, Base, LoopWork
<1>11. CASE LoopPass
  <2>1. Loop \in holders /\ UNCHANGED <<call, printed>>
    BY <1>11 DEF LoopPass, LoopRestarted, LoopSleeps, LoopBetweenEvents, LoopExited, LoopRestart
  <2>2. holders = {Loop} /\ Loop \notin Clients
    BY <2>1, Alone DEF Inv, Writer
  <2>3. holders' \in {{}, {Loop}} /\ phase' \in {"idle", "starting"}
        /\ (holders' = {} => phase' = "idle")
    BY <1>11, <2>2 DEF LoopPass, LoopRestarted, LoopSleeps, LoopBetweenEvents, LoopExited,
       LoopRestart, WorkDone, Leave, rwlock, work
  <2> QED BY <1>1, <2>1, <2>2, <2>3
      DEF Inv, Exclusive, PhaseIsHeld, ClientWork, LoopWork, Quiet, Writer
<1>12. ASSUME NEW u \in Programs, StartUnit(u) PROVE Inv'
  <2>1. /\ UNCHANGED <<holders, call, printed, phase, target, before>>
        /\ phase = "starting" /\ u \in todo /\ todo' = todo \ {u}
        /\ running \subseteq running' /\ running' \subseteq running \cup {u}
        /\ result' = IF u # target THEN result ELSE IF u \in running' THEN "ok" ELSE "error"
    BY <1>12 DEF StartUnit, rwlock
  <2>2. Exclusive' /\ Quiet' /\ \A x \in holders : Writer(x)' <=> Writer(x)
    BY <2>1, SameHands
  <2>3. ASSUME NEW c \in holders \cap Clients, Writer(c) PROVE WorkOf(c)'
    <3>1. WorkOf(c) /\ Starting(c)
      BY <2>1, <2>3 DEF Inv, ClientWork, WorkOf
    <3>2. Starting(c)'
      BY <2>1, <3>1 DEF Starting, Base
    <3> QED BY <2>1, <3>1, <3>2 DEF WorkOf
  <2> QED BY <1>1, <2>1, <2>2, <2>3 DEF Inv, PhaseIsHeld, ClientWork, LoopWork
<1>13. ASSUME NEW p \in Programs, Exit(p) \/ TimerFires(p) PROVE Inv'
  <2>1. UNCHANGED <<holders, call, printed, phase, target, todo, result, running, before>>
    BY <1>13 DEF Exit, TimerFires, rwlock, work
  <2>2. Exclusive' /\ Quiet' /\ \A x \in holders : Writer(x)' <=> Writer(x)
    BY <2>1, SameHands
  <2> QED BY <1>1, <2>1, <2>2
      DEF Inv, PhaseIsHeld, ClientWork, WorkOf, Starting, Base, LoopWork
<1>14. ASSUME NEW c \in Clients, Handler(c) PROVE c \in holders
  BY <1>14 DEF Handler, GetStatus, GetProcessStatus, GetLogs, NotFound, StartDone,
     StopDone, StopForRestart
<1> QED BY <1>2, <1>3, <1>4, <1>5, <1>6, <1>7, <1>8, <1>9, <1>10, <1>11, <1>12, <1>13,
    <1>14 DEF Next, Enter

LEMMA Invariance == Spec => []Inv
BY InitInv, InvStep, PTL DEF Spec

(***************************************************************************)
(* What a writer does is never seen half done, over the sleep of a restart *)
(* (process.rs:451) and whoever comes or hangs up meanwhile.               *)
(***************************************************************************)
THEOREM WritersAreAlone == Spec => []WritesAlone
<1>1. Inv => WritesAlone
  <2> SUFFICES ASSUME Inv, NEW c \in holders \cap Clients, Writer(c)
               PROVE /\ holders = {c}
                     /\ target = call[c].name
                     /\ phase \in {"starting", "sleeping"} /\ call[c].op = "restart" =>
                          /\ before \ {target} \subseteq running
                          /\ running \subseteq (before \ {target}) \cup Brings[target]
    BY DEF WritesAlone
  <2>1. WorkOf(c) /\ holders = {c}
    BY Alone DEF Inv, ClientWork
  <2> QED BY <2>1 DEF WorkOf, Starting, Base
<1> QED BY <1>1, Invariance, PTL

-----------------------------------------------------------------------------
(* Control implements AtomicManager.                                       *)

Shown == IF ClientWrites THEN before ELSE running

\* What the clients see does not change while none of them ends or begins to
\* write.
LEMMA ShownIsRunning ==
  ASSUME \A c \in holders \cap Clients : ~ Writer(c)
  PROVE  Shown = running
BY DEF Shown, ClientWrites

LEMMA ShownIsBefore ==
  ASSUME NEW c \in holders \cap Clients, Writer(c)
  PROVE  Shown = before
BY DEF Shown, ClientWrites

\* After the answer to one who wrote, or who read, the flags are seen again.
LEMMA ShownAfterAnswer ==
  ASSUME Inv, NEW c \in Clients, c \in holders, NEW reply, Answered(c, reply)
  PROVE  /\ Shown' = running'
         /\ Shown = IF Writer(c) THEN before ELSE running
<1>1. \A d \in holders' \cap Clients : ~ Writer(d)'
  BY DEF Inv, Exclusive, Answered, Leave, Writer, TypeOK, CallType
<1>2. Shown' = running'
  BY <1>1 DEF Shown, ClientWrites
<1>3. CASE Writer(c)
  BY <1>2, <1>3, ShownIsBefore
<1>4. CASE ~ Writer(c)
  <2>1. \A d \in holders \cap Clients : ~ Writer(d)
    BY <1>4 DEF Inv, Exclusive
  <2> QED BY <1>2, <1>4, <2>1, ShownIsRunning
<1> QED BY <1>3, <1>4

LEMMA InitSimulation == Init => Atomic!Init
BY DEF Init, Atomic!Init, Atomic!Silent, Atomic!Says, Says, ClientWrites

LEMMA SameWords ==
  /\ \A w : Says(w) = Atomic!Says(w)
  /\ Says("nothing") = Atomic!Silent
  /\ \A names \in SUBSET Programs :
       Printed(names) = Atomic!Lists(names \cap running, names \ running)
<1>1. ASSUME NEW p \in Programs
      PROVE  StateName[StateNumber(p)] = IF p \in running THEN "RUNNING" ELSE "STOPPED"
  BY DEF StateName, StateNumber
<1> QED BY <1>1 DEF Says, Atomic!Says, Atomic!Silent, Printed, Atomic!Lists

\* A read under the shared lock shows the table as it is.
LEMMA ReadsSimulate ==
  ASSUME Inv, NEW c \in Clients, GetStatus(c) \/ GetProcessStatus(c) \/ GetLogs(c)
  PROVE  Atomic!Read(c)
<1> USE DEF Reads, Writes
<1>1. c \in holders /\ ~ Writer(c) /\ UNCHANGED manager
  BY ControlAssumption DEF GetStatus, GetProcessStatus, GetLogs, Writer
<1>2. call[c] \in Call /\ call[c].op \in Reads
  BY <1>1, CallFacts DEF Inv, TypeOK, CallType, GetStatus, GetProcessStatus, GetLogs
<1>3. ASSUME NEW reply, Answered(c, reply)
      PROVE  Shown = running /\ Shown' = running /\ Atomic!Answer(c, reply)
  <2>1. Shown' = running' /\ Shown = running
    BY <1>1, <1>3, ShownAfterAnswer
  <2> QED BY <1>1, <1>3, <2>1 DEF manager, Answered, Atomic!Answer
<1>4. CASE GetStatus(c)
  <2>1. Answered(c, Printed(Programs)) /\ call[c].op = "status"
    BY <1>4 DEF GetStatus
  <2>2. Printed(Programs) = Atomic!Lists(running, Programs \ running)
    BY SameWords DEF Inv, TypeOK, ManagerType, Printed, Atomic!Lists
  <2> QED BY <1>2, <1>3, <2>1, <2>2 DEF Atomic!Read, Atomic!Reads, Shown
<1>5. CASE GetProcessStatus(c)
  <2>1. call[c].op = "get"
    BY <1>5 DEF GetProcessStatus
  <2>2. CASE call[c].name = Unknown
    <3>1. Answered(c, Atomic!Says("error"))
      BY <1>5, <2>2, SameWords DEF GetProcessStatus
    <3> QED BY <1>2, <1>3, <2>1, <2>2, <3>1 DEF Atomic!Read, Atomic!Reads, Shown
  <2>3. CASE call[c].name # Unknown
    <3> DEFINE p == call[c].name
    <3>1. p \in Programs
      BY <1>2, <2>3, CallFacts
    <3>2. Answered(c, Atomic!Lists({p} \cap running, {p} \ running))
      BY <1>5, <2>3, <3>1, SameWords DEF GetProcessStatus
    <3> QED BY <1>2, <1>3, <2>1, <2>3, <3>2 DEF Atomic!Read, Atomic!Reads, Shown
  <2> QED BY <2>2, <2>3
<1>6. CASE GetLogs(c)
  <2>1. call[c].op = "logs"
        /\ Answered(c, Atomic!Says(IF call[c].name \in Forwarded THEN "lines" ELSE "error"))
    BY <1>6, SameWords DEF GetLogs
  <2> QED BY <1>2, <1>3, <2>1 DEF Atomic!Read, Atomic!Reads, Shown
<1> QED BY <1>4, <1>5, <1>6

\* The end of a call that wrote is the instant at which it takes effect.
LEMMA WritesSimulate ==
  ASSUME Inv, NEW c \in Clients, NotFound(c) \/ StartDone(c) \/ StopDone(c)
  PROVE  Atomic!Serve(c)
<1> USE ControlAssumption
<1>1. c \in holders /\ Writer(c) /\ call[c].op \in Writes
  <2>1. CASE NotFound(c)
    BY <2>1 DEF NotFound, Writer
  <2>2. CASE StartDone(c) \/ StopDone(c)
    BY <2>2, WorkerHolds DEF StartDone, StopDone, Writer
  <2> QED BY <2>1, <2>2
<1>2. WorkOf(c) /\ call[c] \in Call /\ call[c].name \in Programs \cup {Unknown}
  BY <1>1, CallFacts DEF Inv, ClientWork, TypeOK, CallType, Writes
<1>3. ASSUME NEW reply, Answered(c, reply)
      PROVE  Shown = before /\ Shown' = running' /\ Atomic!Answer(c, reply)
  <2>1. Shown' = running' /\ Shown = before
    BY <1>1, <1>3, ShownAfterAnswer
  <2> QED BY <1>3, <2>1 DEF Answered, Atomic!Answer
<1>4. CASE NotFound(c)
  <2>1. call[c].name = Unknown /\ Answered(c, Atomic!Says("Failed")) /\ running' = running
    BY <1>4, SameWords DEF NotFound, manager
  <2>2. running = before
    BY <1>2, <2>1 DEF WorkOf
  <2> QED BY <1>1, <1>3, <2>1, <2>2 DEF Atomic!Serve, Atomic!Refuse, Atomic!Writes, Writes, Shown
<1>5. CASE StartDone(c)
  <2>1. phase = "starting" /\ todo = {} /\ running' = running
        /\ Answered(c, Atomic!Says(IF result = "ok" THEN "Success" ELSE "Failed"))
    BY <1>5, SameWords DEF StartDone, manager
  <2>2. Starting(c) /\ target = call[c].name /\ target \in Programs
        /\ call[c].op \in {"start", "restart"}
    BY <1>1, <1>2, <2>1 DEF WorkOf, Writes, Inv, TypeOK, WorkType
  <2>3. running = Base(c) \cup (running \cap Brings[target])
        /\ (result = "ok" <=> target \in running)
    BY <2>1, <2>2 DEF Starting
  <2>4. Base(c) = IF call[c].op = "restart" THEN before \ {call[c].name} ELSE before
    BY <2>2 DEF Base
  <2>5. Answered(c, Atomic!Says(IF call[c].name \in running' THEN "Success" ELSE "Failed"))
    BY <2>1, <2>2, <2>3
  <2>6. Atomic!Answer(c, Atomic!Says(IF call[c].name \in Shown' THEN "Success" ELSE "Failed"))
        /\ Shown = before /\ Shown' = Base(c) \cup (running \cap Brings[call[c].name])
    BY <1>3, <2>1, <2>2, <2>3, <2>5
  <2>7. call[c].name # Unknown /\ running \cap Brings[call[c].name] \in SUBSET Brings[call[c].name]
    BY <2>2
  <2> QED BY <2>2, <2>4, <2>6, <2>7 DEF Atomic!Serve, Atomic!Start, Shown
<1>6. CASE StopDone(c)
  <2>1. phase = "stopping" /\ call[c].op = "stop" /\ running' = running \ {target}
        /\ Answered(c, Atomic!Says("Success"))
    BY <1>6, SameWords DEF StopDone
  <2>2. running = before /\ target = call[c].name /\ target # Unknown
    BY <1>2, <2>1 DEF WorkOf
  <2> QED BY <1>3, <2>1, <2>2 DEF Atomic!Serve, Atomic!Stop, Shown
<1> QED BY <1>4, <1>5, <1>6

LEMMA StepSimulation == Inv /\ Inv' /\ [Next]_vars => [Atomic!Next]_(Atomic!vars)
<1> SUFFICES ASSUME Inv, Inv', [Next]_vars
             PROVE  Atomic!Next \/ UNCHANGED <<Shown, call, printed>>
  BY DEF Atomic!vars, Shown
<1> USE ControlAssumption
<1>1. CASE UNCHANGED vars
  BY <1>1 DEF vars, manager, rwlock, work, Shown, ClientWrites, Writer
<1>2. ASSUME NEW c \in Clients, Run(c) PROVE Atomic!Ask(c)
  <2>1. c \notin holders /\ UNCHANGED <<holders, before, running>>
        /\ \A d \in Clients : d # c => call'[d] = call[d]
    BY <1>2 DEF Inv, TypeOK, CallType, Run, manager
  <2>2. Shown' = Shown
    <3>1. ClientWrites' <=> ClientWrites
      BY <2>1 DEF ClientWrites, Writer
    <3> QED BY <2>1, <3>1 DEF Shown
  <2> QED BY <1>2, <2>2, SameWords DEF Run, Atomic!Ask, Shown
<1>3. ASSUME NEW c \in Clients, Handler(c)
      PROVE  Atomic!Serve(c) \/ UNCHANGED <<Shown, call, printed>>
  <2>1. CASE GetStatus(c) \/ GetProcessStatus(c) \/ GetLogs(c)
    BY <2>1, ReadsSimulate DEF Atomic!Serve
  <2>2. CASE NotFound(c) \/ StartDone(c) \/ StopDone(c)
    BY <2>2, WritesSimulate
  <2>3. CASE StopForRestart(c)
    <3>1. c \in holders /\ Writer(c) /\ UNCHANGED <<holders, call, printed, before>>
      BY <2>3, WorkerHolds DEF StopForRestart, rwlock
    <3>2. Writer(c)'
      BY <3>1 DEF Writer
    <3>3. Shown = before /\ Shown' = before'
      BY <3>1, <3>2 DEF Shown, ClientWrites
    <3> QED BY <3>1, <3>3
  <2> QED BY <1>3, <2>1, <2>2, <2>3 DEF Handler
<1>4. ASSUME NEW c \in Clients, HangUp(c) PROVE Atomic!GiveUp(c)
  <2>1. call[c] # NoCall /\ call' = [call EXCEPT ![c] = NoCall] /\ running' = running
    BY <1>4 DEF HangUp, Inv, TypeOK, CallType, manager
  <2>2. printed' = [printed EXCEPT ![c] = Atomic!Silent]
    <3>1. printed' = printed /\ printed[c] = Says("nothing")
      BY <1>4, <2>1 DEF HangUp, Inv, Quiet
    <3> QED BY <3>1, SameWords DEF Inv, TypeOK, CallType
  <2>3. CASE c \in waiting /\ Gone(c) /\ UNCHANGED <<holders, work, before>>
    <3>1. c \notin holders /\ \A d \in Clients : d # c => call'[d] = call[d]
      BY <2>1, <2>3 DEF Inv, TypeOK, LockType, CallType
    <3>2. ClientWrites' <=> ClientWrites
      BY <2>3, <3>1 DEF ClientWrites, Writer
    <3>3. Shown' = Shown
      BY <2>1, <2>3, <3>2 DEF Shown
    <3> QED BY <2>1, <2>2, <3>3 DEF Atomic!GiveUp, Atomic!Answer, Shown
  <2>4. CASE c \in holders /\ phase = "sleeping" /\ Leave(c) /\ WorkDone /\ before' = {}
    <3>1. Writer(c) /\ holders = {c}
      BY <2>4, WorkerHolds
    <3>2. Shown = before /\ Shown' = running'
      BY <2>4, <3>1 DEF Shown, ClientWrites, Leave
    <3>3. WorkOf(c)
      BY <3>1 DEF Inv, ClientWork
    <3>4. running = before \ {call[c].name} /\ call[c].op = "restart"
      BY <2>4, <3>1, <3>3, CallFacts
         DEF WorkOf, Inv, TypeOK, CallType, Writer, Writes
    <3> QED BY <2>1, <2>2, <3>2, <3>4 DEF Atomic!GiveUp, Atomic!Answer, Shown
  <2> QED BY <1>4, <2>3, <2>4 DEF HangUp
<1>5. CASE Enter
  <2>1. UNCHANGED <<call, printed, running>>
    BY <1>5 DEF Enter, EnterLoop, EnterReader, EnterWriter, manager
  <2>2. CASE EnterLoop \/ \E c \in Clients : EnterReader(c)
    <3>1. /\ \A d \in holders \cap Clients : ~ Writer(d)
          /\ \A d \in holders' \cap Clients : ~ Writer(d)
      BY <2>2 DEF EnterLoop, EnterReader, Granted, Compatible
    <3> QED BY <2>1, <3>1 DEF Shown, ClientWrites, Writer
  <2>3. ASSUME NEW c \in Clients, EnterWriter(c) PROVE UNCHANGED Shown
    <3>1. holders = {} /\ c \in holders' /\ Writer(c) /\ before' = running
      BY <2>3 DEF EnterWriter, Granted, Compatible
    <3>2. Shown = running /\ Shown' = before'
      BY <2>1, <3>1 DEF Shown, ClientWrites, Writer
    <3> QED BY <3>1, <3>2
  <2> QED BY <1>5, <2>1, <2>2, <2>3 DEF Enter
<1>6. CASE SleepDone \/ LoopWakes \/ \E p \in Programs : Exit(p) \/ TimerFires(p)
  BY <1>6 DEF SleepDone, LoopWakes, Exit, TimerFires, rwlock, manager, work,
     Shown, ClientWrites, Writer
<1>7. CASE LoopPass
  <2>1. Loop \in holders /\ UNCHANGED <<call, printed>>
    BY <1>7 DEF LoopPass, LoopRestarted, LoopSleeps, LoopBetweenEvents, LoopExited, LoopRestart
  <2>2. holders = {Loop} /\ holders' \subseteq {Loop} /\ Loop \notin Clients
    BY <1>7, <2>1, Alone DEF Inv, Writer, LoopPass, LoopRestarted, LoopSleeps,
       LoopExited, LoopRestart, Leave, rwlock
  <2>3. Shown = running /\ Shown' = running'
    BY <2>2 DEF Shown, ClientWrites
  <2>4. ASSUME NEW p \in Programs, LoopExited(p) PROVE Atomic!Notice(p)
    BY <2>1, <2>3, <2>4 DEF LoopExited, Atomic!Notice, Shown
  <2>5. CASE ~ \E p \in Programs : LoopExited(p)
    BY <1>7, <2>1, <2>3, <2>5 DEF LoopPass, LoopRestarted, LoopSleeps, LoopRestart, manager
  <2> QED BY <2>4, <2>5 DEF Atomic!Next
<1>8. ASSUME NEW u \in Programs, StartUnit(u)
      PROVE  Atomic!Revive(u) \/ UNCHANGED <<Shown, call, printed>>
  <2>1. /\ phase = "starting" /\ UNCHANGED <<holders, call, printed, before>>
        /\ running' \in {running, running \cup {u}}
    BY <1>8 DEF StartUnit, rwlock
  <2>2. PICK x \in holders : Writer(x) /\ holders = {x}
    BY <2>1, WorkerHolds DEF Inv, PhaseIsHeld
  <2>3. CASE x \in Clients
    BY <2>1, <2>2, <2>3 DEF Shown, ClientWrites, Writer
  <2>4. CASE x \notin Clients
    <3>1. Shown = running /\ Shown' = running'
      BY <2>1, <2>2, <2>4 DEF Shown, ClientWrites
    <3> QED BY <2>1, <3>1 DEF Atomic!Revive, Shown
  <2> QED BY <2>3, <2>4
<1> QED BY <1>1, <1>2, <1>3, <1>4, <1>5, <1>6, <1>7, <1>8 DEF Next, Atomic!Next

(***************************************************************************)
(* Clients see an atomic manager: what GetStatus lists, and what cironctl  *)
(* prints, is the table between two commands and never the middle of one.  *)
(***************************************************************************)
THEOREM ClientsSeeAtomicManager == Spec => ImplementsAtomicManager
BY Invariance, InitSimulation, StepSimulation, PTL DEF Spec, ImplementsAtomicManager, Atomic!Spec

-----------------------------------------------------------------------------
(* The queue of the lock.                                                  *)

\* Of two that wait one came first, and so did everybody ahead of that one.
Line ==
  /\ IsFiniteSet(waiting)
  /\ \A x, y \in waiting : x = y \/ x \in ahead[y] \/ y \in ahead[x]
  /\ \A x, y, z \in waiting : x \in ahead[y] /\ y \in ahead[z] => x \in ahead[z]

LEMMA JoinLine ==
  ASSUME LockType, Line, NEW x \in Parties, x \notin waiting, Join(x)
  PROVE  Line'
<1>1. IsFiniteSet(waiting')
  BY FS_AddElement DEF Line, Join
<1>2. waiting' = waiting \cup {x} /\ ahead'[x] = waiting
      /\ \A y \in waiting : ahead'[y] = ahead[y] /\ x \notin ahead[y]
  BY DEF LockType, Join
<1> QED BY <1>1, <1>2 DEF Line

LEMMA GoneLine ==
  ASSUME LockType, Line, NEW x, Gone(x)
  PROVE  Line'
<1>1. IsFiniteSet(waiting')
  BY FS_RemoveElement DEF Line, Gone
<1>2. waiting' = waiting \ {x} /\ \A y \in waiting' : ahead'[y] = ahead[y] \ {x}
  BY DEF LockType, Gone
<1> QED BY <1>1, <1>2 DEF Line

LEMMA SameLine == Line /\ UNCHANGED <<waiting, ahead>> => Line'
BY DEF Line

LEMMA StepLine == TypeOK /\ Line /\ [Next]_vars => Line'
<1> SUFFICES ASSUME TypeOK, Line, [Next]_vars PROVE Line'
  OBVIOUS
<1>1. ASSUME NEW c \in Clients, Run(c) PROVE Line'
  <2>1. c \in Parties /\ c \notin waiting
    BY <1>1 DEF Run, TypeOK, CallType, Parties
  <2> QED BY <1>1, <2>1, JoinLine DEF Run, TypeOK
<1>2. CASE LoopWakes
  <2>1. Loop \in Parties /\ Loop \notin waiting
    BY <1>2 DEF LoopWakes, Parties
  <2> QED BY <1>2, <2>1, JoinLine DEF LoopWakes, TypeOK
<1>3. CASE Enter
  <2>1. PICK x : Granted(x)
    BY <1>3 DEF Enter, EnterLoop, EnterReader, EnterWriter
  <2> QED BY <2>1, GoneLine DEF Granted, TypeOK
<1>4. ASSUME NEW c \in Clients, HangUp(c) PROVE Line'
  BY <1>4, GoneLine, SameLine DEF HangUp, Leave, TypeOK
<1>5. ASSUME NEW c \in Clients, Handler(c) PROVE Line'
  <2>1. UNCHANGED <<waiting, ahead>>
    BY <1>5 DEF Handler, GetStatus, GetProcessStatus, GetLogs, NotFound, StartDone,
       StopDone, StopForRestart, Answered, Leave, rwlock
  <2> QED BY <2>1, SameLine
<1>6. CASE LoopPass \/ SleepDone \/ UNCHANGED vars
  <2>1. UNCHANGED <<waiting, ahead>>
    BY <1>6 DEF LoopPass, LoopRestarted, LoopSleeps, LoopExited, LoopRestart, SleepDone,
       Leave, rwlock, vars
  <2> QED BY <2>1, SameLine
<1>7. ASSUME NEW p \in Programs, StartUnit(p) \/ Exit(p) \/ TimerFires(p) PROVE Line'
  <2>1. UNCHANGED <<waiting, ahead>>
    BY <1>7 DEF StartUnit, Exit, TimerFires, rwlock
  <2> QED BY <2>1, SameLine
<1> QED BY <1>1, <1>2, <1>3, <1>4, <1>5, <1>6, <1>7 DEF Next

\* Who has least ahead of it has nobody ahead of it.
LEMMA FirstInLine ==
  ASSUME LockType, Line, waiting # {}
  PROVE  \E x \in waiting : ahead[x] = {}
<1> DEFINE T == {ahead[x] : x \in waiting}
<1>1. \A x \in waiting : ahead[x] \in FiniteSubsetsOf(Parties)
  BY FS_Subset DEF LockType, Line, FiniteSubsetsOf
<1>2. PICK least \in T : \A A \in T : ~ (<<A, least>> \in StrictSubsetOrdering(Parties))
  <2>1. T \subseteq FiniteSubsetsOf(Parties) /\ T # {}
    BY <1>1
  <2> HIDE DEF T
  <2>2. IsWellFoundedOn(StrictSubsetOrdering(Parties), FiniteSubsetsOf(Parties))
    BY FS_StrictSubsetOrderingWellFounded
  <2> QED BY <2>1, <2>2, WFMin
<1>3. PICK x \in waiting : least = ahead[x]
  OBVIOUS
<1>4. SUFFICES ASSUME NEW y \in ahead[x] PROVE FALSE
  BY <1>3
<1>5. y \in waiting /\ ahead[x] \subseteq Parties
  BY <1>3 DEF LockType
<1>6. ahead[y] \subseteq ahead[x] /\ y \notin ahead[y]
  BY <1>3, <1>5 DEF LockType, Line
<1> QED BY <1>2, <1>3, <1>5, <1>6 DEF StrictSubsetOrdering

\* x is the next to get the lock, and nobody who has it keeps x from it.
MayEnter(x) == x \in waiting /\ ahead[x] = {} /\ Compatible(x)

\* The work of who has the lock is at a point from which some step leads on:
\* an answer, the next unit of a start, the end of a sleep, an event.
GoesOn(x) ==
  \/ x \in Clients /\ ~ Writer(x) /\ call[x].op \in Reads
  \/ x \in Clients /\ call[x].op \in Writes /\ call[x].name = Unknown /\ phase = "idle"
  \/ x \in Clients /\ phase = "stopping" /\ call[x].op \in {"stop", "restart"}
  \/ phase = "starting" /\ (todo = {} \/ \E u \in Programs : u \in todo)
  \/ phase = "sleeping"
  \/ x = Loop /\ phase = "idle"

LockIsPassedOn ==
  /\ \A x \in holders : GoesOn(x)
  /\ waiting # {} => \E x \in waiting :
       /\ ahead[x] = {} /\ \A y \in waiting \ {x} : x \in ahead[y]
       /\ MayEnter(x) \/ \E y \in holders : GoesOn(y)

LEMMA HolderGoesOn ==
  ASSUME Inv, NEW x \in holders
  PROVE  GoesOn(x)
<1> USE ControlAssumption
<1>1. x \in Clients \/ x = Loop
  BY DEF Inv, TypeOK, LockType, Parties
<1>2. CASE x = Loop
  BY <1>2 DEF Inv, LoopWork, GoesOn, TypeOK, WorkType
<1>3. CASE x \in Clients /\ ~ Writer(x)
  <2>1. call[x] \in Call /\ x # Loop
    BY <1>3 DEF Inv, TypeOK, CallType
  <2> QED BY <1>3, <2>1, CallFacts DEF GoesOn, Writer
<1>4. CASE x \in Clients /\ Writer(x)
  <2>1. call[x].op \in Writes /\ WorkOf(x)
    BY <1>4 DEF Writer, Inv, ClientWork
  <2>2. phase \in {"idle", "starting", "stopping", "sleeping"} /\ todo \subseteq Programs
    BY DEF Inv, TypeOK, WorkType
  <2> QED BY <1>4, <2>1, <2>2 DEF GoesOn, WorkOf, Writes
<1> QED BY <1>1, <1>2, <1>3, <1>4

(***************************************************************************)
(* Nobody waits on everybody: of those that wait for the lock one is ahead *)
(* of all the others, and it may enter, or somebody who has the lock is at *)
(* a point from which its work goes on.  Whoever hangs up, in the queue or *)
(* in the sleep of a restart, does not break the line (grpc_server.rs).    *)
(***************************************************************************)
THEOREM LockIsNeverStuck == Spec => []LockIsPassedOn
<1>1. Init => Line
  BY FS_EmptySet DEF Init, Line
<1>2. Inv /\ Line /\ [Next]_vars => Line'
  BY StepLine DEF Inv
<1>3. Inv /\ Line => LockIsPassedOn
  <2> SUFFICES ASSUME Inv, Line PROVE LockIsPassedOn
    OBVIOUS
  <2>1. LockType
    BY DEF Inv, TypeOK
  <2>2. \A x \in holders : GoesOn(x)
    BY HolderGoesOn
  <2>3. ASSUME waiting # {}
        PROVE  \E x \in waiting :
                 /\ ahead[x] = {} /\ \A y \in waiting \ {x} : x \in ahead[y]
                 /\ MayEnter(x) \/ \E y \in holders : GoesOn(y)
    <3>1. PICK x \in waiting : ahead[x] = {}
      BY <2>1, <2>3, FirstInLine
    <3>2. \A y \in waiting \ {x} : x \in ahead[y]
      BY <3>1 DEF Line
    <3>3. MayEnter(x) \/ \E y \in holders : GoesOn(y)
      BY <2>2, <3>1 DEF MayEnter, Compatible
    <3> QED BY <3>1, <3>2, <3>3
  <2> QED BY <2>2, <2>3 DEF LockIsPassedOn
<1> QED BY <1>1, <1>2, <1>3, Invariance, PTL DEF Spec

=============================================================================
