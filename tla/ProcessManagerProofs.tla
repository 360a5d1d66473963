------------------------ MODULE ProcessManagerProofs ------------------------
(***************************************************************************)
(* Theorems about ProcessManager, for any number of programs and pids, any *)
(* start orders, policies and requests, and whatever the two bounds.       *)
(***************************************************************************)
EXTENDS ProcessManager, TLAPS

-----------------------------------------------------------------------------
(* The channel as a sequence.                                              *)

\* An event is a message; a send keeps the channel a sequence of messages.
LEMMA SentType ==
  ASSUME ChannelType, NEW k \in EventKinds, NEW p \in Programs
  PROVE  Sent(events, Event(k, p)) \in Seq(Message)
<1>1. Event(k, p) \in Message
  BY DEF Event, Message
<1> QED
  BY <1>1 DEF Sent, ChannelType

\* What the event loop takes from a channel that is not empty.
LEMMA HeadType ==
  ASSUME ChannelType, events # <<>>
  PROVE  /\ Head(events).prog \in Programs
         /\ Tail(events) \in Seq(Message)
<1>1. Head(events) \in Message
  BY DEF ChannelType
<1> QED
  BY <1>1 DEF Message, ChannelType

-----------------------------------------------------------------------------
(* The job's variables, through the operators that change them.            *)

\* A phase begins with the start order still to do, or with nothing.
LEMMA BeginType ==
  ASSUME NEW s \in {"starting", "stopping"}, NEW p \in Programs, Begin(s, p)
  PROVE  step' = s /\ target' = p /\ todo' \in Seq(Programs) /\ result' = "none"
<1>1. StartOrder[p] \in Seq(Programs) /\ <<>> \in Seq(Programs)
  BY ConfigAssumption
<1> QED
  BY <1>1 DEF Begin

\* One unit less to start.
LEMMA UnitDoneType ==
  ASSUME JobType, NEW u \in Programs, NEW r \in {"ok", "error"}, Starting(u), UnitDone(u, r)
  PROVE  JobType'
<1>1. Tail(todo) \in Seq(Programs)
  BY DEF JobType, Starting
<1> QED
  BY <1>1 DEF JobType, UnitDone

\* A stop job sleeps, ends, or goes on with the next program.
LEMMA AfterStopType ==
  ASSUME JobType, step # "idle", AfterStop, left' = left
  PROVE  JobType'
<1>1. CASE lock = "restart"
  BY <1>1 DEF AfterStop, JobType
<1>2. CASE lock # "restart"
  <2>1. Release(NextHolder)
    BY <1>2 DEF AfterStop
  <2> QED
    BY <2>1 DEF JobType, Release, NextHolder
<1> QED
  BY <1>1, <1>2

\* A monitor task belongs to a program's child.
LEMMA WatchedOwned ==
  ASSUME KernelType, NEW i \in watched
  PROVE  owner[i] \in Programs
BY DEF KernelType

-----------------------------------------------------------------------------
(* The two steps of a monitor that has seen its child exit.                *)

\* What its last poll has found.
LEMMA LastPoll ==
  ASSUME NEW i \in Pids, Reap(i) \/ WaitFails(i)
  PROVE  \E k \in ExitKinds : Sees(i, k) /\ (k = "Failed" => owner[i] \in MayFail)
<1>1. "Failed" \in ExitKinds /\ ExitKind(i) \in ExitKinds /\ ExitKind(i) # "Failed"
  BY DEF ExitKinds, ExitKind
<1> QED
  BY <1>1 DEF Reap, WaitFails

\* The kernel's table stays one, and the report is an exit.
LEMMA SeesTyped ==
  ASSUME KernelType, NEW i \in Pids, NEW k \in ExitKinds, Sees(i, k)
  PROVE  KernelType'
<1>1. owner[i] \in Programs
  BY WatchedOwned DEF Sees
<1>2. report' \in [Pids -> [kind : ExitKinds, prog : Programs] \cup {NoReport}]
  BY <1>1 DEF Sees, KernelType, Event
<1> QED
  BY <1>2, ConfigAssumption DEF Sees, FreePid, KernelType, Alive, Zombie

\* A report of the owner's comes up, and nobody else's.
LEMMA SeesMoves ==
  ASSUME KernelType, NEW i \in Pids, NEW k \in ExitKinds, Sees(i, k)
  PROVE  /\ owner[i] \in Programs
         /\ \A p \in Programs :
              Reports(p)' = IF p = owner[i] THEN Reports(p) \cup {i} ELSE Reports(p)
<1>1. owner[i] \in Programs
  BY WatchedOwned DEF Sees
<1>2. \A p \in Programs : i \notin Reports(p)
  BY ConfigAssumption DEF Sees, Reports, NoReport, Event
<1>3. report'[i].prog = owner[i]
  BY DEF Sees, KernelType, Event
<1>4. \A j \in Pids : j # i => report'[j] = report[j]
  BY DEF Sees, KernelType
<1> QED
  BY <1>1, <1>2, <1>3, <1>4 DEF Reports

\* It is sent, and gone.
LEMMA ReportMoves ==
  ASSUME KernelType, NEW i \in Pids, Report(i)
  PROVE  \E k \in ExitKinds, p \in Programs :
           /\ report[i] = Event(k, p) /\ events' = Sent(events, Event(k, p))
           /\ i \in Reports(p)
           /\ \A q \in Programs : Reports(q)' = Reports(q) \ {i}
<1>1. PICK k \in ExitKinds, p \in Programs : report[i] = Event(k, p)
  BY DEF Report, KernelType, Event
<1>2. i \in Reports(p)
  BY <1>1 DEF Reports, Event
<1>3. report'[i].prog = NoProg /\ \A j \in Pids : j # i => report'[j] = report[j]
  BY DEF Report, KernelType, NoReport, Event
<1>4. \A q \in Programs : Reports(q)' = Reports(q) \ {i}
  BY <1>3, ConfigAssumption DEF Reports
<1> QED
  BY <1>1, <1>2, <1>4 DEF Report

-----------------------------------------------------------------------------
(* Type correctness.                                                       *)

\* The empty table of a daemon that boots is well typed.
LEMMA InitTyped == Init => TypeOK
BY ConfigAssumption
   DEF Init, TypeOK, TableType, ChannelType, JobType, KernelType, TaskType,
       Alive, Zombie

\* Every action keeps every part of the type: one step per action, and under
\* it one per part the action changes and one for the parts it leaves alone.
LEMMA TypeStep == TypeOK /\ [Next]_vars => TypeOK'
<1> SUFFICES ASSUME TypeOK, [Next]_vars PROVE TypeOK'
  OBVIOUS
<1> USE DEF TypeOK
<1>1. CASE BootDone
  <2>1. JobType'
    BY <1>1 DEF BootDone, JobType, Release
  <2>2. TableType' /\ ChannelType' /\ KernelType' /\ TaskType'
    BY <1>1 DEF BootDone, table, channel, kernel, TableType, ChannelType,
       KernelType, TaskType
  <2> QED
    BY <2>1, <2>2
<1>2. ASSUME NEW p \in Programs, BootStart(p) PROVE TypeOK'
  <2>1. JobType'
    BY <1>2, BeginType DEF BootStart, JobType
  <2>2. TableType' /\ ChannelType' /\ KernelType' /\ TaskType'
    BY <1>2 DEF BootStart, table, channel, kernel, TableType, ChannelType,
       KernelType, TaskType
  <2> QED
    BY <2>1, <2>2
<1>3. ASSUME NEW u \in Programs, SkipUnit(u) PROVE TypeOK'
  <2>1. JobType'
    BY <1>3, UnitDoneType DEF SkipUnit
  <2>2. TableType' /\ ChannelType' /\ KernelType' /\ TaskType'
    BY <1>3 DEF SkipUnit, table, channel, kernel, TableType, ChannelType,
       KernelType, TaskType
  <2> QED
    BY <2>1, <2>2
<1>4. ASSUME NEW u \in Programs, NEW i \in Pids, SpawnUnit(u, i) PROVE TypeOK'
  <2>1. TableType'
    BY <1>4 DEF SpawnUnit, TableType
  <2>2. ChannelType'
    BY <1>4, SentType DEF SpawnUnit, ChannelType, EventKinds
  <2>3. JobType'
    BY <1>4, UnitDoneType DEF SpawnUnit
  <2>4. KernelType'
    <3>1. report' = report
      BY <1>4 DEF SpawnUnit
    <3>2. /\ owner' \in [Pids -> Programs \cup {NoProg}]
          /\ state' \in [Pids -> {"free"} \cup Alive \cup Zombie]
      BY <1>4 DEF SpawnUnit, KernelType, Alive
    <3>3. \A j \in Pids : state'[j] = "free" <=> owner'[j] = NoProg
      BY <1>4, ConfigAssumption DEF SpawnUnit, KernelType
    <3>4. watched' \subseteq Pids /\ \A j \in watched' : owner'[j] # NoProg
      BY <1>4, ConfigAssumption DEF SpawnUnit, KernelType
    <3> QED
      BY <3>1, <3>2, <3>3, <3>4 DEF KernelType
  <2>5. TaskType'
    BY <1>4 DEF SpawnUnit, TaskType
  <2> QED
    BY <2>1, <2>2, <2>3, <2>4, <2>5
<1>5. ASSUME NEW u \in Programs, SpawnFails(u) PROVE TypeOK'
  <2>1. JobType'
    BY <1>5, UnitDoneType DEF SpawnFails
  <2>2. TableType' /\ ChannelType' /\ KernelType' /\ TaskType'
    BY <1>5 DEF SpawnFails, table, channel, kernel, TableType, ChannelType,
       KernelType, TaskType
  <2> QED
    BY <2>1, <2>2
<1>6. CASE StartDone
  <2>1. JobType'
    BY <1>6 DEF StartDone, JobType, Release, NextHolder
  <2>2. TableType' /\ ChannelType' /\ KernelType' /\ TaskType'
    BY <1>6 DEF StartDone, table, channel, kernel, TableType, ChannelType,
       KernelType, TaskType
  <2> QED
    BY <2>1, <2>2
<1>7. CASE StopNotRunning
  <2>1. JobType'
    BY <1>7, AfterStopType DEF StopNotRunning
  <2>2. TableType' /\ ChannelType' /\ KernelType' /\ TaskType'
    BY <1>7 DEF StopNotRunning, table, channel, kernel, TableType, ChannelType,
       KernelType, TaskType
  <2> QED
    BY <2>1, <2>2
<1>8. CASE Kill
  <2>1. JobType'
    BY <1>8 DEF Kill, JobType
  <2>2. KernelType'
    BY <1>8 DEF Kill, KernelType, Alive, Zombie
  <2>3. TableType' /\ ChannelType' /\ TaskType'
    BY <1>8 DEF Kill, table, channel, TableType, ChannelType, TaskType
  <2> QED
    BY <2>1, <2>2, <2>3
<1>9. CASE Forget
  <2>1. TableType'
    BY <1>9 DEF Forget, TableType
  <2>2. JobType'
    BY <1>9, AfterStopType DEF Forget
  <2>3. KernelType'
    BY <1>9 DEF Forget, KernelType, Alive, Zombie
  <2>4. ChannelType' /\ TaskType'
    BY <1>9 DEF Forget, channel, ChannelType, TaskType
  <2> QED
    BY <2>1, <2>2, <2>3, <2>4
<1>10. ASSUME NEW p \in Programs, StartRequest(p) PROVE TypeOK'
  <2>1. JobType'
    BY <1>10, BeginType DEF StartRequest, Serving, JobType
  <2>2. TableType' /\ ChannelType' /\ KernelType' /\ TaskType'
    BY <1>10 DEF StartRequest, table, channel, kernel, TableType, ChannelType,
       KernelType, TaskType
  <2> QED
    BY <2>1, <2>2
<1>11. ASSUME NEW p \in Programs, StopRequest(p) PROVE TypeOK'
  <2>1. JobType'
    BY <1>11, BeginType DEF StopRequest, Serving, JobType
  <2>2. TableType' /\ ChannelType' /\ KernelType' /\ TaskType'
    BY <1>11 DEF StopRequest, table, channel, kernel, TableType, ChannelType,
       KernelType, TaskType
  <2> QED
    BY <2>1, <2>2
<1>12. ASSUME NEW p \in Programs, RestartRequest(p) PROVE TypeOK'
  <2>1. JobType'
    BY <1>12, BeginType DEF RestartRequest, Serving, JobType
  <2>2. TableType' /\ ChannelType' /\ KernelType' /\ TaskType'
    BY <1>12 DEF RestartRequest, table, channel, kernel, TableType,
       ChannelType, KernelType, TaskType
  <2> QED
    BY <2>1, <2>2
<1>13. CASE SleepDone
  <2>1. JobType'
    BY <1>13, BeginType DEF SleepDone, JobType
  <2>2. TableType' /\ ChannelType' /\ KernelType' /\ TaskType'
    BY <1>13 DEF SleepDone, table, channel, kernel, TableType, ChannelType,
       KernelType, TaskType
  <2> QED
    BY <2>1, <2>2
<1>14. CASE SleepCancelled
  <2>1. JobType'
    BY <1>14 DEF SleepCancelled, JobType, Release
  <2>2. TableType' /\ ChannelType' /\ KernelType' /\ TaskType'
    BY <1>14 DEF SleepCancelled, table, channel, kernel, TableType,
       ChannelType, KernelType, TaskType
  <2> QED
    BY <2>1, <2>2
<1>15. CASE LoopWake
  <2>1. JobType'
    BY <1>15 DEF LoopWake, JobType
  <2>2. TableType' /\ ChannelType' /\ KernelType' /\ TaskType'
    BY <1>15 DEF LoopWake, table, channel, kernel, TableType, ChannelType,
       KernelType, TaskType
  <2> QED
    BY <2>1, <2>2
<1>16. CASE HandleStarted
  <2>1. ChannelType'
    BY <1>16, HeadType DEF HandleStarted, ChannelType, Handling
  <2>2. TableType' /\ JobType' /\ KernelType' /\ TaskType'
    BY <1>16 DEF HandleStarted, table, job, kernel, TableType, JobType,
       KernelType, TaskType
  <2> QED
    BY <2>1, <2>2
<1>17. CASE HandleExited
  <2>1. TableType'
    BY <1>17, HeadType DEF HandleExited, TableType, Handling
  <2>2. ChannelType'
    BY <1>17, HeadType DEF HandleExited, ChannelType, Handling
  <2>3. TaskType'
    BY <1>17, HeadType DEF HandleExited, TaskType, Handling
  <2>4. JobType' /\ KernelType'
    BY <1>17 DEF HandleExited, job, kernel, JobType, KernelType
  <2> QED
    BY <2>1, <2>2, <2>3, <2>4
<1>18. CASE HandleFailed
  <2>1. TableType'
    BY <1>18, HeadType DEF HandleFailed, TableType, Handling
  <2>2. ChannelType'
    BY <1>18, HeadType DEF HandleFailed, ChannelType, Handling
  <2>3. JobType' /\ KernelType' /\ TaskType'
    BY <1>18 DEF HandleFailed, job, kernel, JobType, KernelType, TaskType
  <2> QED
    BY <2>1, <2>2, <2>3
<1>19. CASE HandleRestart
  <2>1. ChannelType'
    BY <1>19, HeadType DEF HandleRestart, ChannelType, Handling
  <2>2. JobType'
    BY <1>19, BeginType, HeadType DEF HandleRestart, Handling, JobType
  <2>3. TableType' /\ KernelType' /\ TaskType'
    BY <1>19 DEF HandleRestart, table, kernel, TableType, KernelType, TaskType
  <2> QED
    BY <2>1, <2>2, <2>3
<1>20. CASE LoopSleep
  <2>1. JobType'
    BY <1>20 DEF LoopSleep, JobType, Release
  <2>2. TableType' /\ ChannelType' /\ KernelType' /\ TaskType'
    BY <1>20 DEF LoopSleep, table, channel, kernel, TableType, ChannelType,
       KernelType, TaskType
  <2> QED
    BY <2>1, <2>2
<1>21. CASE ShutdownBegin
  <2>1. ChannelType'
    BY <1>21 DEF ShutdownBegin, ChannelType
  <2>2. JobType'
    BY <1>21 DEF ShutdownBegin, JobType, Serving
  <2>3. TableType' /\ KernelType' /\ TaskType'
    BY <1>21 DEF ShutdownBegin, table, kernel, TableType, KernelType, TaskType
  <2> QED
    BY <2>1, <2>2, <2>3
<1>22. ASSUME NEW p \in Programs, StopAllNext(p) PROVE TypeOK'
  <2>1. JobType'
    BY <1>22, BeginType DEF StopAllNext, JobType
  <2>2. TableType' /\ ChannelType' /\ KernelType' /\ TaskType'
    BY <1>22 DEF StopAllNext, table, channel, kernel, TableType, ChannelType,
       KernelType, TaskType
  <2> QED
    BY <2>1, <2>2
<1>23. CASE StopAllDone
  <2>1. JobType'
    BY <1>23 DEF StopAllDone, JobType, Release
  <2>2. TableType' /\ ChannelType' /\ KernelType' /\ TaskType'
    BY <1>23 DEF StopAllDone, table, channel, kernel, TableType, ChannelType,
       KernelType, TaskType
  <2> QED
    BY <2>1, <2>2
<1>24. CASE DaemonExit
  <2>1. ChannelType'
    BY <1>24 DEF DaemonExit, ChannelType
  <2>2. KernelType'
    BY <1>24 DEF DaemonExit, KernelType, Alive, Zombie
  <2>3. TaskType'
    BY <1>24 DEF DaemonExit, TaskType
  <2>4. TableType' /\ JobType'
    BY <1>24 DEF DaemonExit, table, job, TableType, JobType
  <2> QED
    BY <2>1, <2>2, <2>3, <2>4
<1>25. ASSUME NEW i \in Pids, ChildExit(i) PROVE TypeOK'
  <2>1. KernelType'
    <3>1. PICK s \in Zombie : state' = [state EXCEPT ![i] = s]
      BY <1>25, ConfigAssumption DEF ChildExit, Zombie
    <3> QED
      BY <1>25, <3>1 DEF ChildExit, KernelType, Alive, Zombie
  <2>2. TableType' /\ ChannelType' /\ JobType' /\ TaskType'
    BY <1>25 DEF ChildExit, table, channel, job, TableType, ChannelType,
       JobType, TaskType
  <2> QED
    BY <2>1, <2>2
<1>26. ASSUME NEW i \in Pids, Reap(i) \/ WaitFails(i) PROVE TypeOK'
  <2>1. PICK k \in ExitKinds : Sees(i, k)
    BY <1>26, LastPoll
  <2>2. KernelType'
    BY <2>1, SeesTyped
  <2>3. TableType' /\ ChannelType' /\ JobType' /\ TaskType'
    BY <2>1 DEF Sees, table, channel, job, TableType, ChannelType, JobType,
       TaskType
  <2> QED
    BY <2>2, <2>3
<1>27. ASSUME NEW i \in Pids, Report(i) PROVE TypeOK'
  <2>1. PICK k \in ExitKinds, p \in Programs :
          report[i] = Event(k, p) /\ events' = Sent(events, Event(k, p))
    BY <1>27, ReportMoves
  <2>2. ChannelType'
    BY <1>27, <2>1, SentType DEF Report, ChannelType, EventKinds
  <2>3. KernelType'
    BY <1>27 DEF Report, KernelType
  <2>4. TableType' /\ JobType' /\ TaskType'
    BY <1>27 DEF Report, table, job, TableType, JobType, TaskType
  <2> QED
    BY <2>2, <2>3, <2>4
<1>28. ASSUME NEW i \in Pids, OrphanReap(i) PROVE TypeOK'
  <2>1. KernelType'
    BY <1>28 DEF OrphanReap, KernelType, Alive, Zombie, FreePid
  <2>2. TableType' /\ ChannelType' /\ JobType' /\ TaskType'
    BY <1>28 DEF OrphanReap, table, channel, job, TableType, ChannelType,
       JobType, TaskType
  <2> QED
    BY <2>1, <2>2
<1>29. ASSUME NEW p \in Programs, TimerFires(p) PROVE TypeOK'
  <2>1. ChannelType'
    BY <1>29, SentType DEF TimerFires, ChannelType, EventKinds
  <2>2. TaskType'
    BY <1>29 DEF TimerFires, TaskType
  <2>3. TableType' /\ JobType' /\ KernelType'
    BY <1>29 DEF TimerFires, table, job, kernel, TableType, JobType, KernelType
  <2> QED
    BY <2>1, <2>2, <2>3
<1>30. CASE UNCHANGED vars
  <2>1. TableType' /\ ChannelType' /\ JobType' /\ KernelType' /\ TaskType'
    BY <1>30 DEF vars, table, channel, job, kernel, TableType, ChannelType,
       JobType, KernelType, TaskType
  <2> QED
    BY <2>1
<1> QED
  BY <1>1, <1>2, <1>3, <1>4, <1>5, <1>6, <1>7, <1>8, <1>9, <1>10, <1>11, <1>12,
     <1>13, <1>14, <1>15, <1>16, <1>17, <1>18, <1>19, <1>20, <1>21, <1>22,
     <1>23, <1>24, <1>25, <1>26, <1>27, <1>28, <1>29, <1>30 DEF Next, BootStep,
     StartStep, StopStep, LoopStep, StopAllStep, Request, Child, Ended

(***************************************************************************)
(* Every value stays in its type in every behaviour: pids are free exactly *)
(* when nobody owns them, monitors watch children, jobs have a target.     *)
(***************************************************************************)
THEOREM TypeCorrect == Spec => []TypeOK
<1>1. Init => TypeOK
  BY InitTyped
<1>2. TypeOK /\ [Next]_vars => TypeOK'
  BY TypeStep
<1> QED
  BY <1>1, <1>2, PTL DEF Spec

-----------------------------------------------------------------------------
(* No exit is lost.                                                        *)

ExitQueued(p) == ExitsQueued(p) # {}

\* What is queued behind stays queued: an event is added at the end...
LEMMA QueuedAfterSend ==
  ASSUME ChannelType, NEW k \in EventKinds, NEW q \in Programs,
         events' = Sent(events, Event(k, q)), NEW p, ExitQueued(p)
  PROVE  ExitQueued(p)'
<1>1. PICK n \in DOMAIN events : Exit(n) /\ events[n].prog = p
  BY DEF ExitQueued, ExitsQueued
<1>2. n \in DOMAIN events' /\ events'[n] = events[n]
  BY <1>1, Event(k, q) \in Message DEF Sent, ChannelType, Event, Message
<1> QED
  BY <1>1, <1>2 DEF ExitQueued, ExitsQueued, Exit

\* ... and the loop takes the first one away, which is another program's, or
\* no exit.
LEMMA QueuedAfterReceive ==
  ASSUME ChannelType, events # <<>>, events' = Tail(events),
         NEW p, ExitQueued(p), ~ (Exit(1) /\ events[1].prog = p)
  PROVE  ExitQueued(p)'
<1>1. PICK n \in DOMAIN events : Exit(n) /\ events[n].prog = p
  BY DEF ExitQueued, ExitsQueued
<1>2. n # 1
  BY <1>1
<1>3. n - 1 \in DOMAIN events' /\ events'[n - 1] = events[n]
  BY <1>1, <1>2 DEF ChannelType
<1> QED
  BY <1>1, <1>3 DEF ExitQueued, ExitsQueued, Exit

\* The report of an exit is in the queue once it is sent.
LEMMA ReportQueued ==
  ASSUME ChannelType, open, NEW k \in ExitKinds, NEW p \in Programs,
         events' = Sent(events, Event(k, p))
  PROVE  ExitQueued(p)'
<1>1. events' = Append(events, Event(k, p))
  BY DEF Sent
<1>2. Len(events) + 1 \in DOMAIN events' /\ events'[Len(events) + 1] = Event(k, p)
  BY <1>1 DEF ChannelType
<1> QED
  BY <1>2 DEF ExitQueued, ExitsQueued, Exit, Event

\* The steps that leave the table, the channel and the kernel alone.
LEMMA NoLostExitFrame ==
  ASSUME NoLostExit, UNCHANGED <<table, channel, kernel>>
  PROVE  NoLostExit'
BY DEF NoLostExit, Tracked, ExitComing, Reports, ExitsQueued, Exit, table, channel,
       kernel

\* One step, action by action: a flag that goes up comes with a monitor, a monitor
\* ends with a report or with the flag, and a report is taken with the flag.
LEMMA NoLostExitStep == TypeOK /\ NoLostExit /\ [Next]_vars => NoLostExit'
<1> SUFFICES ASSUME TypeOK, NoLostExit, [Next]_vars PROVE NoLostExit'
  OBVIOUS
<1> USE DEF TypeOK
<1>1. ASSUME NEW u \in Programs, NEW i \in Pids, SpawnUnit(u, i)
      PROVE  NoLostExit'
  <2>1. SUFFICES ASSUME open, NEW p \in running' PROVE Tracked(p)' \/ ExitComing(p)'
    BY <1>1 DEF SpawnUnit, NoLostExit
  <2>2. CASE p = u
    BY <1>1, <2>2 DEF SpawnUnit, Tracked, TableType, KernelType
  <2>3. CASE p # u
    <3>1. Tracked(p) \/ ExitComing(p)
      BY <1>1, <2>1, <2>3 DEF SpawnUnit, NoLostExit
    <3>2. CASE Tracked(p)
      <4>1. pid[p] # i
        BY <1>1, <3>2, <2>3, ConfigAssumption DEF SpawnUnit, Tracked, KernelType
      <4> QED
        BY <1>1, <2>3, <3>2, <4>1 DEF SpawnUnit, Tracked, TableType, KernelType
    <3>3. CASE ExitComing(p)
      BY <1>1, <3>3, QueuedAfterSend
      DEF SpawnUnit, EventKinds, ExitComing, ExitQueued, Reports
    <3> QED
      BY <3>1, <3>2, <3>3
  <2> QED
    BY <2>2, <2>3
<1>2. CASE Kill
  BY <1>2 DEF Kill, NoLostExit, Tracked, ExitComing, Reports, ExitsQueued, Exit, table, channel
<1>3. CASE Forget
  <2>1. SUFFICES ASSUME open, NEW p \in running \ {target}
                 PROVE  Tracked(p)' \/ ExitComing(p)'
    BY <1>3 DEF Forget, NoLostExit, channel
  <2>2. Tracked(p) \/ ExitComing(p)
    BY <2>1 DEF NoLostExit
  <2>3. Tracked(p) => Tracked(p)'
    BY <1>3 DEF Forget, Tracked, TableType
  <2>4. ExitComing(p) => ExitComing(p)'
    BY <1>3 DEF Forget, ExitComing, Reports, ExitsQueued, Exit, channel
  <2> QED
    BY <2>2, <2>3, <2>4
<1>4. ASSUME HandleStarted \/ HandleExited \/ HandleFailed \/ HandleRestart
      PROVE  NoLostExit'
  <2>1. events # <<>> /\ events' = Tail(events) /\ UNCHANGED <<open, pid, kernel>>
    BY <1>4 DEF HandleStarted, HandleExited, HandleFailed, HandleRestart,
       Handling, table
  <2>2. SUFFICES ASSUME open, NEW p \in running' PROVE Tracked(p)' \/ ExitComing(p)'
    BY <2>1 DEF NoLostExit
  <2>3. p \in running /\ ~ (Exit(1) /\ events[1].prog = p)
    <3>1. Head(events) = events[1]
      BY <2>1 DEF ChannelType
    <3>2. CASE HandleStarted \/ HandleRestart
      BY <2>2, <3>1, <3>2
      DEF HandleStarted, HandleRestart, Handling, table, Exit, ExitKinds
    <3>3. CASE HandleExited \/ HandleFailed
      BY <2>2, <3>1, <3>3 DEF HandleExited, HandleFailed
    <3> QED
      BY <1>4, <3>2, <3>3
  <2>4. Tracked(p) => Tracked(p)'
    BY <2>1 DEF Tracked, kernel
  <2>5. ExitComing(p) => ExitComing(p)'
    BY <2>1, <2>3, QueuedAfterReceive DEF ExitComing, ExitQueued, Reports, kernel
  <2> QED
    BY <2>2, <2>3, <2>4, <2>5 DEF NoLostExit
<1>5. ASSUME ShutdownBegin \/ DaemonExit PROVE NoLostExit'
  BY <1>5 DEF ShutdownBegin, DaemonExit, NoLostExit
<1>6. ASSUME NEW i \in Pids, ChildExit(i) PROVE NoLostExit'
  BY <1>6 DEF ChildExit, NoLostExit, Tracked, ExitComing, Reports, ExitsQueued, Exit, table, channel
<1>7. ASSUME NEW i \in Pids, Reap(i) \/ WaitFails(i) PROVE NoLostExit'
  <2>1. PICK k \in ExitKinds : Sees(i, k)
    BY <1>7, LastPoll
  <2>2. i \in watched /\ FreePid(i) /\ UNCHANGED <<table, channel>>
    BY <2>1 DEF Sees
  <2>3. SUFFICES ASSUME open, NEW p \in running PROVE Tracked(p)' \/ ExitComing(p)'
    BY <2>2 DEF NoLostExit, table, channel
  <2>4. Tracked(p) \/ ExitComing(p)
    BY <2>3 DEF NoLostExit
  <2>5. p \in Programs
    BY DEF TableType
  <2>6. CASE Tracked(p) /\ pid[p] = i
    BY <2>1, <2>5, <2>6, SeesMoves DEF Tracked, ExitComing
  <2>7. CASE Tracked(p) /\ pid[p] # i
    BY <2>2, <2>7 DEF Tracked, FreePid, table, KernelType
  <2>8. CASE ExitComing(p)
    BY <2>1, <2>2, <2>5, <2>8, SeesMoves DEF ExitComing, ExitsQueued, Exit, channel
  <2> QED
    BY <2>4, <2>6, <2>7, <2>8
<1>11. ASSUME NEW i \in Pids, Report(i) PROVE NoLostExit'
  <2>1. PICK k \in ExitKinds, q \in Programs :
          /\ report[i] = Event(k, q) /\ events' = Sent(events, Event(k, q))
          /\ \A p \in Programs : Reports(p)' = Reports(p) \ {i}
    BY <1>11, ReportMoves
  <2>2. UNCHANGED <<open, table, owner, state, watched>>
    BY <1>11 DEF Report
  <2>3. SUFFICES ASSUME open, NEW p \in running PROVE Tracked(p)' \/ ExitComing(p)'
    BY <2>2 DEF NoLostExit, table
  <2>4. CASE Tracked(p)
    BY <2>2, <2>4 DEF Tracked, table
  <2>5. CASE ExitQueued(p)
    BY <2>1, <2>5, QueuedAfterSend DEF EventKinds, ExitComing, ExitQueued
  <2>6. CASE p = q
    BY <2>1, <2>3, <2>6, ReportQueued DEF ExitComing, ExitQueued
  <2>7. CASE Reports(p) # {} /\ p # q
    <3>1. p \in Programs /\ i \notin Reports(p)
      BY <2>1, <2>7 DEF Reports, Event, TableType
    <3> QED
      BY <2>1, <2>7, <3>1 DEF ExitComing
  <2> QED
    BY <2>3, <2>4, <2>5, <2>6, <2>7 DEF NoLostExit, ExitComing, ExitQueued
<1>8. ASSUME NEW i \in Pids, OrphanReap(i) PROVE NoLostExit'
  BY <1>8 DEF OrphanReap, FreePid, NoLostExit, Tracked, ExitComing, Reports, ExitsQueued, Exit, table,
     channel, KernelType
<1>9. ASSUME NEW q \in Programs, TimerFires(q) PROVE NoLostExit'
  <2>1. events' = Sent(events, Event("RestartRequested", q))
        /\ UNCHANGED <<open, table, kernel>>
    BY <1>9 DEF TimerFires
  <2>2. SUFFICES ASSUME open, NEW p \in running PROVE Tracked(p)' \/ ExitComing(p)'
    BY <2>1 DEF NoLostExit, table
  <2>3. Tracked(p) => Tracked(p)'
    BY <2>1 DEF Tracked, table, kernel
  <2>4. ExitComing(p) => ExitComing(p)'
    BY <2>1, QueuedAfterSend DEF EventKinds, ExitComing, ExitQueued, Reports, kernel
  <2> QED
    BY <2>2, <2>3, <2>4 DEF NoLostExit
<1>10. ASSUME UNCHANGED <<table, channel, kernel>> PROVE NoLostExit'
  BY <1>10, NoLostExitFrame
<1> QED
  BY <1>1, <1>2, <1>3, <1>4, <1>5, <1>6, <1>7, <1>8, <1>9, <1>10, <1>11
  DEF Next, BootStep, StartStep, StopStep, LoopStep, StopAllStep, Request, Child,
      Ended, BootDone, BootStart, SkipUnit, SpawnFails, StartDone, StopNotRunning,
      StartRequest, StopRequest, RestartRequest, SleepDone, SleepCancelled,
      LoopWake, LoopSleep, StopAllNext, StopAllDone, vars

(***************************************************************************)
(* For any programs, policies and requests: as long as the channel is      *)
(* open, a program marked running has the monitored child of its entry, or *)
(* the event that clears the mark is on its way or queued.                 *)
(***************************************************************************)
THEOREM ExitsAreNeverLost == Spec => []NoLostExit
<1>1. Init => NoLostExit
  BY DEF Init, NoLostExit
<1>2. TypeOK /\ NoLostExit /\ [Next]_vars => NoLostExit'
  BY NoLostExitStep
<1> QED
  BY <1>1, <1>2, TypeCorrect, PTL DEF Spec

-----------------------------------------------------------------------------
(* Jobs: what holds between two steps of the same job.                     *)

\* While a job is between its kill and its abort, the target stays marked
\* running and nothing comes up in its pid.
SignalledPidIsDown ==
  step = "signalled" =>
    /\ target \in running
    /\ \A i \in Pids : i = pid[target] => state[i] # "up"

\* While a job starts units, the root is either still to come or its result
\* is the truth.
RootComesOrIsDone ==
  step = "starting" =>
    \/ \E k \in DOMAIN todo : todo[k] = target
    \/ result \in {"ok", "error"} /\ (result = "ok" <=> target \in running)

JobInv == SignalledPidIsDown /\ RootComesOrIsDone /\ RestartNotPreempted

\* The children, the timers and main's last step touch no job, mark nothing
\* and bring nothing up.
LEMMA JobFrame ==
  ASSUME JobInv, UNCHANGED <<step, target, todo, result, table>>,
         \A i \in Pids : state'[i] = "up" => state[i] = "up"
  PROVE  JobInv'
BY DEF JobInv, SignalledPidIsDown, RootComesOrIsDone, RestartNotPreempted, table

\* The event loop handles an event only between two jobs.
LEMMA IdleJob == ASSUME step' = "idle" PROVE JobInv'
BY DEF JobInv, SignalledPidIsDown, RootComesOrIsDone, RestartNotPreempted

\* A unit is done: the root is still to come, or this was it.
LEMMA UnitStep ==
  ASSUME TypeOK, JobInv, NEW u \in Programs, NEW r \in {"ok", "error"},
         Starting(u), UnitDone(u, r),
         u = target => (r = "ok" <=> target \in running'),
         u # target => (target \in running <=> target \in running')
  PROVE  JobInv'
<1> USE DEF TypeOK, JobType
<1>1. step' = "starting" /\ target' = target /\ todo' = Tail(todo)
  BY DEF Starting, UnitDone
<1>2. RootComesOrIsDone'
  <2>1. CASE u = target
    BY <1>1, <2>1 DEF RootComesOrIsDone, UnitDone
  <2>2. CASE u # target
    <3>1. CASE \E k \in DOMAIN todo : todo[k] = target
      <4>1. PICK k \in DOMAIN todo : todo[k] = target
        BY <3>1
      <4>2. k # 1
        BY <2>2, <4>1 DEF Starting
      <4>3. k - 1 \in DOMAIN todo' /\ todo'[k - 1] = target'
        BY <1>1, <4>1, <4>2 DEF Starting
      <4> QED
        BY <4>3 DEF RootComesOrIsDone
    <3>2. CASE ~ \E k \in DOMAIN todo : todo[k] = target
      BY <1>1, <2>2, <3>2 DEF JobInv, RootComesOrIsDone, UnitDone
    <3> QED
      BY <3>1, <3>2
  <2> QED
    BY <2>1, <2>2
<1> QED
  BY <1>1, <1>2 DEF JobInv, SignalledPidIsDown, RestartNotPreempted

\* A job begins: the start order lists the root.
LEMMA BeginStep ==
  ASSUME NEW s \in {"starting", "stopping"}, NEW p \in Programs, Begin(s, p)
  PROVE  JobInv'
<1>1. step' = s /\ target' = p
  BY DEF Begin
<1>2. s = "starting" => \E k \in DOMAIN todo' : todo'[k] = p
  BY ConfigAssumption DEF Begin
<1> QED
  BY <1>1, <1>2 DEF JobInv, SignalledPidIsDown, RootComesOrIsDone, RestartNotPreempted

\* A stop is over: the target is down.
LEMMA AfterStopStep ==
  ASSUME AfterStop, target \notin running'
  PROVE  JobInv'
BY DEF AfterStop, Release, JobInv, SignalledPidIsDown, RootComesOrIsDone,
       RestartNotPreempted

\* One step of the job invariant, action by action.
LEMMA JobInvStep == TypeOK /\ JobInv /\ [Next]_vars => JobInv'
<1> SUFFICES ASSUME TypeOK, JobInv, [Next]_vars PROVE JobInv'
  OBVIOUS
<1> USE DEF TypeOK
<1>1. ASSUME NEW u \in Programs, SkipUnit(u) PROVE JobInv'
  BY <1>1, UnitStep DEF SkipUnit, table
<1>2. ASSUME NEW u \in Programs, NEW i \in Pids, SpawnUnit(u, i) PROVE JobInv'
  BY <1>2, UnitStep DEF SpawnUnit, TableType
<1>3. ASSUME NEW u \in Programs, SpawnFails(u) PROVE JobInv'
  BY <1>3, UnitStep DEF SpawnFails, table
<1>4. CASE StopNotRunning
  BY <1>4, AfterStopStep DEF StopNotRunning, table
<1>5. CASE Kill
  BY <1>5 DEF Kill, JobInv, SignalledPidIsDown, RootComesOrIsDone,
     RestartNotPreempted, table, KernelType
<1>6. CASE Forget
  BY <1>6, AfterStopStep DEF Forget
<1>7. CASE SleepDone
  BY <1>7, BeginStep DEF SleepDone, JobType
<1>8. ASSUME NEW p \in Programs,
             StartRequest(p) \/ StopRequest(p) \/ RestartRequest(p) \/ StopAllNext(p)
      PROVE  JobInv'
  BY <1>8, BeginStep DEF StartRequest, StopRequest, RestartRequest, StopAllNext
<1>9. ASSUME NEW p \in Programs, BootStart(p) PROVE JobInv'
  BY <1>9, BeginStep, IdleJob DEF BootStart
<1>10. CASE HandleRestart
  BY <1>10, BeginStep, HeadType DEF HandleRestart, Handling
<1>11. ASSUME HandleStarted \/ HandleExited \/ HandleFailed PROVE JobInv'
  BY <1>11, IdleJob DEF HandleStarted, HandleExited, HandleFailed, Handling, job
<1>12. ASSUME BootDone \/ StartDone \/ SleepCancelled \/ LoopSleep \/ StopAllDone
       PROVE  JobInv'
  BY <1>12, IdleJob DEF BootDone, StartDone, SleepCancelled, LoopSleep,
     StopAllDone, Release
<1>13. ASSUME LoopWake \/ ShutdownBegin \/ DaemonExit PROVE JobInv'
  BY <1>13, JobFrame DEF LoopWake, ShutdownBegin, DaemonExit, kernel, job
<1>14. ASSUME NEW p \in Programs, TimerFires(p) PROVE JobInv'
  BY <1>14, JobFrame DEF TimerFires, kernel, job
<1>15. ASSUME NEW i \in Pids, ChildExit(i) PROVE JobInv'
  <2>1. PICK s \in {"ok", "err"} : state' = [state EXCEPT ![i] = s]
    BY <1>15, ConfigAssumption DEF ChildExit
  <2>2. \A j \in Pids : state'[j] = "up" => state[j] = "up"
    BY <2>1 DEF KernelType
  <2> QED
    BY <1>15, <2>2, JobFrame DEF ChildExit, job
<1>16. ASSUME NEW i \in Pids,
              Reap(i) \/ WaitFails(i) \/ Report(i) \/ OrphanReap(i)
       PROVE  JobInv'
  BY <1>16, JobFrame
  DEF Reap, WaitFails, Sees, Report, OrphanReap, FreePid, job, KernelType
<1>17. CASE UNCHANGED vars
  BY <1>17, JobFrame DEF vars, job, kernel
<1> QED
  BY <1>1, <1>2, <1>3, <1>4, <1>5, <1>6, <1>7, <1>8, <1>9, <1>10, <1>11, <1>12,
     <1>13, <1>14, <1>15, <1>16, <1>17
  DEF Next, BootStep, StartStep, StopStep, LoopStep, StopAllStep, Request, Child,
      Ended

(***************************************************************************)
(* Between the steps of a job its lock protects it: the target of a stop   *)
(* stays marked, with nothing coming up in its pid, until the entry is     *)
(* cleared; a start has its root still to do or its result; and a restart  *)
(* sleeps with its program down.                                           *)
(***************************************************************************)
THEOREM JobsKeepTheirInvariant == Spec => []JobInv
<1>1. Init => JobInv
  BY DEF Init, JobInv, SignalledPidIsDown, RootComesOrIsDone, RestartNotPreempted
<1>2. TypeOK /\ JobInv /\ [Next]_vars => JobInv'
  BY JobInvStep
<1> QED
  BY <1>1, <1>2, TypeCorrect, PTL DEF Spec

(***************************************************************************)
(* restart_process sleeps with its program not running, whatever the other *)
(* tasks do meanwhile.                                                     *)
(***************************************************************************)
THEOREM RestartIsNotPreempted == Spec => []RestartNotPreempted
BY JobsKeepTheirInvariant, PTL DEF JobInv

(***************************************************************************)
(* start_process never reaches its "expect" without a result, and answers  *)
(* Ok exactly when its root is marked running, for every start order that  *)
(* lists the root.                                                         *)
(***************************************************************************)
THEOREM StartRepliesAreTrue == Spec => []StartReplyTruthful
<1>1. JobInv => StartReplyTruthful
  BY DEF JobInv, RootComesOrIsDone, StartReplyTruthful
<1> QED
  BY <1>1, JobsKeepTheirInvariant, PTL

(***************************************************************************)
(* A stop signals its own program's child, unless an exit is on its way or *)
(* queued: from the job invariant and from NoLostExit.                     *)
(***************************************************************************)
THEOREM StopsHitTheirProgram == Spec => []StopHitsItsProgram
<1>1. TypeOK /\ JobInv /\ NoLostExit => StopHitsItsProgram
  BY DEF TypeOK, KernelType, JobInv, SignalledPidIsDown, NoLostExit, Tracked,
     StopHitsItsProgram
<1> QED
  BY <1>1, TypeCorrect, JobsKeepTheirInvariant, ExitsAreNeverLost, PTL

-----------------------------------------------------------------------------
(* Dependencies first.                                                     *)

\* What is left of a start is the end of its order, and what came before it runs
\* or may fail.
EarlierUnitsUp ==
  step = "starting" =>
    LET order == StartOrder[target]
        done == Len(order) - Len(todo)
    IN /\ Len(todo) <= Len(order)
       /\ \A j \in 1 .. Len(todo) : todo[j] = order[done + j]
       /\ \A j \in 1 .. done : order[j] \in running \cup MayFail

\* A unit is done with: it runs, or it may fail.
LEMMA UnitKeepsOrder ==
  ASSUME TypeOK, EarlierUnitsUp, NEW u \in Programs, NEW r, Starting(u), UnitDone(u, r),
         running \subseteq running', u \in running' \cup MayFail
  PROVE  EarlierUnitsUp'
<1> DEFINE order == StartOrder[target]
           done == Len(order) - Len(todo)
<1>1. /\ step = "starting" /\ target \in Programs /\ todo \in Seq(Programs) /\ todo # <<>>
      /\ Head(todo) = u /\ todo' = Tail(todo) /\ UNCHANGED <<step, target>>
  BY DEF TypeOK, JobType, Starting, UnitDone
<1>2. order \in Seq(Programs)
  BY <1>1, ConfigAssumption
<1>3. /\ Len(todo) \in Nat \ {0} /\ Len(todo') = Len(todo) - 1
      /\ todo[1] = u /\ \A j \in 1 .. Len(todo) - 1 : todo'[j] = todo[j + 1]
  BY <1>1
<1>4. /\ Len(todo) <= Len(order) /\ Len(order) \in Nat /\ done \in Nat
      /\ \A j \in 1 .. Len(todo) : todo[j] = order[done + j]
      /\ \A j \in 1 .. done : order[j] \in running \cup MayFail
  BY <1>1, <1>2, <1>3 DEF EarlierUnitsUp
<1>5. StartOrder[target'] = order /\ Len(order) - Len(todo') = done + 1
  BY <1>1, <1>3, <1>4
<1> HIDE DEF order, done
<1>6. order[done + 1] = u
  BY <1>3, <1>4
<1>7. ASSUME NEW j \in 1 .. Len(todo) - 1
      PROVE  todo'[j] = order[done + 1 + j]
  <2>1. todo'[j] = todo[j + 1] /\ j + 1 \in 1 .. Len(todo)
    BY <1>3
  <2>2. done + (j + 1) = done + 1 + j
    BY <1>4
  <2> QED
    BY <1>4, <2>1, <2>2
<1>8. ASSUME NEW j \in 1 .. done + 1
      PROVE  order[j] \in running' \cup MayFail
  BY <1>4, <1>6
<1>9. Len(todo') <= Len(order)
  BY <1>3, <1>4
<1> QED
  BY <1>1, <1>3, <1>5, <1>7, <1>8, <1>9 DEF EarlierUnitsUp

\* A start that begins has its whole order to do.
LEMMA BeginKeepsOrder ==
  ASSUME NEW p \in Programs, Begin("starting", p)
  PROVE  EarlierUnitsUp'
<1>1. StartOrder[p] \in Seq(Programs) /\ todo' = StartOrder[p] /\ target' = p
  BY ConfigAssumption DEF Begin
<1>2. Len(StartOrder[p]) \in Nat /\ Len(StartOrder[p]) - Len(StartOrder[p]) = 0
  BY <1>1
<1>3. \A j \in 1 .. Len(StartOrder[p]) : 0 + j = j
  BY <1>2
<1> QED
  BY <1>1, <1>2, <1>3 DEF EarlierUnitsUp

\* One step: a flag only goes down while no start is under way.
LEMMA EarlierUnitsUpStep ==
  ASSUME TypeOK, EarlierUnitsUp, [Next]_vars,
         \A u \in Programs : SpawnFails(u) => u \in MayFail
  PROVE  EarlierUnitsUp'
<1>1. ASSUME NEW u \in Programs, NEW i \in Pids, SpawnUnit(u, i) PROVE EarlierUnitsUp'
  BY <1>1, UnitKeepsOrder DEF SpawnUnit
<1>2. ASSUME NEW u \in Programs, SkipUnit(u) \/ SpawnFails(u) PROVE EarlierUnitsUp'
  BY <1>2, UnitKeepsOrder DEF SkipUnit, SpawnFails, table
<1>3. ASSUME BootDone \/ StartDone \/ LoopSleep \/ StopAllDone \/ SleepCancelled
      PROVE  EarlierUnitsUp'
  BY <1>3 DEF BootDone, StartDone, LoopSleep, StopAllDone, SleepCancelled, Release,
     EarlierUnitsUp
<1>4. ASSUME NEW p \in Programs, BootStart(p) \/ StartRequest(p) PROVE EarlierUnitsUp'
  BY <1>4, BeginKeepsOrder DEF BootStart, StartRequest, EarlierUnitsUp
<1>5. CASE SleepDone
  BY <1>5, BeginKeepsOrder DEF SleepDone, TypeOK, JobType
<1>6. CASE HandleRestart
  <2>1. Head(events).prog \in Programs
    BY <1>6, HeadType DEF HandleRestart, Handling, TypeOK
  <2> QED
    BY <1>6, <2>1, BeginKeepsOrder DEF HandleRestart
<1>7. ASSUME HandleStarted \/ HandleExited \/ HandleFailed PROVE EarlierUnitsUp'
  BY <1>7 DEF HandleStarted, HandleExited, HandleFailed, Handling, EarlierUnitsUp, job
<1>8. ASSUME \/ StopNotRunning \/ Kill \/ Forget
             \/ \E p \in Programs : StopRequest(p) \/ RestartRequest(p) \/ StopAllNext(p)
      PROVE  EarlierUnitsUp'
  BY <1>8 DEF StopNotRunning, Kill, Forget, StopRequest, RestartRequest, StopAllNext,
     AfterStop, Release, Begin, EarlierUnitsUp
<1>9. ASSUME \/ LoopWake \/ ShutdownBegin \/ DaemonExit \/ Child \/ UNCHANGED vars
             \/ \E p \in Programs : TimerFires(p)
      PROVE  EarlierUnitsUp'
  BY <1>9 DEF LoopWake, ShutdownBegin, DaemonExit, Child, ChildExit, Reap, WaitFails, Sees,
     Report, OrphanReap, TimerFires, EarlierUnitsUp, table, job, vars
<1> QED
  BY <1>1, <1>2, <1>3, <1>4, <1>5, <1>6, <1>7, <1>8, <1>9
  DEF Next, BootStep, StartStep, StopStep, LoopStep, StopAllStep, Request, Ended

\* A flag goes up with a spawn.
LEMMA UpWithASpawn ==
  ASSUME [Next]_vars, NEW u \in running' \ running
  PROVE  \E i \in Pids : SpawnUnit(u, i)
BY DEF Next, BootStep, BootDone, BootStart, StartStep, SkipUnit, SpawnUnit, SpawnFails,
   StartDone, StopStep, StopNotRunning, Kill, Forget, LoopStep, HandleStarted,
   HandleExited, HandleFailed, HandleRestart, LoopSleep, StopAllStep, StopAllNext,
   StopAllDone, Request, StartRequest, StopRequest, RestartRequest, SleepDone,
   SleepCancelled, LoopWake, ShutdownBegin, DaemonExit, Child, ChildExit, Reap,
   WaitFails, Sees, Report, OrphanReap, TimerFires, Ended, vars, table

\* Those on the list of a unit that is spawned come before it in the order.
LEMMA EarlierUnitsAreUp ==
  ASSUME TypeOK, EarlierUnitsUp, [Next]_vars,
         NEW u \in running' \ running, NEW d \in After[u] \ MayFail
  PROVE  d \in running
<1>1. PICK i \in Pids : SpawnUnit(u, i)
  BY UpWithASpawn
<1>2. step = "starting" /\ target \in Programs /\ todo \in Seq(Programs)
      /\ todo # <<>> /\ Head(todo) = u
  BY <1>1 DEF SpawnUnit, Starting, TypeOK, JobType
<1> DEFINE order == StartOrder[target]
           done == Len(order) - Len(todo)
<1>3. order \in Seq(Programs) /\ Len(order) \in Nat /\ Len(todo) \in Nat \ {0} /\ todo[1] = u
  <2>1. order \in Seq(Programs)
    BY <1>2, ConfigAssumption
  <2> HIDE DEF order
  <2> QED
    BY <1>2, <2>1
<1>4. /\ Len(todo) <= Len(order) /\ todo[1] = order[done + 1]
      /\ \A j \in 1 .. done : order[j] \in running \cup MayFail
  BY <1>2, <1>3 DEF EarlierUnitsUp
<1>5. done \in Nat /\ done + 1 \in DOMAIN order
  BY <1>3, <1>4
<1>6. PICK j \in 1 .. (done + 1) - 1 : order[j] = d
  BY <1>2, <1>3, <1>4, <1>5, OrderAssumption
<1>7. j \in 1 .. done
  BY <1>5, <1>6
<1> QED
  BY <1>4, <1>6, <1>7

\* The kernel never runs out of pids: a spawn fails only for a program that may.
PidsSuffice == [][\A u \in Programs : SpawnFails(u) => u \in MayFail]_vars

(***************************************************************************)
(* As long as pids suffice, no program is spawned before those on its      *)
(* "after" list are up: whatever the order, and whichever of them exit,    *)
(* are stopped, restarted or asked for in between.                         *)
(***************************************************************************)
THEOREM DependenciesComeUpFirst == Spec /\ PidsSuffice => DependenciesUpFirst
<1> DEFINE Excused == \A u \in Programs : SpawnFails(u) => u \in MayFail
           UpFirst == \A u \in running' \ running : \A d \in After[u] \ MayFail : d \in running
<1>1. Init => EarlierUnitsUp
  BY DEF Init, EarlierUnitsUp
<1>2. TypeOK /\ EarlierUnitsUp /\ [Next]_vars /\ [Excused]_vars => EarlierUnitsUp'
  <2>1. ASSUME UNCHANGED vars, EarlierUnitsUp PROVE EarlierUnitsUp'
    BY <2>1 DEF vars, table, job, EarlierUnitsUp
  <2> QED
    BY <2>1, EarlierUnitsUpStep
<1>3. TypeOK /\ EarlierUnitsUp /\ [Next]_vars => [UpFirst]_vars
  BY EarlierUnitsAreUp
<1> QED
  BY <1>1, <1>2, <1>3, TypeCorrect, PTL DEF Spec, PidsSuffice, DependenciesUpFirst

=============================================================================
