------------------------- MODULE SupervisionProofs -------------------------
(***************************************************************************)
(* When nothing is ever stopped, the manager keeps at most one child per   *)
(* program and implements Lifecycle: for any number of programs and pids,  *)
(* any start orders and policies, any failures and whatever the bounds.    *)
(***************************************************************************)
EXTENDS ProcessManagerProofs

-----------------------------------------------------------------------------
(* Where in the queue the exits of a program are.                          *)

\* Sending anything but an exit of p leaves p's exits where they are.
LEMMA OtherSent ==
  ASSUME ChannelType, NEW k \in EventKinds, NEW q \in Programs,
         events' = Sent(events, Event(k, q)),
         NEW p, ~ (k \in ExitKinds /\ q = p)
  PROVE  ExitsQueued(p)' = ExitsQueued(p)
<1>1. CASE ~ open
  BY <1>1 DEF Sent, ExitsQueued, Exit
<1>2. CASE open
  <2>1. events' = Append(events, Event(k, q)) /\ Event(k, q) \in Message
    BY <1>2 DEF Sent, Event, Message
  <2>2. \A n \in DOMAIN events' :
          IF n = Len(events) + 1 THEN events'[n] = Event(k, q)
          ELSE n \in DOMAIN events /\ events'[n] = events[n]
    BY <2>1 DEF ChannelType
  <2>3. \A n \in DOMAIN events : n \in DOMAIN events' /\ events'[n] = events[n]
    BY <2>1 DEF ChannelType
  <2> QED
    BY <2>2, <2>3 DEF ExitsQueued, Exit, Event
<1> QED
  BY <1>1, <1>2 DEF ChannelType

\* Sending an exit of p adds the last position.
LEMMA ExitSent ==
  ASSUME ChannelType, open, NEW k \in ExitKinds, NEW p \in Programs,
         events' = Sent(events, Event(k, p))
  PROVE  ExitsQueued(p)' = ExitsQueued(p) \cup {Len(events) + 1}
<1>1. events' = Append(events, Event(k, p)) /\ Event(k, p) \in Message
  BY DEF Sent, Event, Message, EventKinds
<1>2. DOMAIN events' = DOMAIN events \cup {Len(events) + 1}
  BY <1>1 DEF ChannelType
<1>3. /\ \A n \in DOMAIN events : events'[n] = events[n]
      /\ events'[Len(events) + 1] = Event(k, p)
  BY <1>1 DEF ChannelType
<1>4. Len(events) + 1 \notin DOMAIN events
  BY DEF ChannelType
<1> QED
  BY <1>2, <1>3, <1>4 DEF ExitsQueued, Exit, Event

\* Taking the first event moves every other one a place forward.
LEMMA FirstReceived ==
  ASSUME ChannelType, events # <<>>, events' = Tail(events), NEW p
  PROVE  /\ \A n \in ExitsQueued(p)' : n + 1 \in ExitsQueued(p)
         /\ \A n \in ExitsQueued(p) : n # 1 => n - 1 \in ExitsQueued(p)'
<1>1. \A n \in DOMAIN events' : n + 1 \in DOMAIN events /\ events'[n] = events[n + 1]
  BY DEF ChannelType
<1>2. \A n \in DOMAIN events : n # 1 => n - 1 \in DOMAIN events' /\ events'[n - 1] = events[n]
  BY DEF ChannelType
<1> QED
  BY <1>1, <1>2 DEF ExitsQueued, Exit

-----------------------------------------------------------------------------
(* One child per program.                                                  *)

OnlyStarts == Requests \subseteq {"start"}

\* Then no stop job begins, and the daemon and its channel stay.
NothingStops ==
  /\ step \in {"idle", "starting"} /\ lock # "shutdown"
  /\ open /\ up
  /\ step = "idle" => target = NoProg
  /\ lock = "free" => step = "idle"

StopStepsOff ==
  /\ ~ StopStep /\ ~ StopAllStep /\ ~ SleepDone /\ ~ SleepCancelled
  /\ ~ ShutdownBegin /\ ~ DaemonExit
  /\ \A p \in Programs : ~ StopRequest(p) /\ ~ RestartRequest(p)

\* None of the steps of a stop or of the shutdown is possible.
LEMMA NoStopSteps == ASSUME OnlyStarts, NothingStops PROVE StopStepsOff
BY DEF NothingStops, OnlyStarts, StopStepsOff, StopStep, StopNotRunning, Kill,
   Forget, StopAllStep, StopAllNext, StopAllDone, SleepDone, SleepCancelled,
   ShutdownBegin, DaemonExit, Serving, StopRequest, RestartRequest

\* No step leads there.
LEMMA NothingStopsStep ==
  ASSUME OnlyStarts, TypeOK, NothingStops, [Next]_vars
  PROVE  NothingStops'
<1> USE DEF NothingStops
<1>1. ASSUME NEW u \in Programs,
             \/ SkipUnit(u) \/ SpawnFails(u) \/ \E i \in Pids : SpawnUnit(u, i)
      PROVE  NothingStops'
  BY <1>1 DEF SkipUnit, SpawnFails, SpawnUnit, UnitDone, channel
<1>2. CASE BootStep
  BY <1>2 DEF BootStep, BootDone, BootStart, Release, Begin, channel
<1>3. CASE StartDone
  BY <1>3 DEF StartDone, Release, NextHolder, channel
<1>4. CASE LoopStep
  BY <1>4 DEF LoopStep, HandleStarted, HandleExited, HandleFailed, HandleRestart,
     LoopSleep, Handling, Begin, Release, job, channel
<1>5. ASSUME NEW p \in Programs, StartRequest(p) PROVE NothingStops'
  BY <1>5 DEF StartRequest, Begin, channel
<1>6. CASE LoopWake
  BY <1>6 DEF LoopWake, channel
<1>7. CASE Child
  BY <1>7 DEF Child, ChildExit, Reap, WaitFails, Sees, Report, OrphanReap, job, channel
<1>8. ASSUME NEW p \in Programs, TimerFires(p) PROVE NothingStops'
  BY <1>8 DEF TimerFires, job
<1>9. CASE UNCHANGED vars
  BY <1>9 DEF vars, job, channel
<1>10. StopStepsOff
  BY NoStopSteps
<1> QED
  BY <1>1, <1>2, <1>3, <1>4, <1>5, <1>6, <1>7, <1>8, <1>9, <1>10
  DEF StopStepsOff, Next, StartStep, Request, Ended

\* What is left of a step, seen from the table, the channel and the kernel.
LEMMA StepsThatCount ==
  ASSUME OnlyStarts, TypeOK, NothingStops, [Next]_vars
  PROVE  \/ \E u \in Programs, i \in Pids : SpawnUnit(u, i)
         \/ HandleStarted \/ HandleExited \/ HandleFailed \/ HandleRestart
         \/ Child
         \/ \E p \in Programs : TimerFires(p)
         \/ UNCHANGED <<table, channel, kernel>>
BY NoStopSteps
DEF StopStepsOff, Next, BootStep, BootDone, BootStart, StartStep, SkipUnit,
    SpawnFails, StartDone, LoopStep, LoopSleep, Request, StartRequest, LoopWake,
    Ended, vars

\* A program that has no exit to be handled, or that has one.
LEMMA ExitsApart ==
  ASSUME NEW p, OneInstanceOf(p)
  PROVE  /\ Instances(p) # {} => Reports(p) = {} /\ ExitsQueued(p) = {}
         /\ Reports(p) # {} => Instances(p) = {} /\ ExitsQueued(p) = {} /\ p \in running
         /\ ExitsQueued(p) # {} => Instances(p) = {} /\ Reports(p) = {} /\ p \in running
BY DEF OneInstanceOf, OneExit, ExitComing

\* A step that leaves the children, the reports and the queued exits of p, and its entry.
LEMMA OneInstanceFrame ==
  ASSUME NEW p, OneInstanceOf(p), UNCHANGED <<Instances(p), Reports(p), ExitsQueued(p)>>,
         p \in running' <=> p \in running,
         \A i \in Instances(p) : pid'[p] = pid[p] /\ (i \in watched => i \in watched')
  PROVE  OneInstanceOf(p)'
BY DEF OneInstanceOf, OneExit, ExitComing

\* One step: only a spawn adds a child, and it finds the flag down; only a monitor's
\* last poll removes one, and its report is on its way to clear the flag.
LEMMA OneInstanceStep ==
  ASSUME OnlyStarts, TypeOK, NothingStops, OneInstance, [Next]_vars, NEW p \in Programs
  PROVE  OneInstanceOf(p)'
<1> USE DEF TypeOK
<1> OneInstanceOf(p)
  BY DEF OneInstance
<1>1. ASSUME NEW u \in Programs, NEW i \in Pids, SpawnUnit(u, i)
      PROVE  OneInstanceOf(p)'
  <2>1. ExitsQueued(p)' = ExitsQueued(p)
    BY <1>1, OtherSent DEF SpawnUnit, EventKinds, ExitKinds
  <2>2. CASE p = u
    <3>1. Instances(p) = {} /\ ~ ExitComing(p)
      BY <1>1, <2>2 DEF SpawnUnit, OneInstanceOf
    <3>2. Instances(p)' = {i}
      BY <1>1, <2>2, <3>1 DEF SpawnUnit, Instances, KernelType
    <3>3. Reports(p)' = {} /\ ExitsQueued(p)' = {}
      BY <1>1, <2>1, <3>1 DEF SpawnUnit, ExitComing, Reports
    <3>4. p \in running' /\ pid'[p] = i /\ i \in watched'
      BY <1>1, <2>2 DEF SpawnUnit, TableType
    <3> QED
      BY <3>2, <3>3, <3>4 DEF OneInstanceOf, OneExit, ExitComing
  <2>3. CASE p # u
    <3>1. owner[i] # p /\ owner'[i] # p
      BY <1>1, <2>3, ConfigAssumption DEF SpawnUnit, KernelType
    <3>2. \A j \in Pids : j # i => owner'[j] = owner[j]
      BY <1>1 DEF SpawnUnit, KernelType
    <3>3. Instances(p)' = Instances(p)
      BY <3>1, <3>2 DEF Instances
    <3> QED
      BY <1>1, <2>1, <2>3, <3>3, OneInstanceFrame DEF SpawnUnit, TableType, Reports
  <2> QED
    BY <2>2, <2>3
<1>2. ASSUME HandleStarted \/ HandleExited \/ HandleFailed \/ HandleRestart
      PROVE  OneInstanceOf(p)'
  <2>1. events # <<>> /\ events' = Tail(events) /\ UNCHANGED <<pid, kernel>>
    BY <1>2 DEF HandleStarted, HandleExited, HandleFailed, HandleRestart,
       Handling, table
  <2>2. Instances(p)' = Instances(p) /\ Reports(p)' = Reports(p)
    BY <2>1 DEF Instances, Reports, kernel
  <2>3. Head(events) = events[1] /\ 1 \in DOMAIN events
    BY <2>1 DEF ChannelType
  <2>4. CASE 1 \in ExitsQueued(p)
    <3>1. Instances(p) = {} /\ Reports(p) = {} /\ ExitsQueued(p) = {1}
      BY <2>4, ExitsApart DEF OneInstanceOf, OneExit
    <3>2. ExitsQueued(p)' = {}
      BY <2>1, <3>1, FirstReceived DEF ExitsQueued, ChannelType
    <3>3. p \notin running'
      BY <1>2, <2>3, <2>4 DEF ExitsQueued, Exit, ExitKinds, HandleStarted,
         HandleExited, HandleFailed, HandleRestart, Handling
    <3> QED
      BY <2>2, <3>1, <3>2, <3>3 DEF OneInstanceOf, OneExit, ExitComing
  <2>5. CASE 1 \notin ExitsQueued(p)
    <3>1. p \in running' <=> p \in running
      BY <1>2, <2>3, <2>5 DEF ExitsQueued, Exit, ExitKinds, HandleStarted,
         HandleExited, HandleFailed, HandleRestart, Handling, table
    <3>2. /\ \A n \in ExitsQueued(p)' : n + 1 \in ExitsQueued(p)
          /\ \A n \in ExitsQueued(p) : n - 1 \in ExitsQueued(p)'
      BY <2>1, <2>5, FirstReceived
    <3>3. ExitsQueued(p)' = {} <=> ExitsQueued(p) = {}
      BY <3>2
    <3>4. \A k, l \in ExitsQueued(p)' : k = l
      <4>1. ExitsQueued(p)' \subseteq Nat
        BY DEF ExitsQueued, ChannelType
      <4> QED
        BY <3>2, <4>1 DEF OneInstanceOf, OneExit
    <3> QED
      BY <2>1, <2>2, <3>1, <3>3, <3>4 DEF OneInstanceOf, OneExit, ExitComing, kernel
  <2> QED
    BY <2>4, <2>5
<1>3. ASSUME NEW i \in Pids, ChildExit(i) PROVE OneInstanceOf(p)'
  BY <1>3, OneInstanceFrame
  DEF ChildExit, Instances, Reports, ExitsQueued, Exit, table, channel
<1>4. ASSUME NEW i \in Pids, Reap(i) \/ WaitFails(i) PROVE OneInstanceOf(p)'
  <2>1. PICK k \in ExitKinds : Sees(i, k)
    BY <1>4, LastPoll
  <2>2. i \in watched /\ FreePid(i) /\ UNCHANGED <<table, channel>>
    BY <2>1 DEF Sees
  <2>3. Instances(p)' = Instances(p) \ {i}
    BY <2>2, ConfigAssumption DEF FreePid, Instances, KernelType
  <2>4. ExitsQueued(p)' = ExitsQueued(p)
    BY <2>2 DEF ExitsQueued, Exit, channel
  <2>5. CASE owner[i] = p
    <3>1. Instances(p) = {i} /\ p \in running
      BY <2>5 DEF OneInstanceOf, Instances
    <3>2. Reports(p) = {} /\ ExitsQueued(p) = {}
      BY <3>1, ExitsApart
    <3>3. Reports(p)' = {i}
      BY <2>1, <2>5, <3>2, SeesMoves
    <3> QED
      BY <2>2, <2>3, <2>4, <3>1, <3>2, <3>3 DEF OneInstanceOf, OneExit, ExitComing, table
  <2>6. CASE owner[i] # p
    <3>1. Reports(p)' = Reports(p)
      BY <2>1, <2>6, SeesMoves
    <3>2. Instances(p)' = Instances(p) /\ i \notin Instances(p)
      BY <2>3, <2>6 DEF Instances
    <3> QED
      BY <2>2, <2>4, <3>1, <3>2, OneInstanceFrame DEF FreePid, table
  <2> QED
    BY <2>5, <2>6
<1>5. ASSUME NEW i \in Pids PROVE ~ OrphanReap(i)
  <2>1. SUFFICES ASSUME state[i] \in Zombie, i \notin watched PROVE FALSE
    BY DEF OrphanReap
  <2>2. owner[i] \in Programs
    BY <2>1 DEF KernelType, Zombie
  <2> QED
    BY <2>1, <2>2 DEF OneInstance, OneInstanceOf, Instances
<1>6. ASSUME NEW q \in Programs, TimerFires(q) PROVE OneInstanceOf(p)'
  <2>1. ExitsQueued(p)' = ExitsQueued(p)
    BY <1>6, OtherSent DEF TimerFires, EventKinds, ExitKinds
  <2> QED
    BY <1>6, <2>1, OneInstanceFrame DEF TimerFires, Instances, Reports, table, kernel
<1>7. ASSUME NEW i \in Pids, Report(i) PROVE OneInstanceOf(p)'
  <2>1. PICK k \in ExitKinds, q \in Programs :
          /\ events' = Sent(events, Event(k, q)) /\ i \in Reports(q)
          /\ \A r \in Programs : Reports(r)' = Reports(r) \ {i}
          /\ report[i] = Event(k, q)
    BY <1>7, ReportMoves
  <2>2. Instances(p)' = Instances(p) /\ UNCHANGED <<table, watched>>
    BY <1>7 DEF Report, Instances
  <2>3. CASE q = p
    <3>1. Reports(p) = {i} /\ Instances(p) = {} /\ ExitsQueued(p) = {} /\ p \in running
      BY <2>1, <2>3, ExitsApart DEF OneInstanceOf, OneExit
    <3>2. ExitsQueued(p)' = {Len(events) + 1}
      BY <2>1, <2>3, <3>1, ExitSent DEF NothingStops
    <3> QED
      BY <2>1, <2>2, <3>1, <3>2 DEF OneInstanceOf, OneExit, ExitComing, table
  <2>4. CASE q # p
    <3>1. ExitsQueued(p)' = ExitsQueued(p)
      BY <2>1, <2>4, OtherSent DEF EventKinds
    <3>2. i \notin Reports(p)
      BY <2>1, <2>4 DEF Reports, Event
    <3>3. Reports(p)' = Reports(p)
      BY <2>1, <3>2
    <3> QED
      BY <2>2, <3>1, <3>3, OneInstanceFrame DEF table
  <2> QED
    BY <2>3, <2>4
<1>8. CASE UNCHANGED <<table, channel, kernel>>
  BY <1>8, OneInstanceFrame
  DEF Instances, Reports, ExitsQueued, Exit, table, channel, kernel
<1> QED
  BY <1>1, <1>2, <1>3, <1>4, <1>5, <1>6, <1>7, <1>8, StepsThatCount DEF Child

(***************************************************************************)
(* If clients only start programs, a program never has two children, one   *)
(* of them untracked: boot, dependency starts, client starts and restart   *)
(* timers together keep at most one, whatever crashes when.                *)
(***************************************************************************)
THEOREM OnlyOneInstance == ASSUME OnlyStarts PROVE Spec => []OneInstance
<1> DEFINE Inv == NothingStops /\ OneInstance
<1>1. Init => Inv
  BY ConfigAssumption
  DEF Init, NothingStops, OneInstance, OneInstanceOf, OneExit, ExitComing, Instances,
      Reports, NoReport, Event, ExitsQueued
<1>2. TypeOK /\ Inv /\ [Next]_vars => Inv'
  BY NothingStopsStep, OneInstanceStep DEF OneInstance
<1> QED
  BY <1>1, <1>2, TypeCorrect, PTL DEF Spec

-----------------------------------------------------------------------------
(* Where in the queue the restart requests of a program are.               *)

\* Only the request itself adds one.
LEMMA RestartQueuedAfterSend ==
  ASSUME ChannelType, open, NEW k \in EventKinds, NEW q \in Programs,
         events' = Sent(events, Event(k, q)), NEW p \in Programs
  PROVE  RestartQueued(p)' <=> RestartQueued(p) \/ (k = "RestartRequested" /\ q = p)
<1>1. events' = Append(events, Event(k, q)) /\ Event(k, q) \in Message
  BY DEF Sent, Event, Message
<1>2. \A n \in DOMAIN events' :
        IF n = Len(events) + 1 THEN events'[n] = Event(k, q)
        ELSE n \in DOMAIN events /\ events'[n] = events[n]
  BY <1>1 DEF ChannelType
<1>3. \A n \in DOMAIN events : n \in DOMAIN events' /\ events'[n] = events[n]
  BY <1>1 DEF ChannelType
<1>4. /\ Len(events) + 1 \in DOMAIN events'
      /\ events'[Len(events) + 1] = Event(k, q)
  BY <1>1 DEF ChannelType
<1>5. Event(k, q) = Event("RestartRequested", p) <=> k = "RestartRequested" /\ q = p
  BY DEF Event
<1>6. RestartQueued(p)' => RestartQueued(p) \/ (k = "RestartRequested" /\ q = p)
  BY <1>2, <1>5 DEF RestartQueued, Event
<1>7. RestartQueued(p) => RestartQueued(p)'
  BY <1>3 DEF RestartQueued, Event
<1>8. k = "RestartRequested" /\ q = p => RestartQueued(p)'
  BY <1>4 DEF RestartQueued, Event
<1> QED
  BY <1>6, <1>7, <1>8

\* Taking the first event removes no other request.
LEMMA RestartQueuedAfterReceive ==
  ASSUME ChannelType, events # <<>>, events' = Tail(events), NEW p \in Programs
  PROVE  /\ RestartQueued(p)' => RestartQueued(p)
         /\ RestartQueued(p) => RestartQueued(p)' \/ events[1] = Event("RestartRequested", p)
<1>1. \A n \in DOMAIN events' : n + 1 \in DOMAIN events /\ events'[n] = events[n + 1]
  BY DEF ChannelType
<1>2. \A n \in DOMAIN events : n # 1 => n - 1 \in DOMAIN events' /\ events'[n - 1] = events[n]
  BY DEF ChannelType
<1>3. ASSUME RestartQueued(p)
      PROVE  RestartQueued(p)' \/ events[1] = Event("RestartRequested", p)
  <2>1. PICK n \in DOMAIN events : events[n] = Event("RestartRequested", p)
    BY <1>3 DEF RestartQueued
  <2> QED
    BY <1>2, <2>1 DEF RestartQueued, Event
<1> QED
  BY <1>1, <1>3 DEF RestartQueued, Event

-----------------------------------------------------------------------------
(* Spawns fail for a reason.                                               *)

\* The kernel has a pid for every program: by the pigeonhole, the pids never
\* all go to programs other than u with no program in two of them.
EnoughPids ==
  \A u \in Programs : \A f \in [Pids -> Programs \ {u}] :
    \E i, j \in Pids : i # j /\ f[i] = f[j]

\* A program that is not running finds a free pid.
LEMMA PidForEveryone ==
  ASSUME EnoughPids, TypeOK, OneInstance, NEW u \in Programs \ running
  PROVE  \E i \in Pids : state[i] = "free"
<1> SUFFICES ASSUME \A i \in Pids : state[i] # "free" PROVE FALSE
  OBVIOUS
<1>1. \A i \in Pids : owner[i] \in Programs
  BY DEF TypeOK, KernelType
<1>2. \A i \in Pids : owner[i] # u
  BY DEF OneInstance, OneInstanceOf, Instances
<1>3. owner \in [Pids -> Programs \ {u}]
  BY <1>1, <1>2 DEF TypeOK, KernelType
<1>4. PICK i \in Pids, j \in Pids : i # j /\ owner[i] = owner[j]
  BY <1>3 DEF EnoughPids
<1>5. owner[i] \in Programs /\ i \in Instances(owner[i]) /\ j \in Instances(owner[i])
  BY <1>1, <1>4 DEF Instances
<1> QED
  BY <1>4, <1>5 DEF OneInstance, OneInstanceOf

\* What may fail is known to: the root of a start that failed, and whoever's
\* exit could not be read.
FailuresExcused ==
  /\ step = "starting" /\ result = "error" => target \in MayFail
  /\ \A k \in DOMAIN events : events[k].kind = "Failed" => events[k].prog \in MayFail
  /\ \A i \in Pids : report[i].kind = "Failed" => report[i].prog \in MayFail

\* Sending a Failed of a program that may fail needs no other excuse.
LEMMA ExcusedAfterSend ==
  ASSUME ChannelType, FailuresExcused, NEW k \in EventKinds, NEW q \in Programs,
         events' = Sent(events, Event(k, q)), k = "Failed" => q \in MayFail
  PROVE  \A n \in DOMAIN events' : events'[n].kind = "Failed" => events'[n].prog \in MayFail
<1>1. CASE ~ open
  BY <1>1 DEF Sent, FailuresExcused
<1>2. CASE open
  <2>1. events' = Append(events, Event(k, q)) /\ Event(k, q) \in Message
    BY <1>2 DEF Sent, Event, Message
  <2>2. \A n \in DOMAIN events' :
          IF n = Len(events) + 1 THEN events'[n] = Event(k, q)
          ELSE n \in DOMAIN events /\ events'[n] = events[n]
    BY <2>1 DEF ChannelType
  <2> QED
    BY <2>2 DEF FailuresExcused, Event
<1> QED
  BY <1>1, <1>2 DEF ChannelType

\* A failure comes from a spawn or a wait of a program that may fail.
LEMMA FailuresExcusedStep ==
  ASSUME EnoughPids, OnlyStarts, TypeOK, NothingStops, OneInstance,
         FailuresExcused, [Next]_vars
  PROVE  FailuresExcused'
<1> USE DEF TypeOK
<1>1. ASSUME NEW u \in Programs, NEW i \in Pids, SpawnUnit(u, i)
      PROVE  FailuresExcused'
  BY <1>1, ExcusedAfterSend DEF SpawnUnit, UnitDone, FailuresExcused, EventKinds
<1>2. ASSUME NEW u \in Programs, SkipUnit(u) \/ SpawnFails(u)
      PROVE  FailuresExcused'
  <2>1. SpawnFails(u) => u \in MayFail
    BY PidForEveryone DEF SpawnFails
  <2> QED
    BY <1>2, <2>1 DEF SkipUnit, SpawnFails, UnitDone, FailuresExcused, channel, kernel
<1>3. ASSUME HandleStarted \/ HandleExited \/ HandleFailed \/ HandleRestart
      PROVE  FailuresExcused'
  <2>1. events # <<>> /\ events' = Tail(events)
    BY <1>3 DEF HandleStarted, HandleExited, HandleFailed, HandleRestart, Handling
  <2>2. \A n \in DOMAIN events' : n + 1 \in DOMAIN events /\ events'[n] = events[n + 1]
    BY <2>1 DEF ChannelType
  <2>3. step' = "starting" => result' # "error"
    BY <1>3 DEF HandleStarted, HandleExited, HandleFailed, HandleRestart,
       Handling, Begin, job
  <2> QED
    BY <1>3, <2>2, <2>3
    DEF HandleStarted, HandleExited, HandleFailed, HandleRestart, FailuresExcused, kernel
<1>4. ASSUME NEW i \in Pids, Reap(i) \/ WaitFails(i) PROVE FailuresExcused'
  <2>1. PICK k \in ExitKinds : Sees(i, k) /\ (k = "Failed" => owner[i] \in MayFail)
    BY <1>4, LastPoll
  <2>2. \A j \in Pids : report'[j] = IF j = i THEN Event(k, owner[i]) ELSE report[j]
    BY <2>1 DEF Sees, KernelType
  <2> QED
    BY <2>1, <2>2 DEF Sees, FailuresExcused, Event, channel, job
<1>5. ASSUME NEW q \in Programs, TimerFires(q) PROVE FailuresExcused'
  BY <1>5, ExcusedAfterSend DEF TimerFires, FailuresExcused, job, kernel, EventKinds
<1>6. ASSUME NEW i \in Pids, ChildExit(i) \/ OrphanReap(i) PROVE FailuresExcused'
  BY <1>6 DEF ChildExit, OrphanReap, FailuresExcused, job, channel
<1>7. ASSUME NEW p \in Programs, BootStart(p) \/ StartRequest(p)
      PROVE  FailuresExcused'
  BY <1>7 DEF BootStart, StartRequest, Begin, FailuresExcused, channel, kernel
<1>8. ASSUME BootDone \/ StartDone \/ LoopSleep \/ LoopWake \/ UNCHANGED vars
      PROVE  FailuresExcused'
  BY <1>8 DEF BootDone, StartDone, LoopSleep, LoopWake, Release, FailuresExcused,
     channel, job, kernel, vars
<1>9. ASSUME NEW i \in Pids, Report(i) PROVE FailuresExcused'
  <2>1. PICK k \in ExitKinds, p \in Programs :
          report[i] = Event(k, p) /\ events' = Sent(events, Event(k, p))
    BY <1>9, ReportMoves
  <2>2. k = "Failed" => p \in MayFail
    BY <2>1 DEF FailuresExcused, Event
  <2>3. \A j \in Pids : report'[j] = IF j = i THEN NoReport ELSE report[j]
    BY <1>9 DEF Report, KernelType
  <2> QED
    BY <1>9, <2>1, <2>2, <2>3, ExcusedAfterSend
    DEF Report, FailuresExcused, job, EventKinds, NoReport, Event
<1>10. StopStepsOff
  BY NoStopSteps
<1> QED
  BY <1>1, <1>2, <1>3, <1>4, <1>5, <1>6, <1>7, <1>8, <1>9, <1>10
  DEF StopStepsOff, Next, BootStep, StartStep, LoopStep, Request, Child, Ended

-----------------------------------------------------------------------------
(* Dependencies first.                                                     *)

(***************************************************************************)
(* If clients only start programs and the kernel has a pid for each, that  *)
(* is enough: no child outlives its entry and keeps its pid, so no program *)
(* is ever spawned before those on its "after" list are up.                *)
(***************************************************************************)
THEOREM DependenciesFirstIfNothingStops ==
  ASSUME OnlyStarts, EnoughPids PROVE Spec => DependenciesUpFirst
<1>1. ASSUME TypeOK, OneInstance, NEW u \in Programs, SpawnFails(u) PROVE u \in MayFail
  BY <1>1, PidForEveryone DEF SpawnFails
<1>2. TypeOK /\ OneInstance => [\A u \in Programs : SpawnFails(u) => u \in MayFail]_vars
  BY <1>1
<1>3. Spec => PidsSuffice
  BY <1>2, TypeCorrect, OnlyOneInstance, PTL DEF PidsSuffice
<1> QED
  BY <1>3, DependenciesComeUpFirst, PTL

-----------------------------------------------------------------------------
(* Refinement.                                                             *)

\* Steps of a job that touch neither the table nor what is queued or timed.
LEMMA QuietStep ==
  ASSUME UNCHANGED <<table, channel, kernel, timers>>,
         \A p \in Programs :
           (lock = "loop" /\ target = p)' <=> (lock = "loop" /\ target = p)
  PROVE  UNCHANGED Supervised!vars
<1>1. \A p \in Programs : RestartOwed(p)' <=> RestartOwed(p)
  BY DEF RestartOwed, RestartQueued, channel
<1>2. \A p \in Programs : Instances(p)' = Instances(p)
  BY DEF Instances, kernel
<1> QED
  BY <1>1, <1>2 DEF Supervised!vars, WithChild, OwedRestart, table

\* Spawns map to Launch, reaps to Leave, exits handled to Notice, the end of a
\* restart to Settle, and everything else to a stutter.
LEMMA LifecycleStep ==
  ASSUME EnoughPids, OnlyStarts, TypeOK, NothingStops, OneInstance,
         FailuresExcused, JobInv, [Next]_vars
  PROVE  [Supervised!Next]_(Supervised!vars)
<1> USE DEF TypeOK
<1> USE DEF Supervised!vars
<1>1. ASSUME NEW u \in Programs, NEW i \in Pids, SpawnUnit(u, i)
      PROVE  Supervised!Launch(u)
  <2>1. u \notin running /\ running' = running \cup {u}
    BY <1>1 DEF SpawnUnit
  <2>2. Instances(u)' # {}
    BY <1>1 DEF SpawnUnit, Instances, KernelType
  <2>3. ASSUME NEW p \in Programs, p # u PROVE Instances(p)' = Instances(p)
    <3>1. owner[i] # p /\ owner'[i] # p
      BY <1>1, <2>3, ConfigAssumption DEF SpawnUnit, KernelType
    <3>2. \A j \in Pids : j # i => owner'[j] = owner[j]
      BY <1>1 DEF SpawnUnit, KernelType
    <3> QED
      BY <3>1, <3>2 DEF Instances
  <2>4. WithChild' = WithChild \cup {u}
    BY <2>2, <2>3 DEF WithChild
  <2>5. ASSUME NEW p \in Programs PROVE RestartOwed(p)' <=> RestartOwed(p)
    <3>1. RestartQueued(p)' <=> RestartQueued(p)
      BY <1>1, RestartQueuedAfterSend DEF SpawnUnit, NothingStops, EventKinds
    <3> QED
      BY <1>1, <3>1 DEF SpawnUnit, UnitDone, RestartOwed
  <2>6. OwedRestart' = OwedRestart
    BY <2>5 DEF OwedRestart
  <2> QED
    BY <2>1, <2>4, <2>6 DEF Supervised!Launch
<1>2. ASSUME NEW i \in Pids, Reap(i) \/ WaitFails(i)
      PROVE  owner[i] \in Programs /\ Supervised!Leave(owner[i])
  <2>1. PICK k \in ExitKinds : Sees(i, k)
    BY <1>2, LastPoll
  <2>2. FreePid(i) /\ UNCHANGED <<table, channel, timers, job>>
    BY <2>1 DEF Sees
  <2>3. owner[i] \in Programs
    BY <2>1, SeesMoves
  <2>4. \A p \in Programs : Instances(p)' = Instances(p) \ {i}
    BY <2>2, ConfigAssumption DEF FreePid, Instances, KernelType
  <2>5. Instances(owner[i]) = {i}
    BY <2>3 DEF OneInstance, OneInstanceOf, Instances
  <2>6. owner[i] \in WithChild /\ WithChild' = WithChild \ {owner[i]}
    BY <2>3, <2>4, <2>5 DEF WithChild, Instances
  <2>7. OwedRestart' = OwedRestart
    BY <2>2 DEF OwedRestart, RestartOwed, RestartQueued, channel, job
  <2> QED
    BY <2>2, <2>3, <2>6, <2>7 DEF Supervised!Leave, table
<1>3. ASSUME NEW i \in Pids, ChildExit(i) PROVE UNCHANGED Supervised!vars
  BY <1>3 DEF ChildExit, WithChild, Instances, OwedRestart, RestartOwed,
     RestartQueued, table, channel, job
<1>4. ASSUME NEW q \in Programs, TimerFires(q) PROVE UNCHANGED Supervised!vars
  <2>1. ASSUME NEW p \in Programs PROVE RestartOwed(p)' <=> RestartOwed(p)
    <3>1. RestartQueued(p)' <=> RestartQueued(p) \/ q = p
      BY <1>4, RestartQueuedAfterSend DEF TimerFires, NothingStops, EventKinds
    <3>2. p # q => timers'[p] = timers[p]
      BY <1>4 DEF TimerFires, TaskType
    <3> QED
      BY <1>4, <3>1, <3>2 DEF TimerFires, RestartOwed, job
  <2>2. WithChild' = WithChild /\ running' = running
    BY <1>4 DEF TimerFires, WithChild, Instances, table, kernel
  <2> QED
    BY <2>1, <2>2 DEF OwedRestart
<1>5. ASSUME HandleStarted \/ HandleExited \/ HandleFailed \/ HandleRestart
      PROVE  [Supervised!Next]_(Supervised!vars)
  <2> DEFINE p == Head(events).prog
  <2>1. /\ events # <<>> /\ events' = Tail(events) /\ lock = "loop" /\ lock' = lock
        /\ step = "idle" /\ UNCHANGED kernel
    BY <1>5 DEF HandleStarted, HandleExited, HandleFailed, HandleRestart,
       Handling, job
  <2>2. /\ Head(events) = events[1] /\ 1 \in DOMAIN events /\ p \in Programs
        /\ events[1] \in Message
    BY <2>1, HeadType DEF ChannelType
  <2>3. WithChild' = WithChild
    BY <2>1 DEF WithChild, Instances, kernel
  <2>4. ASSUME NEW q \in Programs, Head(events) # Event("RestartRequested", q)
        PROVE  RestartQueued(q)' <=> RestartQueued(q)
    BY <2>1, <2>2, <2>4, RestartQueuedAfterReceive
  <2>5. target = NoProg
    BY <2>1 DEF NothingStops
  <2>6. CASE HandleStarted
    <3>1. ASSUME NEW q \in Programs PROVE RestartQueued(q)' <=> RestartQueued(q)
      <4>1. Head(events) # Event("RestartRequested", q)
        BY <2>6 DEF HandleStarted, Handling, Event
      <4> QED
        BY <2>4, <4>1
    <3>2. OwedRestart' = OwedRestart
      BY <2>6, <3>1 DEF HandleStarted, OwedRestart, RestartOwed, job
    <3> QED
      BY <2>3, <2>6, <3>2 DEF HandleStarted, table
  <2>7. CASE HandleExited \/ HandleFailed
    <3>1. 1 \in ExitsQueued(p)
      BY <2>2, <2>7 DEF HandleExited, HandleFailed, Handling, ExitsQueued, Exit, ExitKinds
    <3>2. p \in running \ WithChild
      BY <2>2, <3>1 DEF OneInstance, OneInstanceOf, ExitComing, WithChild
    <3>3. running' = running \ {p}
      BY <2>7 DEF HandleExited, HandleFailed
    <3>4. ASSUME NEW q \in Programs PROVE RestartQueued(q)' <=> RestartQueued(q)
      <4>1. Head(events) # Event("RestartRequested", q)
        BY <2>7 DEF HandleExited, HandleFailed, Handling, Event
      <4> QED
        BY <2>4, <4>1
    <3>5. UNCHANGED job
      BY <2>7 DEF HandleExited, HandleFailed
    <3>6. CASE HandleExited /\ ShouldRestart(p, Head(events).kind)
      <4>1. timers' = [timers EXCEPT ![p] = @ + 1]
        BY <3>6 DEF HandleExited
      <4>2. \A q \in Programs : RestartOwed(q)' <=> RestartOwed(q) \/ q = p
        BY <2>2, <3>4, <3>5, <4>1 DEF RestartOwed, TaskType, job
      <4>3. OwedRestart' = OwedRestart \cup {p}
        BY <2>2, <4>2 DEF OwedRestart
      <4>4. Restart[p] # "never"
        BY <3>6 DEF ShouldRestart
      <4> QED
        BY <2>2, <2>3, <3>2, <3>3, <4>3, <4>4 DEF Supervised!Next, Supervised!Notice
    <3>7. CASE ~ (HandleExited /\ ShouldRestart(p, Head(events).kind))
      <4>1. timers' = timers
        BY <2>7, <3>7 DEF HandleExited, HandleFailed
      <4>2. OwedRestart' = OwedRestart
        BY <3>4, <3>5, <4>1 DEF OwedRestart, RestartOwed, job
      <4>3. Restart[p] # "always" \/ p \in MayFail
        BY <2>2, <2>7, <3>7 DEF HandleFailed, Handling, ShouldRestart, FailuresExcused
      <4> QED
        BY <2>2, <2>3, <3>2, <3>3, <4>2, <4>3 DEF Supervised!Next, Supervised!Notice
    <3> QED
      BY <3>6, <3>7
  <2>8. CASE HandleRestart
    <3>1. target' = p /\ UNCHANGED <<timers, table>>
      BY <2>8 DEF HandleRestart, Begin
    <3>2. Head(events) = Event("RestartRequested", p)
      BY <2>2, <2>8 DEF HandleRestart, Handling, Event, Message
    <3>3. RestartQueued(p)
      BY <2>2, <3>2 DEF RestartQueued
    <3>4. ASSUME NEW q \in Programs, q # p
          PROVE  RestartQueued(q)' <=> RestartQueued(q)
      <4>1. Head(events) # Event("RestartRequested", q)
        BY <3>4 DEF Event
      <4> QED
        BY <2>4, <4>1
    <3>5. \A q \in Programs : RestartOwed(q)' <=> RestartOwed(q)
      BY <2>1, <2>2, <2>5, <3>1, <3>3, <3>4, ConfigAssumption DEF RestartOwed
    <3>6. OwedRestart' = OwedRestart
      BY <3>5 DEF OwedRestart
    <3> QED
      BY <2>3, <3>1, <3>6 DEF table
  <2> QED
    BY <1>5, <2>6, <2>7, <2>8
<1>6. CASE StartDone
  <2>1. /\ step = "starting" /\ todo = <<>> /\ target \in Programs
        /\ target' = NoProg /\ UNCHANGED <<table, channel, kernel, timers>>
    BY <1>6 DEF StartDone, Release, JobType
  <2>2. target \in running \/ target \in MayFail
    BY <2>1 DEF JobInv, RootComesOrIsDone, FailuresExcused
  <2>3. \A p \in Programs : RestartQueued(p)' <=> RestartQueued(p)
    BY <2>1 DEF RestartQueued, channel
  <2>4. \A p \in Programs : (RestartOwed(p)' => RestartOwed(p))
                          /\ (p # target => (RestartOwed(p) => RestartOwed(p)'))
    BY <2>1, <2>3, ConfigAssumption DEF RestartOwed
  <2>5. WithChild' = WithChild /\ running' = running
    BY <2>1 DEF WithChild, Instances, kernel, table
  <2>6. CASE target \in OwedRestart /\ target \notin OwedRestart'
    <3>1. OwedRestart' = OwedRestart \ {target}
      BY <2>4, <2>6 DEF OwedRestart
    <3> QED
      BY <2>1, <2>2, <2>5, <2>6, <3>1 DEF Supervised!Next, Supervised!Settle
  <2>7. CASE ~ (target \in OwedRestart /\ target \notin OwedRestart')
    <3>1. OwedRestart' = OwedRestart
      BY <2>1, <2>4, <2>7 DEF OwedRestart
    <3> QED
      BY <2>5, <3>1
  <2> QED
    BY <2>6, <2>7
<1>7. ASSUME NEW u \in Programs, SkipUnit(u) \/ SpawnFails(u)
      PROVE  UNCHANGED Supervised!vars
  BY <1>7, QuietStep DEF SkipUnit, SpawnFails, UnitDone
<1>8. ASSUME NEW p \in Programs, BootStart(p) \/ StartRequest(p)
      PROVE  UNCHANGED Supervised!vars
  BY <1>8, QuietStep, ConfigAssumption DEF BootStart, StartRequest, Serving, NothingStops
<1>9. ASSUME BootDone \/ LoopSleep \/ LoopWake
      PROVE  UNCHANGED Supervised!vars
  BY <1>9, QuietStep, ConfigAssumption
  DEF BootDone, LoopSleep, LoopWake, Release, NothingStops
<1>10. CASE UNCHANGED vars
  BY <1>10, QuietStep DEF vars, job
<1>11. ASSUME NEW i \in Pids PROVE ~ OrphanReap(i)
  <2>1. SUFFICES ASSUME state[i] \in Zombie, i \notin watched PROVE FALSE
    BY DEF OrphanReap
  <2>2. owner[i] \in Programs
    BY <2>1 DEF KernelType, Zombie
  <2> QED
    BY <2>1, <2>2 DEF OneInstance, OneInstanceOf, Instances
<1>12. StopStepsOff
  BY NoStopSteps
<1>13. ASSUME NEW i \in Pids, Reap(i) \/ WaitFails(i)
       PROVE  Supervised!Next
  BY <1>2, <1>13 DEF Supervised!Next
<1>14. ASSUME NEW u \in Programs, NEW i \in Pids, SpawnUnit(u, i)
       PROVE  Supervised!Next
  BY <1>1, <1>14 DEF Supervised!Next
<1>15. ASSUME NEW i \in Pids, Report(i) PROVE UNCHANGED Supervised!vars
  <2>1. PICK k \in ExitKinds, q \in Programs : events' = Sent(events, Event(k, q))
    BY <1>15, ReportMoves
  <2>2. ASSUME NEW p \in Programs PROVE RestartOwed(p)' <=> RestartOwed(p)
    <3>1. RestartQueued(p)' <=> RestartQueued(p)
      BY <2>1, RestartQueuedAfterSend DEF NothingStops, EventKinds, ExitKinds
    <3> QED
      BY <1>15, <3>1 DEF Report, RestartOwed, job
  <2>3. WithChild' = WithChild /\ running' = running
    BY <1>15 DEF Report, WithChild, Instances, table
  <2> QED
    BY <2>2, <2>3 DEF OwedRestart
<1> QED
  BY <1>3, <1>4, <1>5, <1>6, <1>7, <1>8, <1>9, <1>10, <1>11, <1>12, <1>13, <1>14, <1>15
  DEF StopStepsOff, Next, BootStep, StartStep, LoopStep, Request, Child, Ended

(***************************************************************************)
(* If clients only start programs and the kernel has a pid for each, every *)
(* step of the manager is a step of Lifecycle or changes nothing there: a  *)
(* flag goes up with the child and down after it, and a restart stays owed *)
(* until the program runs again, unless it is one that may fail.           *)
(***************************************************************************)
THEOREM ManagerImplementsLifecycle ==
  ASSUME OnlyStarts, EnoughPids PROVE Spec => ImplementsLifecycle
<1> DEFINE Inv == NothingStops /\ OneInstance /\ FailuresExcused
<1>1. Init => Supervised!Init
  BY ConfigAssumption
  DEF Init, Supervised!Init, WithChild, Instances, OwedRestart, RestartOwed,
      RestartQueued
<1>2. Init => Inv
  BY ConfigAssumption
  DEF Init, NothingStops, OneInstance, OneInstanceOf, OneExit, ExitComing, Instances,
      Reports, NoReport, Event, ExitsQueued, FailuresExcused
<1>3. TypeOK /\ Inv /\ [Next]_vars => Inv'
  BY NothingStopsStep, OneInstanceStep, FailuresExcusedStep DEF OneInstance
<1>4. TypeOK /\ Inv /\ JobInv /\ [Next]_vars => [Supervised!Next]_(Supervised!vars)
  BY LifecycleStep
<1> QED
  BY <1>1, <1>2, <1>3, <1>4, TypeCorrect, JobsKeepTheirInvariant, PTL
  DEF Spec, ImplementsLifecycle, Supervised!Spec

=============================================================================
