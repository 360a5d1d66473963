--------------------------- MODULE ProcessManager ---------------------------
(***************************************************************************)
(* The daemon's core: the ProcessManager table (cirond/src/process.rs),    *)
(* the monitor task of every child, the event channel between the two, the *)
(* restart timers, and the tasks that take the manager's write lock: the   *)
(* boot sequence, the 100 ms event loop and the final stop of main.rs, and *)
(* the Start/Stop/RestartProcess handlers of grpc_server.rs.               *)
(*                                                                         *)
(* Whoever holds the lock runs one job, step by step.  The children, the   *)
(* monitor tasks and the timers do not take the lock: they move between    *)
(* any two of its steps.  A child lives in a pid of the kernel's table,    *)
(* from its spawn until it is reaped; after that the pid may be reused.    *)
(***************************************************************************)
EXTENDS Naturals, Sequences, FiniteSets

CONSTANTS
  Programs,    \* the configured programs
  Pids,        \* the process identifiers the kernel can hand out
  NoProg, NoPid,
  Autostart,   \* the programs with autostart = true
  Restart,     \* the restart policy of every program
  StartOrder,  \* what resolve_start_order returns for every program
  After,       \* per program, those on its "after" list, unless a cycle is in the way
  MayFail,     \* programs whose spawn, or the wait for them, can fail
  Statuses,    \* how a child can end: "ok" is status 0, "err" any other end
  Requests,    \* the calls the environment makes
  MaxEvents,   \* no request or exit while this many events are queued or reported
  MaxTimers    \* no exit while its program has this many pending timers

Policies == {"always", "on-failure", "never"}

ASSUME ConfigAssumption ==
  /\ NoProg \notin Programs /\ NoPid \notin Pids
  /\ Autostart \subseteq Programs
  /\ MayFail \subseteq Programs
  /\ Statuses \subseteq {"ok", "err"}
  /\ Restart \in [Programs -> Policies]
  /\ StartOrder \in [Programs -> Seq(Programs)]
  /\ \A p \in Programs : \E k \in DOMAIN StartOrder[p] : StartOrder[p][k] = p
  /\ Requests \subseteq {"start", "stop", "restart", "shutdown"}
  /\ MaxEvents \in Nat /\ MaxTimers \in Nat

\* A start order lists a unit behind those it comes after (StartOrderProofs: OrderIsAsAssumed).
ASSUME OrderAssumption ==
  /\ After \in [Programs -> SUBSET Programs]
  /\ \A p \in Programs : \A k \in DOMAIN StartOrder[p] : \A d \in After[StartOrder[p][k]] :
       \E j \in 1 .. k - 1 : StartOrder[p][j] = d

VARIABLES
  running, pid,   \* the entries: the programs marked running, and per program
                  \* the pid, which also stands for the monitor handle
  events, open,   \* the event channel, and whether its receiver is not closed
  timers,         \* per program, pending "sleep 2 s, then RestartRequested" tasks
  lock, step,     \* who holds the write lock, and where its job is
  target, todo,   \* the program the job is about, the units it has still to start
  left,           \* programs boot or stop_all has still to go through
  result,         \* how start_process_single(target) ended
  up,             \* the daemon is alive
  owner, state,   \* per pid: the program in it, and what the kernel says of it
  watched,        \* the pids whose child has a live monitor task
  report          \* per pid: the exit its last monitor has seen and not yet sent

table == <<running, pid>>
channel == <<events, open>>
job == <<lock, step, target, todo, left, result>>
kernel == <<owner, state, watched, report>>
vars == <<table, channel, timers, job, up, kernel>>

\* An exited child is a zombie ("ok", "err": its status) until it is reaped.
Zombie == {"ok", "err"}
Alive == {"up", "term"}      \* "term": SIGTERM was delivered to it
ExitKinds == {"ExitedOk", "ExitedErr", "Failed"}
EventKinds == ExitKinds \cup {"Started", "RestartRequested"}
Event(kind, p) == [kind |-> kind, prog |-> p]
NoReport == Event("none", NoProg)

TableType ==
  /\ running \subseteq Programs
  /\ pid \in [Programs -> Pids \cup {NoPid}]

Message == [kind : EventKinds, prog : Programs]
ChannelType == events \in Seq(Message) /\ open \in BOOLEAN

JobType ==
  /\ lock \in {"free", "boot", "loop", "start", "stop", "restart", "shutdown"}
  /\ step \in {"idle", "starting", "stopping", "signalled", "sleeping"}
  /\ target \in Programs \cup {NoProg}
  /\ step # "idle" => target \in Programs
  /\ todo \in Seq(Programs)
  /\ left \subseteq Programs
  /\ result \in {"none", "ok", "error"}

\* A pid is free exactly when it has no owner; a free pid has no monitor.
KernelType ==
  /\ owner \in [Pids -> Programs \cup {NoProg}]
  /\ state \in [Pids -> {"free"} \cup Alive \cup Zombie]
  /\ watched \subseteq Pids
  /\ \A i \in Pids : state[i] = "free" <=> owner[i] = NoProg
  /\ \A i \in watched : owner[i] # NoProg
  /\ report \in [Pids -> [kind : ExitKinds, prog : Programs] \cup {NoReport}]

TaskType == timers \in [Programs -> Nat] /\ up \in BOOLEAN

TypeOK == TableType /\ ChannelType /\ JobType /\ KernelType /\ TaskType

Init ==
  /\ running = {}
  /\ pid = [p \in Programs |-> NoPid]
  /\ events = <<>> /\ open = TRUE
  /\ timers = [p \in Programs |-> 0]
  /\ lock = "boot" /\ step = "idle" /\ target = NoProg
  /\ todo = <<>> /\ left = Autostart /\ result = "none"
  /\ up = TRUE
  /\ owner = [i \in Pids |-> NoProg]
  /\ state = [i \in Pids |-> "free"]
  /\ watched = {}
  /\ report = [i \in Pids |-> NoReport]

-----------------------------------------------------------------------------
(* The channel, the kernel and the lock, as the jobs use them.             *)

\* let _ = event_tx.send(e): an error (the receiver is closed) is ignored.
Sent(queue, e) == IF open THEN Append(queue, e) ELSE queue

\* Bounded by MaxEvents.
Backlog == Len(events) + Cardinality({i \in Pids : report[i] # NoReport})

\* A job begins, or hands over to its next phase, on program p.
Begin(s, p) ==
  /\ step' = s /\ target' = p /\ result' = "none"
  /\ todo' = IF s = "starting" THEN StartOrder[p] ELSE <<>>

\* The current unit is done with and h holds the lock from now on.
Release(h) ==
  /\ lock' = h /\ step' = "idle" /\ target' = NoProg
  /\ todo' = <<>> /\ result' = "none"

\* Where the lock goes when a start or a stop job is over.
NextHolder == IF lock \in {"boot", "loop", "shutdown"} THEN lock ELSE "free"

\* The child in pid i leaves the kernel's table.
FreePid(i) ==
  /\ state' = [state EXCEPT ![i] = "free"]
  /\ owner' = [owner EXCEPT ![i] = NoProg]
  /\ watched' = watched \ {i}

-----------------------------------------------------------------------------
(* start_all_autostart, in main before the event loop and the servers run. *)

BootStart(p) ==
  /\ lock = "boot" /\ step = "idle" /\ p \in left
  /\ left' = left \ {p}
  /\ \/ p \in running /\ UNCHANGED <<step, target, todo, result>>
     \/ p \notin running /\ Begin("starting", p)
  /\ UNCHANGED <<lock, table, channel, timers, up, kernel>>

BootDone ==
  /\ lock = "boot" /\ step = "idle" /\ left = {}
  /\ Release("free")
  /\ UNCHANGED <<left, table, channel, timers, up, kernel>>

-----------------------------------------------------------------------------
(* start_process: the units of the start order, one after the other.       *)

Starting(u) == step = "starting" /\ todo # <<>> /\ Head(todo) = u

\* Fault: the result of the last unit started is returned.
LastUnitDone(u, r) ==
  /\ todo' = Tail(todo) /\ result' = r
  /\ UNCHANGED <<lock, step, target, left>>

\* Only the root's own result is kept (root_result).
UnitDone(u, r) ==
  /\ todo' = Tail(todo)
  /\ result' = IF u = target THEN r ELSE result
  /\ UNCHANGED <<lock, step, target, left>>

SkipUnit(u) ==
  /\ Starting(u) /\ u \in running
  /\ UnitDone(u, "ok")
  /\ UNCHANGED <<table, channel, timers, up, kernel>>

\* Fault: the running test of start_process_single is missing.
SpawnAnyUnit(u, i) ==
  /\ Starting(u) /\ state[i] = "free"
  /\ state' = [state EXCEPT ![i] = "up"]
  /\ owner' = [owner EXCEPT ![i] = u]
  /\ watched' = watched \cup {i}
  /\ pid' = [pid EXCEPT ![u] = i]
  /\ running' = running \cup {u}
  /\ events' = Sent(events, Event("Started", u))
  /\ UnitDone(u, "ok")
  /\ UNCHANGED <<open, timers, up, report>>

\* The spawn succeeds: the child gets a free pid and a monitor task.
SpawnUnit(u, i) ==
  /\ Starting(u) /\ u \notin running /\ state[i] = "free"
  /\ state' = [state EXCEPT ![i] = "up"]
  /\ owner' = [owner EXCEPT ![i] = u]
  /\ watched' = watched \cup {i}
  /\ pid' = [pid EXCEPT ![u] = i]
  /\ running' = running \cup {u}
  /\ events' = Sent(events, Event("Started", u))
  /\ UnitDone(u, "ok")
  /\ UNCHANGED <<open, timers, up, report>>

\* An unusable command, or no pid left: the entry stays as it was.
SpawnFails(u) ==
  /\ Starting(u) /\ u \notin running
  /\ u \in MayFail \/ \A i \in Pids : state[i] # "free"
  /\ UnitDone(u, "error")
  /\ UNCHANGED <<table, channel, timers, up, kernel>>

StartDone ==
  /\ step = "starting" /\ todo = <<>>
  /\ Release(NextHolder)
  /\ UNCHANGED <<left, table, channel, timers, up, kernel>>

-----------------------------------------------------------------------------
(* stop_process: the signal, then the monitor's abort and the entry.       *)

\* What follows stop_process: restart_process goes on to its sleep.
AfterStop ==
  \/ /\ lock = "restart"
     /\ step' = "sleeping"
     /\ UNCHANGED <<lock, target, todo, result>>
  \/ /\ lock # "restart"
     /\ Release(NextHolder)

\* Fault: stop_process returns early whatever the flag says.
StopNothing ==
  /\ step = "stopping"
  /\ AfterStop
  /\ UNCHANGED <<left, table, channel, timers, up, kernel>>

StopNotRunning ==
  /\ step = "stopping" /\ target \notin running
  /\ AfterStop
  /\ UNCHANGED <<left, table, channel, timers, up, kernel>>

\* Fault: no signal is sent, as on a system that is not Unix.
KillNothing ==
  /\ step = "stopping" /\ target \in running
  /\ step' = "signalled"
  /\ UNCHANGED <<lock, target, todo, left, result, table, channel, timers, up, kernel>>

\* Fault: the signal goes to every process of that name.
KillByName ==
  /\ step = "stopping" /\ target \in running
  /\ step' = "signalled"
  /\ state' = [i \in Pids |-> IF owner[i] = target /\ state[i] = "up" THEN "term" ELSE state[i]]
  /\ UNCHANGED <<lock, target, todo, left, result, table, channel, timers, up>>
  /\ UNCHANGED <<owner, watched, report>>

\* kill(pid, SIGTERM) reaches whatever runs under that pid by now.
Kill ==
  /\ step = "stopping" /\ target \in running
  /\ step' = "signalled"
  /\ state' = [i \in Pids |-> IF i = pid[target] /\ state[i] = "up" THEN "term" ELSE state[i]]
  /\ UNCHANGED <<lock, target, todo, left, result, table, channel, timers, up>>
  /\ UNCHANGED <<owner, watched, report>>

\* Fault: the monitor is not aborted.
ForgetUnaborted ==
  /\ step = "signalled"
  /\ running' = running \ {target}
  /\ pid' = [pid EXCEPT ![target] = NoPid]
  /\ AfterStop
  /\ UNCHANGED <<left, channel, timers, up, kernel>>

\* handle.abort() cancels a monitor at its await.  It does not stop one that
\* has seen its child exit (process.rs:386): that one still has its report to
\* send, and the pid is free by now, or another program's.  A poll that is under
\* way and finds the exit after the abort is taken to have found it just before.
Forget ==
  /\ step = "signalled"
  /\ watched' = watched \ {i \in Pids : i = pid[target] /\ owner[i] = target}
  /\ running' = running \ {target}
  /\ pid' = [pid EXCEPT ![target] = NoPid]
  /\ AfterStop
  /\ UNCHANGED <<left, channel, timers, up, owner, state, report>>

-----------------------------------------------------------------------------
(* The gRPC handlers: each takes the write lock for all of its work.       *)

Serving(call) ==
  /\ call \in Requests
  /\ up /\ open /\ lock = "free"
  /\ Backlog < MaxEvents

StartRequest(p) ==
  /\ Serving("start")
  /\ lock' = "start" /\ Begin("starting", p)
  /\ UNCHANGED <<left, table, channel, timers, up, kernel>>

StopRequest(p) ==
  /\ Serving("stop")
  /\ lock' = "stop" /\ Begin("stopping", p)
  /\ UNCHANGED <<left, table, channel, timers, up, kernel>>

RestartRequest(p) ==
  /\ Serving("restart")
  /\ lock' = "restart" /\ Begin("stopping", p)
  /\ UNCHANGED <<left, table, channel, timers, up, kernel>>

\* restart_process sleeps for one second, the lock still in its hands.
SleepDone ==
  /\ step = "sleeping"
  /\ lock' = lock /\ Begin("starting", target)
  /\ UNCHANGED <<left, table, channel, timers, up, kernel>>

\* The client hangs up: the handler is dropped at its only await point.
SleepCancelled ==
  /\ step = "sleeping"
  /\ Release("free")
  /\ UNCHANGED <<left, table, channel, timers, up, kernel>>

-----------------------------------------------------------------------------
(* The event loop: while mgr.handle_single_event().await {}                *)

LoopWake ==
  /\ up /\ lock = "free" /\ events # <<>>
  /\ lock' = "loop"
  /\ UNCHANGED <<step, target, todo, left, result, table, channel, timers, up, kernel>>

Handling(kinds) ==
  /\ lock = "loop" /\ step = "idle" /\ events # <<>>
  /\ Head(events).kind \in kinds
  /\ events' = Tail(events)

HandleStarted ==
  /\ Handling({"Started"})
  /\ UNCHANGED <<open, timers, table, job, up, kernel>>

\* Fault: "on-failure" restarts after the exits that are none.
ShouldRestartSwapped(p, kind) ==
  \/ Restart[p] = "always"
  \/ Restart[p] = "on-failure" /\ kind = "ExitedOk"

\* Fault: "always" is taken for "on-failure".
ShouldRestartOnFailure(p, kind) == Restart[p] # "never" /\ kind = "ExitedErr"

ShouldRestart(p, kind) ==
  \/ Restart[p] = "always"
  \/ Restart[p] = "on-failure" /\ kind = "ExitedErr"

\* Fault: the flag is cleared only for a program that is to be restarted.
HandleExitedOnRestart ==
  /\ Handling({"ExitedOk", "ExitedErr"})
  /\ LET p == Head(events).prog
         again == ShouldRestart(p, Head(events).kind)
     IN /\ running' = IF again THEN running \ {p} ELSE running
        /\ timers' = IF again THEN [timers EXCEPT ![p] = @ + 1] ELSE timers
  /\ UNCHANGED <<open, pid, job, up, kernel>>

HandleExited ==
  /\ Handling({"ExitedOk", "ExitedErr"})
  /\ LET p == Head(events).prog
     IN /\ running' = running \ {p}
        /\ timers' = IF ShouldRestart(p, Head(events).kind)
                     THEN [timers EXCEPT ![p] = @ + 1] ELSE timers
  /\ UNCHANGED <<open, pid, job, up, kernel>>

HandleFailed ==
  /\ Handling({"Failed"})
  /\ running' = running \ {Head(events).prog}
  /\ UNCHANGED <<open, timers, pid, job, up, kernel>>

\* Fault: the program is restarted without those it comes after.
HandleRestartAlone ==
  /\ Handling({"RestartRequested"})
  /\ step' = "starting" /\ target' = Head(events).prog /\ result' = "none"
  /\ todo' = <<Head(events).prog>>
  /\ UNCHANGED <<open, timers, table, lock, left, up, kernel>>

\* Fault: the request is only logged.
HandleRestartOnlyLogs ==
  /\ Handling({"RestartRequested"})
  /\ UNCHANGED <<open, timers, table, job, up, kernel>>

HandleRestart ==
  /\ Handling({"RestartRequested"})
  /\ Begin("starting", Head(events).prog)
  /\ UNCHANGED <<open, timers, table, lock, left, up, kernel>>

LoopSleep ==
  /\ lock = "loop" /\ step = "idle" /\ events = <<>>
  /\ Release("free")
  /\ UNCHANGED <<left, table, channel, timers, up, kernel>>

-----------------------------------------------------------------------------
(* The end of main: close the channel, stop everything, leave.             *)

ShutdownBegin ==
  /\ Serving("shutdown")
  /\ lock' = "shutdown" /\ open' = FALSE /\ left' = Programs
  /\ UNCHANGED <<step, target, todo, result, table, events, timers, up, kernel>>

StopAllNext(p) ==
  /\ lock = "shutdown" /\ step = "idle" /\ p \in left
  /\ left' = left \ {p}
  /\ Begin("stopping", p)
  /\ UNCHANGED <<lock, table, channel, timers, up, kernel>>

StopAllDone ==
  /\ lock = "shutdown" /\ step = "idle" /\ left = {}
  /\ Release("free")
  /\ UNCHANGED <<left, table, channel, timers, up, kernel>>

\* Fault: main waits for the children it has sent SIGTERM to.
DaemonExitAfterChildren ==
  /\ up /\ ~ open /\ lock = "free" /\ \A i \in Pids : state[i] = "free"
  /\ up' = FALSE
  /\ timers' = [p \in Programs |-> 0] /\ events' = <<>>
  /\ watched' = {} /\ report' = [i \in Pids |-> NoReport]
  /\ UNCHANGED <<open, table, job, owner, state>>

\* event_loop.abort() and the return from main: every task of the daemon
\* ends, the children do not.
DaemonExit ==
  /\ up /\ ~ open /\ lock = "free"
  /\ up' = FALSE
  /\ timers' = [p \in Programs |-> 0] /\ events' = <<>>
  /\ watched' = {} /\ report' = [i \in Pids |-> NoReport]
  /\ UNCHANGED <<open, table, job, owner, state>>

-----------------------------------------------------------------------------
(* The children, the monitor tasks and the timers.                         *)

ChildExit(i) ==
  /\ state[i] \in Alive
  /\ Backlog < MaxEvents /\ timers[owner[i]] < MaxTimers
  /\ \E s \in Statuses : state' = [state EXCEPT ![i] = s]
  /\ UNCHANGED <<owner, watched, report, table, channel, timers, job, up>>

\* The monitor's last poll: waitpid() takes the child in pid i away, and the
\* monitor has its report to send.  A pid is not reaped again before that.
Sees(i, kind) ==
  /\ i \in watched /\ state[i] \in Zombie /\ report[i] = NoReport
  /\ report' = [report EXCEPT ![i] = Event(kind, owner[i])]
  /\ FreePid(i)
  /\ UNCHANGED <<table, channel, timers, job, up>>

ExitKind(i) == IF state[i] = "ok" THEN "ExitedOk" ELSE "ExitedErr"

\* Fault: the monitor reports only the exits that are failures.
ReapQuietly(i) ==
  /\ i \in watched /\ state[i] \in Zombie /\ report[i] = NoReport
  /\ report' = IF state[i] = "ok" THEN report
               ELSE [report EXCEPT ![i] = Event("ExitedErr", owner[i])]
  /\ FreePid(i)
  /\ UNCHANGED <<table, channel, timers, job, up>>

\* Fault: the monitor sees the exit and goes on waiting.
ReapAndGoOn(i) ==
  /\ i \in watched /\ state[i] \in Zombie /\ report[i] = NoReport
  /\ report' = [report EXCEPT ![i] = Event(ExitKind(i), owner[i])]
  /\ state' = [state EXCEPT ![i] = "free"]
  /\ owner' = [owner EXCEPT ![i] = NoProg]
  /\ UNCHANGED <<watched, table, channel, timers, job, up>>

\* child.wait() returns.
Reap(i) == Sees(i, ExitKind(i))

\* child.wait() fails: somebody else has reaped the child.
WaitFails(i) == owner[i] \in MayFail /\ Sees(i, "Failed")

\* The monitor logs, sends its event and ends: later than waitpid(), and perhaps
\* later than a stop and the next start.
Report(i) ==
  /\ report[i] # NoReport
  /\ events' = Sent(events, report[i])
  /\ report' = [report EXCEPT ![i] = NoReport]
  /\ UNCHANGED <<open, owner, state, watched, table, timers, job, up>>

\* A child without a monitor is reaped by tokio, or by init.
OrphanReap(i) ==
  /\ i \notin watched /\ state[i] \in Zombie
  /\ FreePid(i)
  /\ UNCHANGED <<report, table, channel, timers, job, up>>

TimerFires(p) ==
  /\ timers[p] > 0
  /\ timers' = [timers EXCEPT ![p] = @ - 1]
  /\ events' = Sent(events, Event("RestartRequested", p))
  /\ UNCHANGED <<open, table, job, up, kernel>>

Ended == ~ up /\ UNCHANGED vars

-----------------------------------------------------------------------------
\* The steps of whoever holds the lock.
StartStep ==
  \/ \E u \in Programs : \/ SkipUnit(u) \/ SpawnFails(u)
                         \/ \E i \in Pids : SpawnUnit(u, i)
  \/ StartDone
StopStep == StopNotRunning \/ Kill \/ Forget
BootStep == BootDone \/ \E p \in Programs : BootStart(p)
LoopStep == HandleStarted \/ HandleExited \/ HandleFailed \/ HandleRestart \/ LoopSleep
StopAllStep == StopAllDone \/ \E p \in Programs : StopAllNext(p)

Request ==
  \E p \in Programs : StartRequest(p) \/ StopRequest(p) \/ RestartRequest(p)

Child ==
  \E i \in Pids :
    ChildExit(i) \/ Reap(i) \/ WaitFails(i) \/ Report(i) \/ OrphanReap(i)

Next ==
  \/ BootStep \/ StartStep \/ StopStep \/ LoopStep \/ StopAllStep
  \/ Request \/ SleepDone \/ SleepCancelled
  \/ LoopWake \/ ShutdownBegin \/ DaemonExit
  \/ Child \/ \E p \in Programs : TimerFires(p)
  \/ Ended

Spec == Init /\ [][Next]_vars

-----------------------------------------------------------------------------
(* Safety.                                                                 *)

Exit(k) == events[k].kind \in ExitKinds
Tracked(p) == pid[p] \in watched /\ owner[pid[p]] = p
ExitsQueued(p) == {k \in DOMAIN events : Exit(k) /\ events[k].prog = p}
Reports(p) == {i \in Pids : report[i].prog = p}

\* An exit of p has been seen and is still to be handled.
ExitComing(p) == Reports(p) # {} \/ ExitsQueued(p) # {}

(***************************************************************************)
(* No exit is lost.  As long as the event channel is open, a program whose *)
(* entry says running is really the one in the pid of its entry, under a   *)
(* live monitor task, or the event that will clear the flag is on its way  *)
(* from the monitor or queued.  It ties together what the spawn, the       *)
(* monitor, the abort of a stop and the event loop do, each at its own     *)
(* time; without it a dead program would be reported running for ever and  *)
(* its restart policy never applied.                                       *)
(***************************************************************************)
NoLostExit ==
  open => \A p \in running : Tracked(p) \/ ExitComing(p)

(***************************************************************************)
(* Unless something is stopped, a program never has two children at once,  *)
(* and its entry says running exactly while it has one or the exit of the  *)
(* last one is still to be handled: client starts, dependency starts, boot *)
(* and the restart timers all meet in start_process_single's running test, *)
(* and a timer that fires late finds the program up and leaves it alone.   *)
(***************************************************************************)
Instances(p) == {i \in Pids : owner[i] = p}

\* At most one exit of p is to be handled.
OneExit(p) ==
  /\ \A i, j \in Reports(p) : i = j
  /\ \A k, l \in ExitsQueued(p) : k = l
  /\ Reports(p) = {} \/ ExitsQueued(p) = {}

OneInstanceOf(p) ==
  /\ \A i, j \in Instances(p) : i = j
  /\ OneExit(p)
  /\ Instances(p) = {} \/ ~ ExitComing(p)
  /\ p \in running <=> Instances(p) # {} \/ ExitComing(p)
  /\ \A i \in Instances(p) : pid[p] = i /\ i \in watched

OneInstance == \A p \in Programs : OneInstanceOf(p)

(***************************************************************************)
(* While restart_process sleeps, the program it is about to start again is *)
(* not running: neither the event loop nor another handler got in between. *)
(***************************************************************************)
RestartNotPreempted ==
  step = "sleeping" => target \notin running

(***************************************************************************)
(* When start_process has gone through its whole order, the result it      *)
(* returns is that of the root and it is the truth: Ok exactly when the    *)
(* root is marked running.  In particular there is a result, whatever the  *)
(* dependencies did ("resolve_start_order always includes its own root").  *)
(***************************************************************************)
StartReplyTruthful ==
  step = "starting" /\ todo = <<>> =>
    /\ result \in {"ok", "error"}
    /\ result = "ok" <=> target \in running

(***************************************************************************)
(* A stop acts on the program it names.  When the monitor is about to be   *)
(* aborted, the pid that was signalled is the target's own and the child   *)
(* in it is not running on untouched; the one excuse is an exit of the     *)
(* target that the event loop has still to handle.                         *)
(***************************************************************************)
StopHitsItsProgram ==
  step = "signalled" /\ open =>
    \/ owner[pid[target]] = target /\ state[pid[target]] # "up"
    \/ ExitComing(target)

(***************************************************************************)
(* Dependencies first: whenever a program is spawned, every program its    *)
(* "after" list names is marked running, unless that one can fail to.      *)
(* The order resolved once at the beginning still holds at the spawn: the  *)
(* lock kept the table as it was.                                          *)
(***************************************************************************)
DependenciesUpFirst ==
  [][\A u \in running' \ running : \A d \in After[u] \ MayFail : d \in running]_vars

-----------------------------------------------------------------------------
(***************************************************************************)
(* Fairness.  The scheduler runs every task that can run: the job that     *)
(* holds the lock, the monitors, the timers and the return from main.      *)
(* Tokio's RwLock queues its waiters in order, so the event loop gets the  *)
(* lock however many requests compete for it (SF).  Nothing is assumed of  *)
(* the clients, nor of the children: they may ignore SIGTERM.              *)
(***************************************************************************)
Fairness ==
  /\ WF_vars(BootStep) /\ WF_vars(StartStep) /\ WF_vars(StopStep)
  /\ WF_vars(LoopStep) /\ WF_vars(StopAllStep)
  /\ WF_vars(SleepDone \/ SleepCancelled)
  /\ SF_vars(LoopWake) /\ WF_vars(DaemonExit)
  /\ \A p \in Programs : WF_vars(TimerFires(p))
  /\ \A i \in Pids :
       /\ WF_vars(Reap(i) \/ WaitFails(i)) /\ WF_vars(Report(i))
       /\ WF_vars(OrphanReap(i))

FairSpec == Spec /\ Fairness

(***************************************************************************)
(* A dead program is not reported running for ever: its monitor reports,   *)
(* the loop gets the lock and clears the flag (or the daemon goes down).   *)
(***************************************************************************)
ExitNoticed ==
  \A p \in Programs :
    (\A i \in Pids : owner[i] = p => state[i] \notin Alive)
      ~> \/ p \notin running \/ ~ open
         \/ \E i \in Pids : owner[i] = p /\ state[i] \in Alive

(***************************************************************************)
(* A child that dies with an error is replaced when its policy says so:    *)
(* unless somebody stops the program, the daemon goes down or the spawn    *)
(* fails, another one comes up, however the exit, the timer and the calls  *)
(* of the clients meet.                                                    *)
(***************************************************************************)
BeingStopped(p) == step \in {"stopping", "signalled"} /\ target = p

CrashIsRepaired ==
  \A p \in Programs \ MayFail : Restart[p] # "never" =>
    (\E i \in Pids : owner[i] = p /\ i \in watched /\ state[i] = "err")
      ~> \/ ~ open \/ BeingStopped(p)
         \/ \E i \in Pids : owner[i] = p /\ state[i] = "up"

(***************************************************************************)
(* Once the channel is closed the daemon stops every program and leaves,   *)
(* whatever the event loop had still to handle.                            *)
(***************************************************************************)
ShutdownCompletes == ~ open ~> ~ up
-----------------------------------------------------------------------------
(***************************************************************************)
(* As long as nothing is stopped, the manager implements Lifecycle: a      *)
(* program is alive while it has a child, and a restart is owed from the   *)
(* timer to the end of the start job its event begins.                     *)
(***************************************************************************)
RestartQueued(p) ==
  \E k \in DOMAIN events : events[k] = Event("RestartRequested", p)

RestartOwed(p) == timers[p] > 0 \/ RestartQueued(p) \/ (lock = "loop" /\ target = p)

WithChild == {p \in Programs : Instances(p) # {}}
OwedRestart == {p \in Programs : RestartOwed(p)}

Supervised == INSTANCE Lifecycle WITH alive <- WithChild, due <- OwedRestart

ImplementsLifecycle == Supervised!Spec
ImplementsFairLifecycle == Supervised!FairSpec

=============================================================================
