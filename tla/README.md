# A TLA+ development of ciron

ciron is a process supervisor for containers: the daemon `cirond` starts the
programs of a configuration file, restarts them by policy, and answers gRPC
calls of `cironctl`. This directory models it, checks the models with TLC on
small instances, and proves the main results with TLAPS for all instances.

Run one instance with `tlc -config <X>.cfg <Module>.tla` (the table below says
which module each cfg belongs to), one proof with `tlapm <Module>Proofs.tla`.

## 1. The system

| Component | Source | State it keeps | Operations | Modelled by |
|---|---|---|---|---|
| process manager | `cirond/src/process.rs` | per program: `running`, `pid`, `monitor_handle`, log buffer; the event channel | `start_all_autostart`, `start_process`, `start_process_single`, `stop_process`, `restart_process`, `handle_single_event`, `stop_all`, `shutdown` | `ProcessManager` |
| start order | `process.rs`, `resolve_start_order` | local queues, in-degrees | discovery, Kahn's sort, fallback for cycles | `StartOrder`, `DependencyOrder` |
| monitor tasks, restart timers | tasks spawned by `process.rs` | the `Child`; a 2 s sleep | wait for the exit and report; request the restart | `ProcessManager`; over several lives of the daemon `Recovery` |
| event loop, boot, final stop | `cirond/src/main.rs` | - | every 100 ms take the write lock and handle all events | `ProcessManager`, `Control` |
| control handlers | `cirond/src/grpc_server.rs` | - | `StartProcess`, `StopProcess`, `RestartProcess`, each under the write lock | `ProcessManager`, `OperatorIntent`, `Control` |
| status handlers | `grpc_server.rs` | - | `GetStatus`, `GetProcessStatus`: read the flags under the read lock | `Control` |
| log pipeline | `spawn_log_reader`, `get_recent_logs`, `subscribe_logs`, `get_logs` | per program: ring buffer of 1000 lines, broadcast channel; per `GetLogs` call: the copied lines, a receiver, a channel of 128 entries | read, record, publish; copy, subscribe, stream, follow | `LogPipeline` |
| daemon start-up and servers | `main.rs` | list of transports, server tasks, shutdown broadcast | choose the transports, bind, serve, Ctrl+C, drain, stop | `Daemon` |
| transport addresses | `ciron-common/src/transport.rs` | - | parse, print | `Transport` |
| configuration | `ciron-common/src/config.rs` | - | deserialise with defaults | `Transport` (the `[transport]` table); the programs are constants |
| `cironctl` | `cironctl/src/main.rs` | - | connect, make one call, print the answer | `Daemon` (connecting), `Control` and `LogPipeline` (calls) |
| `ReloadConfig`, `Shutdown`, `StreamEvents` | `grpc_server.rs` | - | `unimplemented!()` | not modelled: they change nothing |
| log formatting, protocol, examples | | none | | not modelled |

How they interact. Everybody who changes the table takes one
`tokio::sync::RwLock` for the whole of an operation: `main` at boot and at the
end, the event loop, the three handlers. Three kinds of task do *not* take it:

* a **monitor** per child waits for the exit and sends `Exited` or `Failed`;
* a **restart timer**, spawned when an exit is handled, sends
  `RestartRequested` two seconds later and cannot be cancelled;
* the **children** themselves exit when they like, or ignore SIGTERM.

They meet the lock holders through the unbounded event channel (read only by
the event loop), through `kill(2)` on a stored pid, and through `abort()` of the
monitor. So the table is consistent under its lock, and everything that is hard
happens between the table and the outside: an event names a program and not a
child, a pid is remembered longer than the child lives, a timer outlives the
reason it was started for, a stop races the exit it provokes, and
`restart_process` sleeps in the middle of its work. When the daemon is killed
its children live on, and the next one knows nothing of them.

The lock itself is a fair queue, in which a reader waits behind a writer that
came before it. A client that hangs up has its handler dropped at the `await`
it is at: in the queue, or in the sleep of a restart with the lock in hand.

Around all this, `main` starts the programs, then one server task per
transport, and awaits them; a broadcast channel tells them of Ctrl+C. A server
ends when it cannot bind, or when it was told to stop and its connections are
done; when all have ended the programs are stopped. Two daemons meet at the
addresses they both want, and at the socket file one of them has left.

The log pipeline touches the table only under the read lock and shares nothing
else with the process manager: it is a module of its own. Here too the hard part
is what no lock covers: a reader pushes a line to the buffer and then sends it
to the channel, `GetLogs` copies the buffer and then subscribes to the channel,
a client may be slow or gone, and the child must not notice.

What makes the components correct:

* start order: every program that comes in is listed exactly once, the root
  among them (`start_process` panics otherwise); "after" is respected wherever
  a cycle does not prevent it; the `usize` in-degrees never underflow; the
  loops end on every graph;
* process manager: a flag that is up belongs to a living monitored child or to
  an exit that is queued or about to be; a start answers the truth; a stop
  reaches its own program; a restart is not overtaken; one child per program as
  long as nothing is stopped; exits are noticed, crashes repaired, shutdowns
  completed;
* several lives: the same invariants in each of them; the survivors of an
  earlier life are never signalled; one child per program and life as long as
  nothing is stopped;
* control: to its clients the manager is atomic; every command is answered, and
  the event loop gets its turn;
* daemon: no open call outlives the programs; a daemon goes on to stop them
  only for a reason; one that is told to stop, or cannot serve, does end; what
  dead daemons left does not block the next one; a daemon takes a socket from
  another only by starting on its path; the address it shows leads back to it;
* log pipeline: the buffer is the tail of what was read; a stream keeps the
  order of the lines and repeats or misses one only where copy and subscription
  fall between the two steps of a reader, or after a lag; a slow client holds up
  neither the readers nor the child; a follower catches up.

`PROJECT.json` lists the hazards one by one, with the line where each bites and
the properties aimed at it.

## 2. The modules

**`StartOrder`** is `resolve_start_order` with one step per turn of each loop:

| Actions | Code |
|---|---|
| `CheckRoot` | the only error, or the discovery begins with the root |
| `VisitUnit`, `VisitDependency` | a unit popped from `queue`; an entry of its two lists |
| `CountUnit`, `CountEntry` | the next discovered unit; an entry of its "after" list, counted in `inDegree` and noted in `dependents` |
| `CollectReady` | the next discovered unit, ready if nobody keeps it back |
| `SortUnit`, `ReleaseDependent` | a unit popped from `ready`; one of its `dependents` |
| `AppendRest` | the fallback for what a cycle keeps back |
| `LoopDone` | the end of a loop, the beginning of the next |

`pending` is what an inner `for` has still to go through, `next` how far an
outer one has got in `discovered`. The configuration and the root are chosen in
`Init`, so one run covers every dependency graph of the instance. Lists are
sequences and may repeat a name or mention one no program has, as in the code.
`inDegree` ranges over `Int`, so that an underflow would show, and `dependents`
is a total function: a key that is not in the map has no dependents.

**`DependencyOrder`** states the order by what it is, without the loops. The
discovery order is breadth first: units stand as they are first mentioned when
the lists of the units before them are read one after the other. The resolved
order is Kahn's: units stand in the order they get ready, those that get ready
together as they were found, and what a cycle keeps back follows as it was found.
Both are unique, and `LoopsReturnResolvedOrder` says that the loops return the
second. `MCProcessManager` takes the start orders of its programs from here.

**`ProcessManager`** composes the table, the channel, the tasks, the lock and
the kernel:

| Variables | Code |
|---|---|
| `running`, `pid` | the entries: `running` is the set of programs whose flag is up, `pid[p]` stands for both `pid` and `monitor_handle` (set together, taken together) |
| `events`, `open` | the mpsc channel; `open` until `event_rx.close()` |
| `timers` | how many "sleep 2 s, then RestartRequested" tasks of a program are pending |
| `lock` | who holds the write lock: `boot`, `loop`, `start`, `stop`, `restart`, `shutdown` |
| `step`, `target`, `todo`, `left`, `result` | where the holder's job is: the program it is about, the rest of the start order, the programs a loop over all of them has still to visit, `root_result` |
| `owner`, `state`, `watched` | the kernel's view: whose child has pid i, whether it runs (`up`), has got SIGTERM (`term`) or is a zombie (`ok`, `err`); which children have a live monitor |
| `report` | a monitor between its last poll of `child.wait()` and its `send`: the event it is about to send, kept at the pid it had reaped |
| `up` | the daemon process |

A job is a sequence of actions of the same lock holder: a start is
`SkipUnit`/`SpawnUnit`/`SpawnFails` per unit of `todo` and `StartDone`; a stop
is `StopNotRunning`, or `Kill` and `Forget` (signal; abort and clear the entry);
a restart is a stop, `SleepDone` (or `SleepCancelled`: the client goes away and
the handler is dropped at its await) and a start. Between any two of these
steps the children, monitors and timers may move.

Abstractions. Command lines, environments, exit codes and log output are left
out: a spawn succeeds, or fails for the programs in `MayFail` or when the
kernel has no pid; an exit status is "ok" or "err"; `wait` can fail for
`MayFail`. A request for an unknown program changes nothing and is left out; so
is `force`, which the code only logs.

A monitor ends in two steps: its last poll of `child.wait()` takes the zombie
away and frees the pid (`Reap`, or `WaitFails` on an error), and its `send` queues
the event (`Report`). Other threads run in between, and `abort()` does not stop a
poll under way: so a report may come after the stop that cleared the entry, and
even after the next start. Until its `Report` a pid can go to another child, but
that one is not reaped: a pid carries one report at a time. An abort that comes
while the poll is inside `waitpid` has the effect of one that came just after it.

**`Lifecycle`** is what the manager promises while nothing is stopped, in terms
of three sets: programs that have a child, programs marked running, programs
that are owed a restart. `ProcessManager!Supervised` is the refinement mapping:
a restart is owed from the timer to the end of the start its event begins.

**`OperatorIntent`** adds a history variable to `ProcessManager`: the programs
whose last request was a stop that has been answered.

**`Recovery`** extends `ProcessManager` with `Crash`, which forgets the memory and
the tasks of the daemon at any step and leaves `owner` and `state` of the
children alone, and `Reboot`, which begins again with an empty table and the
boot job among those children. Nothing else changes: a survivor exits like any
child and is reaped by init (`OrphanReap`). History variables tell which pids
are inherited, whether this life has seen a stop, and which programs are `raced`:
those of which an exit was on its way or queued while their flag was down (its
monitor had seen it when a stop cleared the entry), until they have no monitor,
no exit to be handled and no flag. That is the window of the finding
`MCDependenciesLeftAlone`; outside of it a program has one monitor.

**`Control`** is the way from a command of `cironctl` to its answer:

| Variables | Code |
|---|---|
| `running`, `exited`, `due`, `again` | `ProcessManager`'s table, event channel and timers as sets of programs |
| `waiting`, `ahead`, `holders` | the RwLock: who waits, behind whom, who has it |
| `call`, `printed` | per client, the command it waits for, and what it has printed |
| `phase`, `target`, `todo`, `result` | where the writer's work is |
| `before` | history: the flags when a client's write began |

`Run` sends a command and joins the queue; `EnterReader`, `EnterWriter`,
`EnterLoop` take the lock; the three reads answer in one step, a write goes
through `StartUnit`, `StopDone`, `StopForRestart`, `SleepDone` and `StartDone`;
`HangUp` drops a handler where it awaits. Units of a start order are started in
any order here: the order is `ProcessManager`'s matter. An answer is sent after
the lock is released, and is what was read under it: the model does both at
once, since the answer cannot change any more.

**`AtomicManager`** is what a client may count on: each command takes effect at
one instant between call and answer. The refinement mapping shows the flags as
they were `before` for as long as a client writes. A restart that is given up
may have come as far as its stop; nothing else can be seen half done.

**`Transport`** holds the pure part of the daemon's addresses: `Parse`,
`Display`, the `[transport]` table with its defaults (`Filled`), the choice
among -t and the table (`Chosen`), what a transport listens on (`Endpoint`) and
what a client reaches with one (`Reached`). A string is its scheme and the
parts between the colons; which parts are numbers, and which number is written
how, are constants.

**`Daemon`** runs `main` for several daemons on one machine:

| Variables | Code |
|---|---|
| `main`, `transports`, `programs` | how far `main` has come, the transports it chose, whether its programs were started, and whether `stop_all` has been called (what that does to them is in `ProcessManager`) |
| `server`, `told` | the server tasks, in the order of `server_handles`, and those whose receiver has got the shutdown |
| `ctrlc` | the listener task of Ctrl+C |
| `socket` | the kernel's view: who has bound an endpoint. A unix path stays bound to a dead daemon until it is removed |
| `conn` | per client, the server it is connected to: in the backlog (`queued`), waiting for an answer (`call`), following a log (`follow`) |
| `earlier` | history: the daemons that were over when this one was launched |

A server goes through `Unlink` (unix only), `Bind` or `BindFails`, `Drain` and
`EndServer`; `Kill` ends a daemon at any time. `CtrlC` reaches the servers that
are there; one spawned later never hears of it. A second Ctrl+C is swallowed,
because tokio keeps the handler installed: only `Kill` ends such a daemon. The
requests themselves are `Control`'s and `LogPipeline`'s; here a connection just
carries one. Left out: permissions and missing directories of a socket path, a
second address family of a host name, and vsock on a system that has none.

**`LogPipeline`** follows the output of one program to its clients:

| Variables | Code |
|---|---|
| `forward` | `config.log_forward`, chosen in `Init` |
| `written`, `taken`, `closed` | the pipes: lines written and read, and those whose writing end is closed |
| `reader`, `line` | where each `spawn_log_reader` task is between its steps, and the line it has in hand |
| `buffer` | `log_buffer`; `recorded` is all that was ever pushed to it |
| `sent`, `pos` | the broadcast channel: all that was sent, and how far each receiver is. A receiver more than `Backlog` behind has lost lines (`Lagging`) |
| `call`, `follow`, `todo` | each `GetLogs` call or the task it spawned: where it is, whether it follows, the lines it has still to send (`recent`, or the line just received) |
| `unread`, `gone` | the mpsc channel to the client, and whether the client dropped it |
| `output`, `mark` | history: what was put into that channel, and the positions at the copy, the subscription, and a lag |

The reader is `ReadLine`, `Record`, `Publish`, until `ReadEnd` or `ReadError`; a
call is `Copy` and `Subscribe`, its task `Send`, `CopySent`, `Receive`,
`SkipLost`, `SendFails`. The two steps of each are separate because the mutex of
the buffer covers only the first; the handler's read lock does not keep readers
out. A line is the number it has in its stream. Left out: the `BufReader` that
takes several lines from the pipe at once, the wait for the read lock, and the
error `Closed`, which comes only with the end of the daemon. Without
`log_forward` the output is copied to a sink and a call is refused. A reader may
meet a line that is not UTF-8 at any time.

**`MCStartOrder`**, **`MCProcessManager`**, **`MCRecovery`**,
**`MCOperatorIntent`**, **`MCLogPipeline`**, **`MCControl`** and **`MCDaemon`**
are the instances for TLC. The theorems are in **`ProcessManagerProofs`**,
**`SupervisionProofs`**, **`RecoveryProofs`**, **`LogPipelineProofs`**,
**`ControlProofs`**, **`DaemonProofs`**, **`StartOrderProofs`** and
**`DependencyOrderProofs`**.

Operators whose comment begins with "Fault:" are variants of the action that
follows them with a plausible bug put in. No specification uses them; each was
put in the place of the original to see that the property it is aimed at fails,
as listed under "mutants" in `PROJECT.json`.

## 3. The runs

| cfg (module) | Checks | Instance |
|---|---|---|
| `MCStartOrder` | `TypeOK`, `OrderIsThePermutedClosure`, `AfterIsRespectedOffCycles`, `DegreesNeverUnderflow`, `LoopsReturnResolvedOrder`, `CallReturns` | three programs and an unknown name; every "after" list of up to two names, repeated entries included; the root wants up to one program, which may be unknown, b one of the others or none: about 106,000 graphs, 1.46M states |
| `MCRecovery` (`MCRecovery`) | `RecoveryTypeOK`, `NoLostExit`, `StopHitsItsProgram`, `RestartNotPreempted`, `StartReplyTruthful`, `OneInstancePerLife`, `OneMonitorPerProgram`, `SurvivorsAreLeftAlone` | two programs, each bringing in the other, b after a, a restarted always and b never; two pids, so that a spawn may find none; all calls, shutdown; two lives; 1.9M states |
| `MCSupervision` (`MCProcessManager`) | `OneInstance`, `DependenciesUpFirst`, `ImplementsLifecycle`, `ImplementsFairLifecycle` | the same two programs, b restarted on failure and able to fail; exits with both statuses; only starts; two pending timers per program; 308k states |
| `MCLiveness` (`MCProcessManager`) | `ExitNoticed`, `CrashIsRepaired`, `ShutdownCompletes` | one program, restarted on failure; two pids, both statuses, all calls, two timers; 207k states |
| `MCLogPipeline` (`MCLogPipeline`) | `TypeOK`, `BufferIsTheTail`, `RepeatsOnlyAtTheSeam`, `MissesOnlyTheGap`, `ChildNeverBlocks`, `FollowerCatchesUp` | two readers with two lines and one, one client asking for all lines or for one, a buffer of two lines, every other capacity one; 220k states |
| `MCControl` (`MCControl`) | `TypeOK`, `WritesAlone`, `ImplementsAtomicManager`, `EveryCommandIsAnswered`, `ExitsAreHandled` | two clients and the loop, two programs of which a brings in b and b may fail, seven commands of all kinds, right and wrong names; 157k states |
| `MCDaemon` (`MCDaemon`) | `TypeOK`, `NoCallOutlivesThePrograms`, `DaemonsEndForAReason`, `ShownAddressLeadsBack`, `LeftoversDoNotBlock`, `OnlyStartersTakeAPath`, `DoomedDaemonsEnd`, `ConnectionsAreServed` | two daemons, eight configurations and command lines, one client with three addresses; 249k states |

Five more find counterexamples to what the repository says of itself (section
5): four over `MCProcessManager` and `MCOperatorIntent`, one over `MCLogPipeline`.

Bounds. Three programs have every shape that matters to the sort: a chain, a
fork, a join, a cycle, a program behind a cycle, a self-loop. One configured
root stands for all by symmetry. For the manager, two programs are enough for
one to take a pid the other has left, and for a dependency to be brought in;
two or three pids are enough for reuse and for exhaustion. `MaxEvents` stops
requests and exits while that many events are queued or about to be sent by a
monitor (`Backlog`), and `MaxTimers` stops exits of a program with that many
pending timers; neither stops a monitor, a timer or the loop, so the queue does
grow beyond `MaxEvents`, and two events of the same program (its exit and a
request for its restart, in either order) do meet. `MCRecovery` lets children
end with status 0 only (`Statuses`) under policies that do not look at the
status (`BlindRestart`), and no wait fails: under these policies an exit with
another status, or the `Failed` of a program that is never restarted, leads to
copies of the same states. "on-failure", both statuses and `Failed` are in
`MCSupervision`, where no stop comes between; the proofs of the invariants of
`MCRecovery` hold for every value of all these constants. `MCLiveness` has a
single program because a supervisor whose pids are all taken by children that
ignore SIGTERM repairs nothing: with one program and two pids the dead child
leaves room for its successor.

For the log pipeline, three lines through a buffer of two and a channel of one
are enough for an eviction, a lag, a repeated line and a missed one, and two
readers to interleave within their steps; a call keeps to its own variables, so
a second client would see what the first one does.

Two lives are enough for a survivor and for its end; a third adds only more
survivors. For the lock, three parties are enough for a reader behind a writer
behind a reader, and for one who hangs up in the middle. For the daemon, two
processes are enough to meet at a path or a port, at once or one after the
other, and the configurations contain two transports at once, a host name, an
IPv6 address, bad ports and a specific CID; connections do not affect one
another, so one client stands for all. `Bits` is the width of a `u32`: it is 30
in the run because TLC's own integers are 32 bits wide with a sign, and the
proofs do not depend on it.

Deadlock is checked in every run but `MCDaemon`, whose daemons are launched once
and may all be over: a call that has returned and a daemon that
has ended stutter explicitly (`Returned`, `Ended`, `Quiet`), nothing else may stop.

Fairness (`ProcessManager!Fairness`). Tokio runs every task that is ready: the
holder of the lock, the monitors (to their last poll, and then to their send),
the timers, `main` once the loop over `stop_all` is done (weak fairness). The
event loop waits in the RwLock's FIFO queue, so it gets the lock although
others keep taking it: strong fairness of `LoopWake`. Nothing is assumed of
clients or of children. In `StartOrder` the call itself is run to its end (weak
fairness of `Next`). In `LogPipeline` every reader and every task that serves a
call is run when it can go on (weak fairness); children may stop writing and
clients may stop reading.

In `Control` that strong fairness is not assumed but shown (`ExitsAreHandled`):
there is weak fairness only, and the queue does the rest. It takes one
assumption about time from the code: a timer of two seconds does not fire
during the pass of the loop that set it; otherwise a pass might go on for ever.
The guard of `TimerFires` says a little more than that (section 6). Clients
need not ask again, and children need not exit. In `Daemon` the tasks of each
daemon run when one of them can (weak fairness of `DaemonStep`), and a call in
progress is answered, which is what `EveryCommandIsAnswered` shows. Nobody need
send Ctrl+C, and a client may follow a log for ever: the two liveness
properties say so in their hypothesis.

## 4. The proofs

For all programs and all "after" and "wants" lists over any names
(`StartOrder!ConfigAssumption`):

| Theorem | Says | Argument |
|---|---|---|
| `StartOrderTypeCorrect` | `Spec => []TypeOK` | inductive with `Untouched` (what a loop that has not begun has left alone) |
| `DegreesDoNotUnderflow` | `Spec => []DegreesNeverUnderflow` | the invariant `DegreesAreOwed`: an in-degree is the number of entries of `dependents` that name the unit and are not yet released; the one that is being released is among them (`PendingIsTheRest`) |
| `OrderIsComplete` | `Spec => []OrderIsThePermutedClosure` | `DiscoveryInv`: what is seen lies in every closed set that holds the root, and what a visited unit mentions is seen or pending; `SortedOnce`: ready and sorted units are distinct and of degree zero, so a release never adds one of them again; if as many are sorted as were discovered, they are the same |
| `AfterIsRespected` | `Spec => []AfterIsRespectedOffCycles` | while units are sorted, each comes after all it depends on (`SortedAfter`), and what is left depends on something that is left (`ServedComeFirst`). In a finite graph that is only possible behind a cycle (`EndlessIsBehindCycle`: follow the dependencies to a unit whose closure is minimal), and nothing that was sorted is behind one (`CyclesKeepBack`) |
| `OrderIsAsAssumed` | `Spec => []OrderIsUsable` | what is returned lists its root, and each unit behind those on its "after" list that no cycle keeps back: from `OrderIsComplete` and `AfterIsRespected` |
| `DiscoveryIsUnique`, `SortIsUnique` | a configuration has at most one discovery order, and an order at most one sort | the first place at which two of them differ: the unit each puts there is mentioned first, or ready sooner, than the other's |
| `OrderIsResolved` | `Spec => []LoopsReturnResolvedOrder` | the invariant `OrderedInv`: what is found stands as it was first mentioned (`FoundInOrder`), and the entries of "dependents" as their units were found (`EntriesInOrder`), so the ready and sorted units stand as they got ready (`ReadyInOrder`) and the rest as it was found (`RestInOrder`); by uniqueness it is the order `ResolvedOrder` chooses |
| `LoopsMakeProgress` | every step lowers a measure in `Nat` lexicographically | loops still to come, units still to be taken up, length of `pending`: the safety half of `CallReturns` |

`OrderIsAsAssumed` is what `ProcessManager` assumes of its start orders
(`ConfigAssumption`, `OrderAssumption`), with `After` for the "after" lists
without what a cycle keeps back.

For all programs, pids, such start orders, policies, requests and bounds:

| Theorem | Says | Argument |
|---|---|---|
| `TypeCorrect` | `Spec => []TypeOK` | `TypeOK` is inductive |
| `ExitsAreNeverLost` | `Spec => []NoLostExit` | inductive with `TypeOK`; the delicate steps are `Forget` (it aborts only a monitor whose child still owns the pid, and clears the flag with it), `Sees` (the last poll of a monitor leaves its report in place of it), `Report` (which queues what it takes away) and the handling of an exit (only the flag of its own program goes down) |
| `JobsKeepTheirInvariant` | `JobInv`: a signalled target is still marked and nothing comes up in its pid; a start has its root to do, or the result is the truth; a sleeping restart has its program down | inductive with `TypeOK`: none of the other tasks takes the lock |
| `RestartIsNotPreempted`, `StartRepliesAreTrue` | the invariants of the same runs | from `JobInv` |
| `StopsHitTheirProgram` | `Spec => []StopHitsItsProgram` | from `JobInv` and `NoLostExit`: a marked target without an exit to be handled owns its pid |
| `DependenciesComeUpFirst` | `Spec /\ PidsSuffice => DependenciesUpFirst` | the invariant `EarlierUnitsUp`: what is left of a start is the end of its order, and each unit before it runs or may fail. A flag goes down only while no start is under way. With `OrderAssumption`, which `OrderIsAsAssumed` shows of the order, the "after" list of the unit that is spawned lies before it. `PidsSuffice` (no spawn fails for want of a pid) is needed: a child that ignores its SIGTERM keeps the pid a dependency may need |

If clients only start programs (`OnlyStarts`):

| Theorem | Says | Argument |
|---|---|---|
| `OnlyOneInstance` | `Spec => []OneInstance` | inductive with `NothingStops` (no stop job, no shutdown): a spawn finds the flag down, hence no child and no exit to be handled; the last poll of a monitor makes the only one |
| `DependenciesFirstIfNothingStops` | `Spec => DependenciesUpFirst` | `DependenciesComeUpFirst`, whose hypothesis `OneInstance` and `EnoughPids` give: a program that is not running finds a free pid (`PidForEveryone`) |
| `ManagerImplementsLifecycle` | `Spec => ImplementsLifecycle` | step simulation under `OneInstance`, `JobInv` and `FailuresExcused` (an error comes from a program that may fail); needs `EnoughPids`, that the kernel has a pid for each program, stated as the pigeonhole principle |

If the daemon may be killed at any step and started again `MaxLives` times:

| Theorem | Says | Argument |
|---|---|---|
| `RecoveryTypeCorrect` | `RecoverySpec => []RecoveryTypeOK` | from the lemmas of `TypeCorrect`; a crash empties what the types speak of |
| `EveryLifeIsSafe` | `NoLostExit`, `StopHitsItsProgram`, `RestartNotPreempted`, `StartReplyTruthful` under `RecoverySpec` | each is about flags that are up and jobs that run: a crash leaves none, a reboot begins with the boot job, every other step is one of `ProcessManager` |
| `SurvivorsAreSafe` | `RecoverySpec => SurvivorsAreLeftAlone` | the table never names an inherited pid: a spawn takes a free one, and a pid that is inherited is not free |
| `OneInstanceInEveryLife` | `RecoverySpec => []OneInstancePerLife` | the argument of `OnlyOneInstance` with the children of this life in place of all, and with `calm` in place of clients that never stop |
| `DependenciesFirstInEveryLife` | `RecoverySpec /\ PidsSuffice => DependenciesUpFirst` | the invariant of `DependenciesComeUpFirst`; a crash leaves no start under way |
| `OneMonitorAfterAStop` | `RecoverySpec => []OneMonitorPerProgram` | what is left of `OnlyOneInstance` when anything may be stopped. A spawn finds the flag down, hence no monitor and no exit to be handled; `Forget` ends the only monitor with the flag, and leaves an exit behind only if its monitor had seen it before, queued or not (then the program is `raced`, until the exit is handled and its successor is gone); a monitor is taken from a running child only by `Forget`, which has signalled it (`SignalledPidIsDown`) |

For any clients, programs, start orders and commands of `Control`:

| Theorem | Says | Argument |
|---|---|---|
| `TypeCorrect` | `Spec => []TypeOK` | inductive; the queue is a relation "came before" that only shrinks for those who wait |
| `WritersAreAlone` | `Spec => []WritesAlone` | inductive with `TypeOK`: who holds the lock as a writer holds it alone, and only its own steps touch the flags |
| `ClientsSeeAtomicManager` | `Spec => ImplementsAtomicManager` | step simulation: the steps of a client's write stutter until the one that answers, the loop's are `Notice` and `Revive` one program at a time |
| `LockIsNeverStuck` | `Spec => []LockIsPassedOn`: of those that wait one is ahead of all others, and it may enter, or somebody who has the lock is at a point from which its work goes on | `Line`: the queue is a finite linear order, whoever hangs up; the safety half of `EveryCommandIsAnswered` |

For any daemons, clients, configurations and addresses:

| Theorem | Says | Argument |
|---|---|---|
| `DaemonTypeCorrect` | `Spec => []TypeOK` | inductive |
| `DisplayReadsBack` | `Parse(Display(t)) = t` for every transport a daemon can have | by cases on its type, from `PartsAssumption` |
| `CallsHaveTheirPrograms` | `Spec => []NoCallOutlivesThePrograms` | an open call keeps its server from ending, and a server that has not ended keeps `main` from going on |
| `DaemonsDoNotJustEnd` | `Spec => []DaemonsEndForAReason` | `main` goes on only when every transport has had its server and every server is over; a server drains only when told, and what it was told is never forgotten |
| `ShownAddressesLeadBack` | `Spec => []ShownAddressLeadsBack` | a server that serves has an IP address for a host, hence resolves to itself |
| `LeftoversAreCleared` | `Spec => LeftoversDoNotBlock` | invariant: a socket bound by a daemon that is over is the file of a unix one, and `Unlink` has removed it before a bind unless a daemon that is not over has bound it since |
| `PathsAreTakenByStarters` | `Spec => OnlyStartersTakeAPath` | invariant: a server that serves is the one its endpoint is bound to, or a starter has unlinked it |

For all readers, clients and capacities of the log pipeline:

| Theorem | Says | Argument |
|---|---|---|
| `LogTypeCorrect` | `Spec => []TypeOK` | `TypeOK` is inductive: `Record` makes room before it adds, `Send` waits for room, `SkipLost` lands inside the channel |
| `BufferTailCorrect` | `Spec => []BufferIsTheTail` | inductive with `TypeOK`, in the form `TailByPlace` (line by line); only `Record` touches the buffer, and it shifts it by one when it is full |
| `LinesKeepTheirPlaces` | `Spec => []PlacesInv` | the invariant the next two need, in the parts below |
| `RepeatsCorrect` | `Spec => []RepeatsOnlyAtTheSeam` | two equal or reversed lines of one reader cannot both be in the copy (`LinesInOrder`) nor both behind it (`RestByPlace`); across the seam `SeamInOrder` leaves only an equal one |
| `MissesCorrect` | `Spec => []MissesOnlyTheGap` | a line that was recorded after the copy and published was not published before the copy (`SeamInOrder`), so it was published between the copy and the subscription or, if the receiver has passed it, it is in the stream (`NothingSkipped`) |

`PlacesInv` says where each line of each stream is. It is inductive with `TypeOK`
and `TailByPlace`:

* `LinesInOrder`: the lines of one reader are recorded in the order of their
  numbers, and published so; the line it has in hand comes after all of them.
  Without the second half `Record` and `Publish` would not keep the first.
* `MarksInOrder`: what was recorded at the copy, what was sent at the copy, at
  the subscription, and what the receiver has gone past, stand in this order.
* `SeamInOrder`: what was recorded before the copy is not later, line for line,
  than what its reader published after it; and what was recorded after the copy
  was not published before it. This is the only part in which the order of the
  two steps of a reader (record, publish) meets the order of the two steps of a
  call (copy, subscribe).
* `StreamByPlace`: a stream is the last lines recorded before the copy
  (`CopyByPlace`), and then lines published after the copy, in their order
  (`RestByPlace`), without a gap if the receiver never lagged (`NothingSkipped`).

Only model-checked: the liveness properties (`CallReturns`, `ExitNoticed`,
`CrashIsRepaired`, `ShutdownCompletes`, `ChildNeverBlocks`, `FollowerCatchesUp`,
`EveryCommandIsAnswered`, `ExitsAreHandled`, `DoomedDaemonsEnd`,
`ConnectionsAreServed`) and the fairness part of the refinement
(`ImplementsFairLifecycle`). They need `ENABLED`, which is out of the prover's
reach; for `CallReturns` the theorem `LoopsMakeProgress` leaves only that a step is
enabled until the call has returned, and for `EveryCommandIsAnswered`
`LockIsNeverStuck` shows that the queue of the lock has a front and its holder a
step to take. That each configuration has a discovery and a
resolved order is proved of those the loops reach, not by an induction over the
configuration.

## 5. Where the code and what is said of it differ

Each of the first five is a run that TLC finds violated, in the order of
`PROJECT.json`; the last is a run that passes, on a property the documents deny.

* `MCDependenciesLeftAlone`: exit of a child, stop, start, and only then the
  handling of the exit: the flag of the new child is cleared, and the next start
  that brings the program in spawns a second one.
* `MCSigterm`: a stop after the child was reaped and before its exit is handled
  signals the pid, which another program has got meanwhile.
* `MCLeftBehind`: a `RestartRequested` queued before the shutdown is handled
  after `stop_all`, before the event loop is aborted; its child is left behind.
* `MCStoppedIsStopped`: a stop that finds the flag down answers that the
  program was stopped, and the queued exit or the pending timer starts it again.
* `MCAlwaysDrained`: with `log_forward`, a line that is not UTF-8 ends the
  reader while the child still writes; the pipe is no longer drained and its
  next write fails.
* `MCStartOrder`, `OrderIsThePermutedClosure`: the order holds every program the
  root reaches through "after" and "wants", so a program named only in an "after"
  list is started with the one that names it (`process.rs`:204-224).
  `README.md`:102-104 ("on its own it never causes anything to start") and
  `config.rs`:83-87 ("never starts anything by itself") say it is not; the comment
  on `resolve_start_order` says it is. The model does what the code does, and
  `OrderIsComplete` proves it of every configuration.

Seen while modelling, and without a run of their own:

* a cycle also costs the programs that merely wait for it their place, though
  their own "after" entries lie on no cycle: `AfterIsRespectedOffCycles` says
  exactly who keeps it;
* the server binds a vsock transport to every CID, whatever `vsock_cid` says
  (`Transport!Endpoint`);
* a Ctrl+C that arrives before a server task has been spawned is not told to it.

## 6. Not modelled

* Log formatting (`log_format.rs`): a function of one tracing record; it keeps no
  state and nothing depends on it.
* `ReloadConfig`, `Shutdown`, `StreamEvents` and the `reload` and `shutdown`
  commands: `unimplemented!()` before anything is changed.
* The protocol definition and the generated code; the examples.
* The deserialisation of the configuration: it is the work of the config crate,
  and the programs it yields are constants here. Only the `[transport]` table
  and its defaults are modelled, because `main` decides by them.
* The layout of what `cironctl` prints, and the versions, times and empty fields
  of the answers.
* In `Control` no timer fires while the loop has the lock, also not one that an
  earlier pass had set (`TimerFires`): its request is handled in the next pass
  and not in this one. To the clients the two look the same.
* In `Transport` two hosts are two endpoints: a bind that the kernel refuses
  because 0.0.0.0 has the port already, or the other way round, is not there
  (`Endpoint`). Such a server would fail like any other that cannot bind.
* A transport that cannot be chosen (a bad port, no transport at all) ends the
  daemon in the step that launches it: that nothing was started before is how
  `Launch` is written, and no property is about it.
* `Daemon` says when a daemon stops its programs, not what becomes of them: a
  child may well be left behind (`MCLeftBehind`).
* `Control` and `ProcessManager` are not composed: `Control` shows what
  the queue of the lock promises, `ProcessManager` assumes that as the fairness
  of `LoopWake`.

