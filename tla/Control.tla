------------------------------ MODULE Control ------------------------------
(***************************************************************************)
(* cironctl and the handlers of grpc_server.rs over the manager's tokio    *)
(* RwLock: readers (GetStatus, GetProcessStatus, GetLogs) share it, writers *)
(* (Start-, Stop-, RestartProcess and the event loop) have it alone, and   *)
(* all of them queue in the order they came.  The work done under the lock *)
(* is ProcessManager's, seen from the running flags only.                  *)
(***************************************************************************)
EXTENDS Naturals, Sequences

CONSTANTS
  Clients,   \* cironctl processes, each running one command after another
  Loop,      \* the event loop
  Programs,
  Unknown,   \* a name no program has
  Calls,     \* the commands that are run
  Brings,    \* per program, the units of its start order
  MayFail,   \* programs whose spawn can fail
  Restarts,  \* programs whose restart policy is not "never"
  Forwarded  \* programs with log_forward

Reads == {"status", "get", "logs"}
Writes == {"start", "stop", "restart"}
Call == [op : Reads \cup Writes, name : Programs \cup {Unknown}]
NoCall == [op |-> "none", name |-> Unknown]
Parties == Clients \cup {Loop}

ASSUME ControlAssumption ==
  /\ Loop \notin Clients /\ Unknown \notin Programs
  /\ Calls \subseteq Call
  /\ Brings \in [Programs -> SUBSET Programs]
  /\ \A p \in Programs : p \in Brings[p]
  /\ MayFail \cup Restarts \cup Forwarded \subseteq Programs

VARIABLES
  running,   \* the programs marked running
  exited,    \* programs with an Exited in the channel
  due,       \* programs with a restart timer
  again,     \* programs with a RestartRequested in the channel
  waiting,   \* the RwLock: who waits for it
  ahead,     \* per party, those that wait and came before it
  holders,   \* who has it
  call,      \* per client, the request it waits for an answer to, or NoCall
  phase,     \* where the work of the writer is
  target, todo, result,   \* its program, units to start, and root_result
  printed,   \* per client, what its last command has printed
  before     \* history: the flags when the client that writes got the lock

manager == <<running, exited, due, again>>
rwlock == <<waiting, ahead, holders>>
work == <<phase, target, todo, result>>
vars == <<manager, rwlock, call, work, printed, before>>

Words == {"nothing", "Success", "Failed", "status", "lines", "error"}
Says(word) == [word |-> word, up |-> {}, down |-> {}]
Reply == [word : Words, up : SUBSET Programs, down : SUBSET Programs]

Writer(x) == x = Loop \/ call[x].op \in Writes

ManagerType ==
  /\ running \subseteq Programs /\ exited \subseteq Programs
  /\ due \subseteq Programs /\ again \subseteq Programs
  /\ before \subseteq Programs

\* Nobody waits for a lock it has, and only then for somebody ahead of it.
LockType ==
  /\ waiting \subseteq Parties
  /\ holders \subseteq Parties \ waiting
  /\ ahead \in [Parties -> SUBSET Parties]
  /\ \A x \in Parties : ahead[x] \subseteq waiting \ {x}
  /\ \A x \in Parties \ waiting : ahead[x] = {}

CallType ==
  /\ call \in [Clients -> Call \cup {NoCall}]
  /\ \A c \in Clients : call[c] = NoCall <=> c \notin waiting \cup holders
  /\ printed \in [Clients -> Reply]

WorkType ==
  /\ phase \in {"idle", "starting", "stopping", "sleeping"}
  /\ target \in Programs \cup {Unknown}
  /\ phase # "idle" => target \in Programs
  /\ todo \subseteq Programs
  /\ result \in {"none", "ok", "error"}

TypeOK == ManagerType /\ LockType /\ CallType /\ WorkType

Init ==
  /\ running = {} /\ exited = {} /\ due = {} /\ again = {} /\ before = {}
  /\ waiting = {} /\ holders = {} /\ ahead = [x \in Parties |-> {}]
  /\ call = [c \in Clients |-> NoCall]
  /\ phase = "idle" /\ target = Unknown /\ todo = {} /\ result = "none"
  /\ printed = [c \in Clients |-> Says("nothing")]

-----------------------------------------------------------------------------
(* The RwLock.                                                             *)

Join(x) ==
  /\ waiting' = waiting \cup {x}
  /\ ahead' = [ahead EXCEPT ![x] = waiting]

\* x waits no longer, and nobody behind it does so for it.
Gone(x) ==
  /\ waiting' = waiting \ {x}
  /\ ahead' = [y \in Parties |-> IF y = x THEN {} ELSE ahead[y] \ {x}]

\* Readers keep out writers, a writer keeps out everybody.
Compatible(x) ==
  \A y \in holders : ~ Writer(x) /\ ~ Writer(y)

\* The lock is handed to the first in the queue.
Granted(x) ==
  /\ x \in waiting /\ ahead[x] = {} /\ Compatible(x)
  /\ Gone(x)
  /\ holders' = holders \cup {x}

Leave(x) == holders' = holders \ {x} /\ UNCHANGED <<waiting, ahead>>

-----------------------------------------------------------------------------
(* A command of cironctl: a request, its handler, and the answer.          *)

\* The request is sent and its handler waits for the lock.
Run(c) ==
  /\ call[c] = NoCall
  /\ \E k \in Calls : call' = [call EXCEPT ![c] = k]
  /\ Join(c) /\ UNCHANGED holders
  /\ printed' = [printed EXCEPT ![c] = Says("nothing")]
  /\ UNCHANGED <<manager, work, before>>

EnterReader(c) ==
  /\ c \in waiting /\ ~ Writer(c) /\ Granted(c)
  /\ UNCHANGED <<manager, call, work, printed, before>>

\* self.manager.write().await has returned: the call of the manager begins.
EnterWriter(c) ==
  /\ c \in waiting /\ Writer(c) /\ Granted(c)
  /\ target' = call[c].name
  /\ phase' = IF call[c].name = Unknown THEN "idle"
              ELSE IF call[c].op = "start" THEN "starting" ELSE "stopping"
  /\ todo' = IF phase' = "starting" THEN Brings[call[c].name] ELSE {}
  /\ result' = "none"
  /\ before' = running
  /\ UNCHANGED <<manager, call, printed>>

\* The work of a writer is over, or there was none.
WorkDone ==
  phase' = "idle" /\ target' = Unknown /\ todo' = {} /\ result' = "none"

\* Fault: the response is sent with the lock in hand.
AnsweredInHand(c, reply) ==
  /\ WorkDone /\ before' = {}
  /\ call' = [call EXCEPT ![c] = NoCall]
  /\ printed' = [printed EXCEPT ![c] = reply]
  /\ UNCHANGED rwlock

\* The response is sent, and cironctl prints it and ends.
Answered(c, reply) ==
  /\ Leave(c) /\ WorkDone /\ before' = {}
  /\ call' = [call EXCEPT ![c] = NoCall]
  /\ printed' = [printed EXCEPT ![c] = reply]

\* The daemon's numbers for a state, and the names cironctl has for them.
StateNumber(p) == IF p \in running THEN 3 ELSE 1
StateName == <<"STOPPED", "STARTING", "RUNNING", "STOPPING", "FAILED", "EXITED">>

Printed(names) ==
  [word |-> "status",
   up |-> {p \in names : StateName[StateNumber(p)] = "RUNNING"},
   down |-> {p \in names : StateName[StateNumber(p)] = "STOPPED"}]

GetStatus(c) ==
  /\ c \in holders /\ call[c].op = "status"
  /\ Answered(c, Printed(Programs))
  /\ UNCHANGED manager

GetProcessStatus(c) ==
  /\ c \in holders /\ call[c].op = "get"
  /\ Answered(c, IF call[c].name = Unknown THEN Says("error")
                 ELSE Printed({call[c].name}))
  /\ UNCHANGED manager

\* The copy and the subscription are made under the lock, the stream is not.
GetLogs(c) ==
  /\ c \in holders /\ call[c].op = "logs"
  /\ Answered(c, Says(IF call[c].name \in Forwarded THEN "lines" ELSE "error"))
  /\ UNCHANGED manager

NotFound(c) ==
  /\ c \in holders /\ call[c].op \in Writes /\ call[c].name = Unknown
  /\ Answered(c, Says("Failed"))
  /\ UNCHANGED manager

-----------------------------------------------------------------------------
(* The work of the writer: start_process, stop_process, restart_process.   *)

\* Fault: the result of the last unit is the result of the call.
StartUnitForTheLast(u) ==
  /\ phase = "starting" /\ u \in todo
  /\ todo' = todo \ {u}
  /\ \/ running' = running \cup {u}
     \/ u \in MayFail \ running /\ running' = running
  /\ result' = IF u \in running' THEN "ok" ELSE "error"
  /\ UNCHANGED <<exited, due, again, rwlock, call, phase, target, printed, before>>

\* One unit of the start order: it runs already, comes up, or fails.
StartUnit(u) ==
  /\ phase = "starting" /\ u \in todo
  /\ todo' = todo \ {u}
  /\ \/ running' = running \cup {u}
     \/ u \in MayFail \ running /\ running' = running
  /\ result' = IF u # target THEN result
               ELSE IF u \in running' THEN "ok" ELSE "error"
  /\ UNCHANGED <<exited, due, again, rwlock, call, phase, target, printed, before>>

StartDone(c) ==
  /\ phase = "starting" /\ todo = {} /\ c \in holders
  /\ Answered(c, Says(IF result = "ok" THEN "Success" ELSE "Failed"))
  /\ UNCHANGED manager

StopDone(c) ==
  /\ phase = "stopping" /\ c \in holders /\ call[c].op = "stop"
  /\ running' = running \ {target}
  /\ Answered(c, Says("Success"))
  /\ UNCHANGED <<exited, due, again>>

\* restart_process goes to sleep with the lock in its hands.
StopForRestart(c) ==
  /\ phase = "stopping" /\ c \in holders /\ call[c].op = "restart"
  /\ running' = running \ {target}
  /\ phase' = "sleeping"
  /\ UNCHANGED <<exited, due, again, rwlock, call, target, todo, result, printed, before>>

SleepDone ==
  /\ phase = "sleeping"
  /\ phase' = "starting" /\ todo' = Brings[target] /\ result' = "none"
  /\ UNCHANGED <<manager, rwlock, call, target, printed, before>>

\* cironctl is interrupted: its handler is dropped where it awaits, in the
\* queue or in the sleep of a restart.
HangUp(c) ==
  /\ \/ c \in waiting /\ Gone(c) /\ UNCHANGED <<holders, work, before>>
     \/ /\ c \in holders /\ phase = "sleeping"
        /\ Leave(c) /\ WorkDone /\ before' = {}
  /\ call' = [call EXCEPT ![c] = NoCall]
  /\ UNCHANGED <<manager, printed>>

-----------------------------------------------------------------------------
(* The event loop, the children and the timers.                            *)

\* Fault: the loop takes the lock only when it finds it free (try_write).
LoopTries ==
  /\ Loop \notin holders /\ waiting = {} /\ holders = {}
  /\ Join(Loop)
  /\ UNCHANGED <<holders, manager, call, work, printed, before>>

LoopWakes ==
  /\ Loop \notin waiting \cup holders
  /\ Join(Loop)
  /\ UNCHANGED <<holders, manager, call, work, printed, before>>

EnterLoop ==
  /\ Granted(Loop)
  /\ UNCHANGED <<manager, call, work, printed, before>>

\* Fault: the loop has dropped the lock before it handles the event.
LoopWithoutLock == Loop \notin waiting

LoopBetweenEvents == Loop \in holders /\ phase = "idle"

\* Whether a restart follows also depends on the exit code.
LoopExited(p) ==
  /\ LoopBetweenEvents /\ p \in exited
  /\ exited' = exited \ {p}
  /\ running' = running \ {p}
  /\ \/ p \in Restarts /\ due' = due \cup {p}
     \/ due' = due
  /\ UNCHANGED <<again, rwlock, call, work, printed, before>>

LoopRestart(p) ==
  /\ LoopBetweenEvents /\ p \in again
  /\ again' = again \ {p}
  /\ phase' = "starting" /\ target' = p /\ todo' = Brings[p] /\ result' = "none"
  /\ UNCHANGED <<running, exited, due, rwlock, call, printed, before>>

LoopRestarted ==
  /\ Loop \in holders /\ phase = "starting" /\ todo = {}
  /\ WorkDone
  /\ UNCHANGED <<manager, rwlock, call, printed, before>>

\* Fault: the loop awaits its restart timers with the lock in its hands.
LoopAwaitsTimers ==
  /\ LoopBetweenEvents /\ exited = {} /\ again = {} /\ due = {}
  /\ Leave(Loop)
  /\ UNCHANGED <<manager, call, work, printed, before>>

LoopSleeps ==
  /\ LoopBetweenEvents /\ exited = {} /\ again = {}
  /\ Leave(Loop)
  /\ UNCHANGED <<manager, call, work, printed, before>>

\* A child exits and its monitor reports it.
Exit(p) ==
  /\ p \in running \ exited
  /\ exited' = exited \cup {p}
  /\ UNCHANGED <<running, due, again, rwlock, call, work, printed, before>>

\* The two seconds of a timer outlast the pass of the loop that set it.  The
\* guard holds back the timers of earlier passes too, which may fire in this one:
\* their requests are then handled in this pass and not, as here, in the next.
TimerFires(p) ==
  /\ p \in due /\ Loop \notin holders
  /\ due' = due \ {p} /\ again' = again \cup {p}
  /\ UNCHANGED <<running, exited, rwlock, call, work, printed, before>>

-----------------------------------------------------------------------------
Handler(c) ==
  \/ GetStatus(c) \/ GetProcessStatus(c) \/ GetLogs(c) \/ NotFound(c)
  \/ StartDone(c) \/ StopDone(c) \/ StopForRestart(c)

Enter == EnterLoop \/ \E c \in Clients : EnterReader(c) \/ EnterWriter(c)

LoopPass ==
  \/ LoopRestarted \/ LoopSleeps
  \/ \E p \in Programs : LoopExited(p) \/ LoopRestart(p)

Next ==
  \/ \E c \in Clients : Run(c) \/ Handler(c) \/ HangUp(c)
  \/ Enter \/ SleepDone \/ LoopWakes \/ LoopPass
  \/ \E p \in Programs : StartUnit(p) \/ Exit(p) \/ TimerFires(p)

Spec == Init /\ [][Next]_vars

(***************************************************************************)
(* Fairness: tokio runs every task that can go on, the lock is handed to   *)
(* the first that waits for it, and the sleeps end.  Clients need not run  *)
(* another command, nor hang up; children need not exit.                   *)
(***************************************************************************)
Fairness ==
  /\ WF_vars(Enter) /\ WF_vars(SleepDone) /\ WF_vars(LoopWakes) /\ WF_vars(LoopPass)
  /\ \A c \in Clients : WF_vars(Handler(c))
  /\ \A p \in Programs : WF_vars(StartUnit(p))

FairSpec == Spec /\ Fairness

-----------------------------------------------------------------------------
(***************************************************************************)
(* What a writer does is never seen half done: while the handler of a      *)
(* client writes nobody else has the lock, its phase belongs to its call,  *)
(* and the flags differ from those it found only in what it was asked for. *)
(* This holds over the sleep of a restart (process.rs:451) and whoever     *)
(* hangs up in the queue meanwhile.                                        *)
(***************************************************************************)
WritesAlone ==
  \A c \in holders \cap Clients : Writer(c) =>
    /\ holders = {c}
    /\ target = call[c].name
    /\ phase \in {"starting", "sleeping"} /\ call[c].op = "restart" =>
         /\ before \ {target} \subseteq running
         /\ running \subseteq (before \ {target}) \cup Brings[target]

(***************************************************************************)
(* Clients see an atomic manager: every command takes effect at once, and  *)
(* what GetStatus lists is the table between two of them, never the middle *)
(* of a restart or of a start with dependencies.                           *)
(***************************************************************************)
ClientWrites == \E c \in holders \cap Clients : Writer(c)

Atomic == INSTANCE AtomicManager WITH
            shown <- IF ClientWrites THEN before ELSE running,
            asked <- call

ImplementsAtomicManager == Atomic!Spec

(***************************************************************************)
(* ... and every command is answered or given up, however many others are  *)
(* run at the same time: readers cannot keep a writer out of the RwLock.   *)
(***************************************************************************)
EveryCommandIsAnswered == Atomic!FairSpec

(***************************************************************************)
(* The event loop gets its turn whatever the clients do (the lock is the   *)
(* only thing it waits for, main.rs:220), so every exit is taken note of.  *)
(* This is what ProcessManager takes from the RwLock as strong fairness.   *)
(***************************************************************************)
ExitsAreHandled == \A p \in Programs : p \in exited ~> p \notin exited

=============================================================================
