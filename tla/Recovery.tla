------------------------------ MODULE Recovery ------------------------------
(***************************************************************************)
(* ProcessManager over several lives of the daemon.  Nothing is persisted, *)
(* children are not killed with their parent (no kill_on_drop, no          *)
(* PR_SET_PDEATHSIG), and only Ctrl+C is handled: a SIGTERM, a SIGKILL or  *)
(* the out-of-memory killer ends the daemon between any two steps, and the *)
(* next one boots with an empty table among the children of the last.      *)
(***************************************************************************)
EXTENDS ProcessManager

CONSTANT MaxLives   \* how many times the daemon is started

ASSUME LivesAssumption == MaxLives \in Nat

VARIABLES
  life,       \* the lives begun so far
  inherited,  \* history: the pids that hold a child of an earlier life
  calm,       \* history: no stop has begun in this life
  raced       \* history: the programs an exit was to be handled of while their flag
              \* was down, until they have neither a monitor, an exit nor a flag

history == <<life, inherited, calm, raced>>
recoveryVars == <<vars, history>>

Owned == {i \in Pids : owner[i] # NoProg}

RecoveryTypeOK ==
  /\ TypeOK
  /\ life \in Nat
  /\ inherited \subseteq Owned
  /\ calm \in BOOLEAN
  /\ raced \subseteq Programs

RecoveryInit == Init /\ life = 1 /\ inherited = {} /\ calm = TRUE /\ raced = {}

\* The children a monitor task waits for, and a program nothing is left of.
Watched(p) == {i \in watched : owner[i] = p}
Stale(p) == p \notin running /\ ExitComing(p)
Quiet(p) == p \notin running /\ ~ ExitComing(p) /\ Watched(p) = {}

\* A step of the daemon, of a child or of a client, observed.
Step ==
  /\ Next
  /\ inherited' = inherited \cap Owned'
  /\ calm' = (calm /\ step' # "stopping")
  /\ raced' = {p \in Programs : (p \in raced \/ Stale(p)') /\ ~ Quiet(p)'}
  /\ UNCHANGED life

\* The daemon is killed: its memory and its tasks go, its children stay.
Crash ==
  /\ up
  /\ up' = FALSE
  /\ running' = {} /\ pid' = [p \in Programs |-> NoPid]
  /\ events' = <<>> /\ timers' = [p \in Programs |-> 0]
  /\ Release("free") /\ left' = {}
  /\ watched' = {} /\ report' = [i \in Pids |-> NoReport]
  /\ UNCHANGED <<open, owner, state, history>>

\* It is started again, as Init has it, but for the children it finds.
Reboot ==
  /\ ~ up /\ life < MaxLives
  /\ up' = TRUE
  /\ running' = {} /\ pid' = [p \in Programs |-> NoPid]
  /\ events' = <<>> /\ open' = TRUE /\ timers' = [p \in Programs |-> 0]
  /\ Release("boot") /\ left' = Autostart
  /\ life' = life + 1 /\ inherited' = Owned /\ calm' = TRUE /\ raced' = {}
  /\ UNCHANGED kernel

RecoveryNext == Step \/ Crash \/ Reboot

RecoverySpec == RecoveryInit /\ [][RecoveryNext]_recoveryVars

-----------------------------------------------------------------------------
(***************************************************************************)
(* A child of an earlier life is never signalled: the table of a life      *)
(* names only pids that were free when its own spawns got them, so neither *)
(* a stop nor the final stop of a later daemon reaches a survivor, however *)
(* late the entries of its own dead children are cleared (process.rs:416). *)
(***************************************************************************)
SurvivorsAreLeftAlone ==
  [][\A i \in inherited : state[i] = "up" => state'[i] # "term"]_recoveryVars

(***************************************************************************)
(* In every life, until something is stopped, a program has at most one    *)
(* child of this life, and its flag is up exactly while it has one or the  *)
(* exit of the last one to be handled (the running test, process.rs:312).  *)
(* With the survivors a program then has at most one child per life: that  *)
(* is all the code gives after a crash, for a new daemon starts again what *)
(* is still running.                                                       *)
(***************************************************************************)
OwnInstances(p) == Instances(p) \ inherited

OneOwnInstanceOf(p) ==
  /\ \A i, j \in OwnInstances(p) : i = j
  /\ OneExit(p)
  /\ OwnInstances(p) = {} \/ ~ ExitComing(p)
  /\ p \in running <=> OwnInstances(p) # {} \/ ExitComing(p)
  /\ \A i \in OwnInstances(p) : pid[p] = i /\ i \in watched

OneInstancePerLife ==
  calm /\ open /\ up => \A p \in Programs : OneOwnInstanceOf(p)

(***************************************************************************)
(* After a stop, too.  A child of this life that runs on has a monitor, or *)
(* it has been sent SIGTERM.  And a program has one monitor, on the child  *)
(* of its entry, or one exit of that child to be handled, never both, and  *)
(* its flag is up with either.  The one excuse is an exit that its monitor *)
(* had seen (process.rs:384) when a stop cleared the entry: whether it was *)
(* queued by then or is sent after the next start (:387), it clears a flag *)
(* that is not its own (:468).  When nothing is left of it, it excuses no  *)
(* more.                                                                   *)
(***************************************************************************)
OneMonitorOf(p) ==
  /\ \A i, j \in Watched(p) : i = j
  /\ OneExit(p)
  /\ Watched(p) = {} \/ ~ ExitComing(p)
  /\ Watched(p) # {} \/ ExitComing(p) => p \in running
  /\ \A i \in Watched(p) : pid[p] = i

OneMonitorPerProgram ==
  /\ up => \A i \in Owned \ inherited : state[i] = "up" => i \in watched
  /\ \A p \in Programs \ raced : OneMonitorOf(p)

=============================================================================
