--------------------------- MODULE RecoveryProofs ---------------------------
(***************************************************************************)
(* What the manager keeps in every life of the daemon, whenever it is      *)
(* killed and however often it is started again: for any number of         *)
(* programs, pids and lives, any start orders, policies and requests.      *)
(***************************************************************************)
EXTENDS Recovery, SupervisionProofs

-----------------------------------------------------------------------------
(* A crash and a boot, seen from the invariants of one life.               *)

\* Both leave an empty table, an empty queue and an idle job.
LEMMA FreshStart ==
  ASSUME RecoveryTypeOK, Crash \/ Reboot
  PROVE  /\ running' = {} /\ events' = <<>> /\ step' = "idle"
         /\ pid' = [p \in Programs |-> NoPid] /\ watched' \subseteq watched
         /\ report' \in {report, [i \in Pids |-> NoReport]}
         /\ UNCHANGED <<owner, state>>
BY DEF Crash, Reboot, Release, kernel

\* They keep the type of every variable.
LEMMA FreshStartTyped ==
  ASSUME RecoveryTypeOK, Crash \/ Reboot
  PROVE  RecoveryTypeOK'
<1> USE DEF RecoveryTypeOK, TypeOK
<1>1. TableType'
  BY FreshStart DEF TableType
<1>2. KernelType'
  BY FreshStart DEF KernelType
<1>3. CASE Crash
  <2>1. ChannelType'
    BY <1>3 DEF Crash, ChannelType
  <2>2. JobType'
    BY <1>3, ConfigAssumption DEF Crash, Release, JobType
  <2>3. TaskType'
    BY <1>3 DEF Crash, TaskType
  <2>4. (life \in Nat /\ inherited \subseteq Owned /\ calm \in BOOLEAN /\ raced \subseteq Programs)'
    BY <1>3 DEF Crash, history, Owned
  <2> QED
    BY <1>1, <1>2, <2>1, <2>2, <2>3, <2>4
<1>4. CASE Reboot
  <2>1. ChannelType'
    BY <1>4 DEF Reboot, ChannelType
  <2>2. JobType'
    BY <1>4, ConfigAssumption DEF Reboot, Release, JobType
  <2>3. TaskType'
    BY <1>4 DEF Reboot, TaskType
  <2>4. (life \in Nat /\ inherited \subseteq Owned /\ calm \in BOOLEAN /\ raced \subseteq Programs)'
    BY <1>4 DEF Reboot, Owned, kernel
  <2> QED
    BY <1>1, <1>2, <2>1, <2>2, <2>3, <2>4
<1> QED
  BY <1>3, <1>4

\* An observed step keeps the type too.
LEMMA StepTyped == ASSUME RecoveryTypeOK, Step PROVE RecoveryTypeOK'
<1>1. TypeOK'
  BY TypeStep DEF RecoveryTypeOK, Step
<1>2. (life \in Nat /\ inherited \subseteq Owned /\ calm \in BOOLEAN /\ raced \subseteq Programs)'
  BY DEF RecoveryTypeOK, Step
<1> QED
  BY <1>1, <1>2 DEF RecoveryTypeOK

(***************************************************************************)
(* Type correctness holds in every life.                                   *)
(***************************************************************************)
THEOREM RecoveryTypeCorrect == RecoverySpec => []RecoveryTypeOK
<1>1. RecoveryInit => RecoveryTypeOK
  BY InitTyped DEF RecoveryInit, RecoveryTypeOK, Owned
<1>2. RecoveryTypeOK /\ [RecoveryNext]_recoveryVars => RecoveryTypeOK'
  <2>1. ASSUME RecoveryTypeOK, UNCHANGED recoveryVars PROVE RecoveryTypeOK'
    <3>1. TypeOK'
      BY <2>1, TypeStep DEF RecoveryTypeOK, recoveryVars
    <3> QED
      BY <2>1, <3>1
      DEF RecoveryTypeOK, recoveryVars, history, vars, kernel, Owned
  <2> QED
    BY <2>1, FreshStartTyped, StepTyped DEF RecoveryNext
<1> QED
  BY <1>1, <1>2, PTL DEF RecoverySpec

-----------------------------------------------------------------------------
(* What holds in one life holds in each.                                   *)

\* The invariants of the manager, and that its table names no survivor.
LivesInv ==
  /\ NoLostExit /\ JobInv
  /\ \A p \in Programs : pid[p] \notin inherited

\* A spawn takes a pid nobody has, so none of a survivor.
LEMMA PidsAreOwn ==
  ASSUME RecoveryTypeOK, LivesInv, Step, NEW p \in Programs
  PROVE  pid'[p] \notin inherited'
<1>1. ASSUME NEW u \in Programs, NEW i \in Pids, SpawnUnit(u, i)
      PROVE  pid'[p] \notin inherited'
  <2>1. owner[i] = NoProg
    BY <1>1 DEF SpawnUnit, RecoveryTypeOK, TypeOK, KernelType
  <2>2. i \notin inherited
    BY <2>1 DEF RecoveryTypeOK, Owned
  <2>3. pid' = [pid EXCEPT ![u] = i] /\ inherited' \subseteq inherited
    BY <1>1 DEF SpawnUnit, Step
  <2> QED
    BY <2>2, <2>3 DEF RecoveryTypeOK, TypeOK, TableType, LivesInv
<1>2. CASE Forget
  <2>1. pid'[p] \in {pid[p], NoPid} /\ inherited' \subseteq inherited
    BY <1>2 DEF Forget, Step, RecoveryTypeOK, TypeOK, TableType
  <2>2. NoPid \notin inherited
    BY ConfigAssumption DEF RecoveryTypeOK, Owned
  <2> QED
    BY <2>1, <2>2 DEF LivesInv
<1>3. CASE UNCHANGED pid
  BY <1>3 DEF LivesInv, Step
<1>4. (\E u \in Programs, i \in Pids : SpawnUnit(u, i)) \/ Forget \/ UNCHANGED pid
  BY DEF Step, Next, BootStep, BootDone, BootStart, StartStep, SkipUnit,
     SpawnFails, StartDone, StopStep, StopNotRunning, Kill, LoopStep,
     HandleStarted, HandleExited, HandleFailed, HandleRestart, LoopSleep,
     StopAllStep, StopAllNext, StopAllDone, Request, StartRequest, StopRequest,
     RestartRequest, SleepDone, SleepCancelled, LoopWake, ShutdownBegin,
     DaemonExit, Child, ChildExit, Reap, WaitFails, Sees, Report, OrphanReap, TimerFires,
     Ended, vars, table
<1> QED
  BY <1>1, <1>2, <1>3, <1>4

\* One step of the daemon, or of its fate.
LEMMA LivesStep ==
  RecoveryTypeOK /\ LivesInv /\ [RecoveryNext]_recoveryVars => LivesInv'
<1> SUFFICES ASSUME RecoveryTypeOK, LivesInv, [RecoveryNext]_recoveryVars
             PROVE  LivesInv'
  OBVIOUS
<1>1. CASE Step
  <2>1. NoLostExit' /\ JobInv'
    BY <1>1, NoLostExitStep, JobInvStep DEF Step, RecoveryTypeOK, LivesInv
  <2> QED
    BY <1>1, <2>1, PidsAreOwn DEF LivesInv
<1>2. CASE Crash \/ Reboot
  <2>1. JobInv'
    BY <1>2, FreshStart, IdleJob
  <2>2. NoLostExit'
    BY <1>2, FreshStart DEF NoLostExit
  <2>3. ASSUME NEW p \in Programs PROVE pid'[p] \notin inherited'
    <3>1. pid'[p] = NoPid /\ inherited' \subseteq Pids
      BY <1>2, FreshStart DEF RecoveryTypeOK, Crash, Reboot, history, Owned
    <3> QED
      BY <3>1, ConfigAssumption
  <2> QED
    BY <2>1, <2>2, <2>3 DEF LivesInv
<1>3. CASE UNCHANGED recoveryVars
  <2>1. NoLostExit' /\ JobInv'
    BY <1>3, NoLostExitStep, JobInvStep DEF recoveryVars, RecoveryTypeOK, LivesInv
  <2>2. UNCHANGED <<pid, inherited>>
    BY <1>3 DEF recoveryVars, vars, table, history
  <2> QED
    BY <2>1, <2>2 DEF LivesInv
<1> QED
  BY <1>1, <1>2, <1>3 DEF RecoveryNext

\* The first life begins with nothing.
LEMMA LivesBegin == RecoveryInit => LivesInv
BY ConfigAssumption
DEF RecoveryInit, Init, LivesInv, NoLostExit, JobInv, SignalledPidIsDown,
    RootComesOrIsDone, RestartNotPreempted

\* Together, in every life.
LEMMA LivesKeepTheirInvariant == RecoverySpec => []LivesInv
BY LivesBegin, LivesStep, RecoveryTypeCorrect, PTL DEF RecoverySpec

(***************************************************************************)
(* The promises of one life hold in every life: no exit is lost, a stop    *)
(* reaches its own program, a restart is not overtaken and the answer of a *)
(* start is true, whenever the daemon was killed before.                   *)
(***************************************************************************)
THEOREM EveryLifeIsSafe ==
  RecoverySpec =>
    [](NoLostExit /\ StopHitsItsProgram /\ RestartNotPreempted /\ StartReplyTruthful)
<1>1. RecoveryTypeOK /\ LivesInv =>
        NoLostExit /\ StopHitsItsProgram /\ RestartNotPreempted /\ StartReplyTruthful
  BY DEF RecoveryTypeOK, TypeOK, KernelType, LivesInv, JobInv, SignalledPidIsDown,
     NoLostExit, Tracked, StopHitsItsProgram, RootComesOrIsDone, StartReplyTruthful
<1> QED
  BY <1>1, RecoveryTypeCorrect, LivesKeepTheirInvariant, PTL

(***************************************************************************)
(* No daemon signals a child of an earlier one: a signal goes to the pid   *)
(* of an entry, and no entry names a survivor (process.rs:416-422).        *)
(***************************************************************************)
THEOREM SurvivorsAreSafe == RecoverySpec => SurvivorsAreLeftAlone
<1>1. RecoveryTypeOK /\ LivesInv /\ [RecoveryNext]_recoveryVars
        => [\A i \in inherited : state[i] = "up" => state'[i] # "term"]_recoveryVars
  <2>1. ASSUME RecoveryTypeOK, LivesInv, Step, NEW i \in inherited, state[i] = "up"
        PROVE  state'[i] # "term"
    <3>1. i \in Pids
      BY <2>1 DEF RecoveryTypeOK, Owned
    <3>2. CASE Kill
      <4>1. i # pid[target]
        BY <2>1, <3>2 DEF Kill, RecoveryTypeOK, TypeOK, TableType, LivesInv
      <4> QED
        BY <2>1, <3>1, <3>2, <4>1 DEF Kill
    <3>3. CASE ~ Kill
      <4>1. \/ state' = state
            \/ \E j \in Pids, s \in {"up", "free"} \cup Zombie :
                 state' = [state EXCEPT ![j] = s]
        BY <2>1, <3>3, ConfigAssumption
        DEF Zombie, Step, Next, BootStep, BootDone, BootStart, StartStep, SkipUnit,
            SpawnFails, SpawnUnit, StartDone, StopStep, StopNotRunning, Forget,
            LoopStep, HandleStarted, HandleExited, HandleFailed, HandleRestart,
            LoopSleep, StopAllStep, StopAllNext, StopAllDone, Request,
            StartRequest, StopRequest, RestartRequest, SleepDone,
            SleepCancelled, LoopWake, ShutdownBegin, DaemonExit, Child,
            ChildExit, Reap, WaitFails, Sees, Report, OrphanReap, FreePid, TimerFires, Ended,
            vars, kernel
      <4> QED
        BY <2>1, <3>1, <4>1 DEF RecoveryTypeOK, TypeOK, KernelType, Zombie
    <3> QED
      BY <3>2, <3>3
  <2>2. ASSUME RecoveryTypeOK, Crash \/ Reboot, NEW i \in inherited, state[i] = "up"
        PROVE  state'[i] # "term"
    BY <2>2, FreshStart
  <2> QED
    BY <2>1, <2>2 DEF RecoveryNext
<1> QED
  BY <1>1, RecoveryTypeCorrect, LivesKeepTheirInvariant, PTL
  DEF RecoverySpec, SurvivorsAreLeftAlone

-----------------------------------------------------------------------------
(* One child per program and life.                                         *)

\* A life without a stop has no stop job; whoever has the lock is idle before
\* and after its job; a dead daemon watches nobody and has nothing to report, a
\* living one watches no survivor.
CalmInv ==
  /\ calm => step \in {"idle", "starting"}
  /\ lock = "free" => step = "idle"
  /\ ~ up => lock = "free" /\ watched = {} /\ \A i \in Pids : report[i] = NoReport
  /\ watched \cap inherited = {}

\* One observed step of it.
LEMMA CalmStep ==
  ASSUME RecoveryTypeOK, CalmInv, Step
  PROVE  CalmInv'
<1> USE DEF CalmInv
<1> KernelType /\ JobType /\ inherited' \subseteq inherited
  BY DEF RecoveryTypeOK, TypeOK, Step
<1>1. ASSUME NEW u \in Programs,
             \/ SkipUnit(u) \/ SpawnFails(u) \/ \E i \in Pids : SpawnUnit(u, i)
      PROVE  CalmInv'
  <2>1. step' = "starting" /\ up' /\ lock' # "free"
    BY <1>1 DEF SkipUnit, SpawnFails, SpawnUnit, UnitDone, Starting, Step
  <2>2. watched' \cap inherited' = {}
    BY <1>1
    DEF SkipUnit, SpawnFails, SpawnUnit, kernel, KernelType, RecoveryTypeOK, Owned
  <2> QED
    BY <2>1, <2>2
<1>2. CASE BootStep \/ StartDone \/ StopStep \/ StopAllStep \/ SleepDone \/ SleepCancelled
  <2>1. lock # "free" /\ up' = up /\ watched' \subseteq watched
    BY <1>2
    DEF BootStep, BootDone, BootStart, StartDone, StopStep, StopNotRunning, Kill,
        Forget, StopAllStep, StopAllNext, StopAllDone, SleepDone, SleepCancelled,
        kernel
  <2>2. lock' = "free" => step' = "idle"
    BY <1>2, <2>1
    DEF BootStep, BootDone, BootStart, StartDone, StopStep, StopNotRunning, Kill,
        Forget, StopAllStep, StopAllNext, StopAllDone, SleepDone, SleepCancelled,
        Release, Begin, AfterStop, NextHolder
  <2>3. calm' => step' \in {"idle", "starting"}
    BY <1>2
    DEF BootStep, BootDone, BootStart, StartDone, StopStep, StopNotRunning, Kill,
        Forget, StopAllStep, StopAllNext, StopAllDone, SleepDone, SleepCancelled,
        Release, Begin, Step
  <2> QED
    BY <2>1, <2>2, <2>3
<1>3. CASE LoopStep
  <2>1. lock # "free" /\ up' = up /\ watched' = watched
    BY <1>3
    DEF LoopStep, HandleStarted, HandleExited, HandleFailed, HandleRestart,
        LoopSleep, Handling, kernel
  <2>2. step' \in {"idle", "starting"} /\ (lock' = "free" => step' = "idle")
    BY <1>3, <2>1
    DEF LoopStep, HandleStarted, HandleExited, HandleFailed, HandleRestart,
        LoopSleep, Handling, Release, Begin, job
  <2> QED
    BY <2>1, <2>2
<1>4. CASE Request \/ LoopWake \/ ShutdownBegin
  <2>1. up /\ up' = up /\ watched' = watched /\ lock' # "free"
    BY <1>4
    DEF Request, StartRequest, StopRequest, RestartRequest, LoopWake,
        ShutdownBegin, Serving, kernel
  <2>2. calm' => step' \in {"idle", "starting"}
    BY <1>4
    DEF Request, StartRequest, StopRequest, RestartRequest, LoopWake,
        ShutdownBegin, Serving, Begin, Step
  <2> QED
    BY <2>1, <2>2
<1>5. CASE DaemonExit
  BY <1>5 DEF DaemonExit, job, Step
<1>6. CASE Child \/ (\E p \in Programs : TimerFires(p)) \/ UNCHANGED vars
  BY <1>6 DEF Child, ChildExit, Reap, WaitFails, Sees, Report, OrphanReap, FreePid, TimerFires,
     vars, job, kernel, Step
<1> QED
  BY <1>1, <1>2, <1>3, <1>4, <1>5, <1>6 DEF Step, Next, StartStep, Ended

\* So it holds in every life.
LEMMA CalmKept == RecoverySpec => []CalmInv
<1>1. RecoveryInit => CalmInv
  BY DEF RecoveryInit, Init, CalmInv
<1>2. ASSUME RecoveryTypeOK, CalmInv, Crash \/ Reboot PROVE CalmInv'
  <2>1. watched' = {}
    BY <1>2 DEF Crash, Reboot, CalmInv, kernel
  <2>2. ~ up' => \A i \in Pids : report'[i] = NoReport
    BY <1>2 DEF Crash, Reboot
  <2> QED
    BY <1>2, <2>1, <2>2, FreshStart DEF Crash, Reboot, Release, CalmInv
<1>3. ASSUME CalmInv, UNCHANGED recoveryVars PROVE CalmInv'
  BY <1>3 DEF CalmInv, recoveryVars, history, vars, job, kernel
<1>4. RecoveryTypeOK /\ CalmInv /\ [RecoveryNext]_recoveryVars => CalmInv'
  BY <1>2, <1>3, CalmStep DEF RecoveryNext
<1> QED
  BY <1>1, <1>4, RecoveryTypeCorrect, PTL DEF RecoverySpec

\* What is left of a step of a calm life that stays calm.
LEMMA CalmStepsThatCount ==
  ASSUME RecoveryTypeOK, CalmInv, Step, calm', open', up'
  PROVE  \/ \E u \in Programs, i \in Pids : SpawnUnit(u, i)
         \/ HandleStarted \/ HandleExited \/ HandleFailed \/ HandleRestart
         \/ Child
         \/ \E p \in Programs : TimerFires(p)
         \/ UNCHANGED <<table, channel, kernel>>
<1>1. calm /\ step' # "stopping" /\ step \in {"idle", "starting"}
  BY DEF Step, CalmInv
<1>2. ~ Kill /\ ~ Forget /\ ~ ShutdownBegin /\ ~ DaemonExit
  BY <1>1 DEF Kill, Forget, ShutdownBegin, DaemonExit
<1> QED
  BY <1>2
  DEF Step, Next, BootStep, BootDone, BootStart, StartStep, SkipUnit,
      SpawnFails, StartDone, StopStep, StopNotRunning, LoopStep, LoopSleep,
      StopAllStep, StopAllNext, StopAllDone, Request, StartRequest, StopRequest,
      RestartRequest, SleepDone, SleepCancelled, LoopWake, Ended, vars

\* A program that has no exit to be handled, or that has one.
LEMMA OwnExitsApart ==
  ASSUME NEW p, OneOwnInstanceOf(p)
  PROVE  /\ OwnInstances(p) # {} => Reports(p) = {} /\ ExitsQueued(p) = {}
         /\ Reports(p) # {} => OwnInstances(p) = {} /\ ExitsQueued(p) = {} /\ p \in running
         /\ ExitsQueued(p) # {} => OwnInstances(p) = {} /\ Reports(p) = {} /\ p \in running
BY DEF OneOwnInstanceOf, OneExit, ExitComing

\* A step that leaves the children, the reports and the queued exits of p, and its entry.
LEMMA OneOwnInstanceFrame ==
  ASSUME NEW p, OneOwnInstanceOf(p),
         UNCHANGED <<OwnInstances(p), Reports(p), ExitsQueued(p)>>,
         p \in running' <=> p \in running,
         \A i \in OwnInstances(p) : pid'[p] = pid[p] /\ (i \in watched => i \in watched')
  PROVE  OneOwnInstanceOf(p)'
BY DEF OneOwnInstanceOf, OneExit, ExitComing

\* One step, for one program: as in a life without predecessors, with the
\* survivors out of the count.
LEMMA OneOwnInstanceStep ==
  ASSUME RecoveryTypeOK, CalmInv, Step, calm', open', up', open,
         \A q \in Programs : OneOwnInstanceOf(q), NEW p \in Programs
  PROVE  OneOwnInstanceOf(p)'
<1> USE DEF RecoveryTypeOK, TypeOK
<1> OneOwnInstanceOf(p) /\ inherited' = inherited \cap Owned'
  BY DEF Step
<1>1. ASSUME NEW u \in Programs, NEW i \in Pids, SpawnUnit(u, i)
      PROVE  OneOwnInstanceOf(p)'
  <2>1. ExitsQueued(p)' = ExitsQueued(p)
    BY <1>1, OtherSent DEF SpawnUnit, EventKinds, ExitKinds
  <2>2. /\ owner[i] = NoProg /\ owner' = [owner EXCEPT ![i] = u]
        /\ i \notin inherited /\ u # NoProg
    BY <1>1, ConfigAssumption DEF SpawnUnit, KernelType, Owned
  <2>3. inherited' = inherited
    BY <2>2 DEF Owned, KernelType
  <2>4. CASE p = u
    <3>1. OwnInstances(p) = {} /\ ~ ExitComing(p)
      BY <1>1, <2>4 DEF SpawnUnit, OneOwnInstanceOf
    <3>2. OwnInstances(p)' = {i}
      BY <2>2, <2>3, <2>4, <3>1 DEF OwnInstances, Instances, KernelType
    <3>3. Reports(p)' = {} /\ ExitsQueued(p)' = {}
      BY <1>1, <2>1, <3>1 DEF SpawnUnit, ExitComing, Reports
    <3>4. p \in running' /\ pid'[p] = i /\ i \in watched'
      BY <1>1, <2>4 DEF SpawnUnit, TableType
    <3> QED
      BY <3>2, <3>3, <3>4 DEF OneOwnInstanceOf, OneExit, ExitComing
  <2>5. CASE p # u
    <3>0. p # NoProg /\ owner \in [Pids -> Programs \cup {NoProg}]
      BY ConfigAssumption DEF KernelType
    <3>1. OwnInstances(p)' = OwnInstances(p)
      <4>1. \A j \in Pids : owner'[j] = p <=> owner[j] = p
        BY <2>2, <2>5, <3>0
      <4> QED
        BY <2>3, <4>1 DEF OwnInstances, Instances
    <3> QED
      BY <1>1, <2>1, <2>5, <3>1, OneOwnInstanceFrame DEF SpawnUnit, TableType, Reports
  <2> QED
    BY <2>4, <2>5
<1>2. ASSUME HandleStarted \/ HandleExited \/ HandleFailed \/ HandleRestart
      PROVE  OneOwnInstanceOf(p)'
  <2>1. events # <<>> /\ events' = Tail(events) /\ UNCHANGED <<pid, kernel>>
    BY <1>2 DEF HandleStarted, HandleExited, HandleFailed, HandleRestart,
       Handling, table
  <2>2. OwnInstances(p)' = OwnInstances(p) /\ Reports(p)' = Reports(p)
    BY <2>1 DEF OwnInstances, Instances, Owned, Reports, kernel
  <2>3. Head(events) = events[1] /\ 1 \in DOMAIN events
    BY <2>1 DEF ChannelType
  <2>4. CASE 1 \in ExitsQueued(p)
    <3>1. OwnInstances(p) = {} /\ Reports(p) = {} /\ ExitsQueued(p) = {1}
      BY <2>4, OwnExitsApart DEF OneOwnInstanceOf, OneExit
    <3>2. ExitsQueued(p)' = {}
      BY <2>1, <3>1, FirstReceived DEF ExitsQueued, ChannelType
    <3>3. p \notin running'
      BY <1>2, <2>3, <2>4 DEF ExitsQueued, Exit, ExitKinds, HandleStarted,
         HandleExited, HandleFailed, HandleRestart, Handling
    <3> QED
      BY <2>2, <3>1, <3>2, <3>3 DEF OneOwnInstanceOf, OneExit, ExitComing
  <2>5. CASE 1 \notin ExitsQueued(p)
    <3>1. p \in running' <=> p \in running
      BY <1>2, <2>3, <2>5 DEF ExitsQueued, Exit, ExitKinds, HandleStarted,
         HandleExited, HandleFailed, HandleRestart, Handling, table
    <3>2. /\ \A n \in ExitsQueued(p)' : n + 1 \in ExitsQueued(p)
          /\ \A n \in ExitsQueued(p) : n - 1 \in ExitsQueued(p)'
      BY <2>1, <2>5, FirstReceived
    <3>3. ExitsQueued(p)' = {} <=> ExitsQueued(p) = {}
      BY <3>2
    <3>4. \A k, l \in ExitsQueued(p)' : k = l
      <4>1. Tail(events) \in Seq(Message)
        BY <2>1, HeadType
      <4>2. ExitsQueued(p)' \subseteq Nat
        BY <2>1, <4>1 DEF ExitsQueued
      <4> QED
        BY <3>2, <4>2 DEF OneOwnInstanceOf, OneExit
    <3> QED
      BY <2>1, <2>2, <3>1, <3>3, <3>4 DEF OneOwnInstanceOf, OneExit, ExitComing, kernel
  <2> QED
    BY <2>4, <2>5
<1>3. ASSUME NEW i \in Pids, ChildExit(i) PROVE OneOwnInstanceOf(p)'
  BY <1>3, OneOwnInstanceFrame
  DEF ChildExit, OwnInstances, Instances, Owned, Reports, ExitsQueued, Exit, table,
      channel
<1>4. ASSUME NEW i \in Pids, Reap(i) \/ WaitFails(i) PROVE OneOwnInstanceOf(p)'
  <2>1. PICK k \in ExitKinds : Sees(i, k)
    BY <1>4, LastPoll
  <2>2. i \in watched /\ FreePid(i) /\ UNCHANGED <<table, channel>>
    BY <2>1 DEF Sees
  <2>3. i \notin inherited /\ inherited' = inherited
    BY <2>2 DEF CalmInv, FreePid, Owned, KernelType
  <2>4. OwnInstances(p)' = OwnInstances(p) \ {i}
    BY <2>2, <2>3, ConfigAssumption DEF FreePid, OwnInstances, Instances, KernelType
  <2>5. ExitsQueued(p)' = ExitsQueued(p)
    BY <2>2 DEF ExitsQueued, Exit, channel
  <2>6. CASE owner[i] = p
    <3>1. OwnInstances(p) = {i} /\ p \in running
      BY <2>3, <2>6 DEF OneOwnInstanceOf, OwnInstances, Instances
    <3>2. Reports(p) = {} /\ ExitsQueued(p) = {}
      BY <3>1, OwnExitsApart
    <3>3. Reports(p)' = {i}
      BY <2>1, <2>6, <3>2, SeesMoves
    <3> QED
      BY <2>2, <2>4, <2>5, <3>1, <3>2, <3>3 DEF OneOwnInstanceOf, OneExit, ExitComing, table
  <2>7. CASE owner[i] # p
    <3>1. Reports(p)' = Reports(p)
      BY <2>1, <2>7, SeesMoves
    <3>2. OwnInstances(p)' = OwnInstances(p) /\ i \notin OwnInstances(p)
      BY <2>4, <2>7 DEF OwnInstances, Instances
    <3> QED
      BY <2>2, <2>5, <3>1, <3>2, OneOwnInstanceFrame DEF FreePid, table
  <2> QED
    BY <2>6, <2>7
<1>5. ASSUME NEW i \in Pids, OrphanReap(i) PROVE OneOwnInstanceOf(p)'
  <2>1. FreePid(i) /\ i \notin watched /\ owner[i] \in Programs
    BY <1>5 DEF OrphanReap, KernelType, Zombie
  <2>2. i \in inherited
    BY <2>1 DEF OneOwnInstanceOf, OwnInstances, Instances
  <2>3. OwnInstances(p)' = OwnInstances(p) /\ i \notin OwnInstances(p)
    <3>1. owner' = [owner EXCEPT ![i] = NoProg]
      BY <2>1 DEF FreePid
    <3>2. inherited' = inherited \ {i}
      BY <3>1 DEF Owned, KernelType
    <3> QED
      BY <2>2, <3>1, <3>2, ConfigAssumption DEF OwnInstances, Instances, KernelType
  <2>4. ExitsQueued(p)' = ExitsQueued(p) /\ UNCHANGED table
    BY <1>5 DEF OrphanReap, ExitsQueued, Exit, channel
  <2>5. Reports(p)' = Reports(p)
    BY <1>5 DEF OrphanReap, Reports
  <2> QED
    BY <2>1, <2>3, <2>4, <2>5, OneOwnInstanceFrame DEF FreePid, table
<1>6. ASSUME NEW q \in Programs, TimerFires(q) PROVE OneOwnInstanceOf(p)'
  <2>1. ExitsQueued(p)' = ExitsQueued(p)
    BY <1>6, OtherSent DEF TimerFires, EventKinds, ExitKinds
  <2> QED
    BY <1>6, <2>1, OneOwnInstanceFrame
    DEF TimerFires, OwnInstances, Instances, Owned, Reports, table, kernel
<1>7. ASSUME NEW i \in Pids, Report(i) PROVE OneOwnInstanceOf(p)'
  <2>1. PICK k \in ExitKinds, q \in Programs :
          /\ events' = Sent(events, Event(k, q)) /\ i \in Reports(q)
          /\ \A r \in Programs : Reports(r)' = Reports(r) \ {i}
          /\ report[i] = Event(k, q)
    BY <1>7, ReportMoves
  <2>2. OwnInstances(p)' = OwnInstances(p) /\ UNCHANGED <<table, watched>>
    BY <1>7 DEF Report, OwnInstances, Instances, Owned
  <2>3. CASE q = p
    <3>1. /\ Reports(p) = {i} /\ OwnInstances(p) = {} /\ ExitsQueued(p) = {}
          /\ p \in running
      BY <2>1, <2>3, OwnExitsApart DEF OneOwnInstanceOf, OneExit
    <3>2. ExitsQueued(p)' = {Len(events) + 1}
      BY <2>1, <2>3, <3>1, ExitSent
    <3> QED
      BY <2>1, <2>2, <3>1, <3>2 DEF OneOwnInstanceOf, OneExit, ExitComing, table
  <2>4. CASE q # p
    <3>1. ExitsQueued(p)' = ExitsQueued(p)
      BY <2>1, <2>4, OtherSent DEF EventKinds
    <3>2. i \notin Reports(p)
      BY <2>1, <2>4 DEF Reports, Event
    <3>3. Reports(p)' = Reports(p)
      BY <2>1, <3>2
    <3> QED
      BY <2>2, <3>1, <3>3, OneOwnInstanceFrame DEF table
  <2> QED
    BY <2>3, <2>4
<1>8. CASE UNCHANGED <<table, channel, kernel>>
  BY <1>8, OneOwnInstanceFrame
  DEF OwnInstances, Instances, Owned, Reports, ExitsQueued, Exit, table, channel, kernel
<1> QED
  BY <1>1, <1>2, <1>3, <1>4, <1>5, <1>6, <1>7, <1>8, CalmStepsThatCount DEF Child

(***************************************************************************)
(* Until something is stopped in it, a life of the daemon has at most one  *)
(* child of each program, whatever the lives before it left behind: the    *)
(* running test of start_process_single is enough, and all there is.       *)
(***************************************************************************)
THEOREM OneInstanceInEveryLife == RecoverySpec => []OneInstancePerLife
<1>1. ASSUME RecoveryInit PROVE OneInstancePerLife
  <2>1. ASSUME NEW p \in Programs PROVE OneOwnInstanceOf(p)
    <3>1. /\ OwnInstances(p) = {} /\ p \notin running
          /\ Reports(p) = {} /\ ExitsQueued(p) = {}
      BY <1>1, ConfigAssumption
      DEF RecoveryInit, Init, OwnInstances, Instances, Reports, NoReport, Event, ExitsQueued
    <3> QED
      BY <3>1 DEF OneOwnInstanceOf, OneExit, ExitComing
  <2> QED
    BY <2>1 DEF OneInstancePerLife
<1>2. ASSUME RecoveryTypeOK, CalmInv, OneInstancePerLife, Step
      PROVE  OneInstancePerLife'
  <2>1. ASSUME calm', open', up' PROVE calm /\ open /\ up
    <3>1. calm
      BY <2>1, <1>2 DEF Step
    <3>2. open /\ up
      BY <2>1, <1>2, CalmStepsThatCount
      DEF SpawnUnit, HandleStarted, HandleExited, HandleFailed, HandleRestart,
          Child, ChildExit, Reap, WaitFails, Sees, Report, OrphanReap, TimerFires, Step, Next,
          BootStep, BootDone, BootStart, StartStep, SkipUnit, SpawnFails,
          StartDone, StopStep, StopNotRunning, Kill, Forget, LoopStep, LoopSleep,
          StopAllStep, StopAllNext, StopAllDone, Request, StartRequest,
          StopRequest, RestartRequest, SleepDone, SleepCancelled, LoopWake,
          ShutdownBegin, DaemonExit, Ended, vars, channel
    <3> QED
      BY <3>1, <3>2
  <2> QED
    BY <1>2, <2>1, OneOwnInstanceStep DEF OneInstancePerLife
<1>3. ASSUME RecoveryTypeOK, CalmInv, Crash \/ Reboot PROVE OneInstancePerLife'
  <2>1. CASE Crash
    BY <2>1 DEF Crash, OneInstancePerLife
  <2>2. CASE Reboot
    <3>1. inherited' = Owned'
      BY <2>2 DEF Reboot, Owned, kernel
    <3>2. ASSUME NEW p \in Programs PROVE OneOwnInstanceOf(p)'
      <4>1. OwnInstances(p)' = {} /\ ExitsQueued(p)' = {} /\ p \notin running'
        BY <1>3, <3>1, FreshStart, ConfigAssumption
        DEF OwnInstances, Instances, Owned, ExitsQueued
      <4>2. Reports(p)' = {}
        BY <1>3, <2>2, ConfigAssumption DEF Reboot, CalmInv, kernel, Reports, NoReport, Event
      <4> QED
        BY <4>1, <4>2 DEF OneOwnInstanceOf, OneExit, ExitComing
    <3> QED
      BY <3>2 DEF OneInstancePerLife
  <2> QED
    BY <1>3, <2>1, <2>2
<1>4. ASSUME OneInstancePerLife, UNCHANGED recoveryVars PROVE OneInstancePerLife'
  BY <1>4
  DEF OneInstancePerLife, OneOwnInstanceOf, OwnInstances, Instances, OneExit,
      ExitComing, Reports, ExitsQueued, Exit, recoveryVars, history, vars, table, channel, kernel
<1>5. RecoveryTypeOK /\ CalmInv /\ OneInstancePerLife /\ [RecoveryNext]_recoveryVars
        => OneInstancePerLife'
  BY <1>2, <1>3, <1>4 DEF RecoveryNext
<1> QED
  BY <1>1, <1>5, RecoveryTypeCorrect, CalmKept, PTL DEF RecoverySpec

-----------------------------------------------------------------------------
(* One monitor per program, after a stop too.                              *)

\* What a step of the daemon is to the monitors.
LEMMA MonitorStepsThatCount ==
  ASSUME Step
  PROVE  \/ \E u \in Programs, i \in Pids : SpawnUnit(u, i)
         \/ HandleStarted \/ HandleExited \/ HandleFailed \/ HandleRestart
         \/ Forget \/ DaemonExit \/ Child
         \/ \E p \in Programs : TimerFires(p)
         \/ /\ UNCHANGED <<table, events, owner, watched, report, up>>
            /\ Kill \/ UNCHANGED state
BY DEF Step, Next, BootStep, BootDone, BootStart, StartStep, SkipUnit, SpawnFails,
   StartDone, StopStep, StopNotRunning, Kill, LoopStep, LoopSleep, StopAllStep,
   StopAllNext, StopAllDone, Request, StartRequest, StopRequest, RestartRequest,
   SleepDone, SleepCancelled, LoopWake, ShutdownBegin, Ended, vars, channel, kernel

\* A program that has a monitor, a report under way, or an exit queued.
LEMMA MonitorOrExit ==
  ASSUME NEW p, OneMonitorOf(p)
  PROVE  /\ Watched(p) # {} => Reports(p) = {} /\ ExitsQueued(p) = {} /\ p \in running
         /\ Reports(p) # {} => Watched(p) = {} /\ ExitsQueued(p) = {} /\ p \in running
         /\ ExitsQueued(p) # {} => Watched(p) = {} /\ Reports(p) = {} /\ p \in running
BY DEF OneMonitorOf, OneExit, ExitComing

\* A step that leaves the monitors, the reports and the queued exits of p, and its entry.
LEMMA OneMonitorFrame ==
  ASSUME NEW p, OneMonitorOf(p), UNCHANGED <<Watched(p), Reports(p), ExitsQueued(p)>>,
         p \in running' <=> p \in running, p \in running => pid'[p] = pid[p]
  PROVE  OneMonitorOf(p)'
BY DEF OneMonitorOf, OneExit, ExitComing

\* One step, for one program, unless an exit is left behind by a stop, queued or with
\* the monitor that has seen it.
LEMMA OneMonitorStep ==
  ASSUME RecoveryTypeOK, Step, NEW p \in Programs, OneMonitorOf(p), ~ Stale(p)'
  PROVE  OneMonitorOf(p)'
<1> USE DEF RecoveryTypeOK, TypeOK
<1>1. ASSUME NEW u \in Programs, NEW i \in Pids, SpawnUnit(u, i)
      PROVE  OneMonitorOf(p)'
  <2>1. ExitsQueued(p)' = ExitsQueued(p)
    BY <1>1, OtherSent DEF SpawnUnit, EventKinds, ExitKinds
  <2>2. /\ owner[i] = NoProg /\ owner' = [owner EXCEPT ![i] = u]
        /\ i \notin watched /\ watched' = watched \cup {i}
    BY <1>1 DEF SpawnUnit, KernelType
  <2>3. CASE p = u
    <3>1. Watched(p) = {} /\ ~ ExitComing(p)
      BY <1>1, <2>3 DEF SpawnUnit, OneMonitorOf
    <3>2. Watched(p)' = {i}
      BY <2>2, <2>3, <3>1 DEF Watched, KernelType
    <3>3. Reports(p)' = {} /\ ExitsQueued(p)' = {}
      BY <1>1, <2>1, <3>1 DEF SpawnUnit, ExitComing, Reports
    <3>4. p \in running' /\ pid'[p] = i
      BY <1>1, <2>3 DEF SpawnUnit, TableType
    <3> QED
      BY <3>2, <3>3, <3>4 DEF OneMonitorOf, OneExit, ExitComing
  <2>4. CASE p # u
    <3>1. Watched(p)' = Watched(p)
      BY <2>2, <2>4 DEF Watched, KernelType
    <3> QED
      BY <1>1, <2>1, <2>4, <3>1, OneMonitorFrame DEF SpawnUnit, TableType, Reports
  <2> QED
    BY <2>3, <2>4
<1>2. CASE Forget
  <2>1. ExitsQueued(p)' = ExitsQueued(p) /\ Reports(p)' = Reports(p) /\ owner' = owner
    BY <1>2 DEF Forget, ExitsQueued, Exit, Reports, channel
  <2>2. CASE p = target
    <3>1. p \notin running' /\ Watched(p)' = {}
      BY <1>2, <2>1, <2>2 DEF Forget, OneMonitorOf, Watched, KernelType
    <3>2. ~ ExitComing(p)'
      BY <3>1 DEF Stale
    <3> QED
      BY <3>1, <3>2 DEF OneMonitorOf, OneExit, ExitComing
  <2>3. CASE p # target
    <3>1. Watched(p)' = Watched(p)
      BY <1>2, <2>1, <2>3 DEF Forget, Watched
    <3>2. pid'[p] = pid[p] /\ (p \in running' <=> p \in running)
      BY <1>2, <2>3 DEF Forget, TableType
    <3> QED
      BY <2>1, <3>1, <3>2, OneMonitorFrame
  <2> QED
    BY <2>2, <2>3
<1>3. ASSUME HandleStarted \/ HandleExited \/ HandleFailed \/ HandleRestart
      PROVE  OneMonitorOf(p)'
  <2>1. events # <<>> /\ events' = Tail(events) /\ UNCHANGED <<pid, kernel>>
    BY <1>3 DEF HandleStarted, HandleExited, HandleFailed, HandleRestart,
       Handling, table
  <2>2. Watched(p)' = Watched(p) /\ Reports(p)' = Reports(p)
    BY <2>1 DEF Watched, Reports, kernel
  <2>3. Head(events) = events[1] /\ 1 \in DOMAIN events
    BY <2>1 DEF ChannelType
  <2>4. CASE 1 \in ExitsQueued(p)
    <3>1. Watched(p) = {} /\ Reports(p) = {} /\ ExitsQueued(p) = {1}
      BY <2>4, MonitorOrExit DEF OneMonitorOf, OneExit
    <3>2. ExitsQueued(p)' = {}
      BY <2>1, <3>1, FirstReceived DEF ExitsQueued, ChannelType
    <3> QED
      BY <2>2, <3>1, <3>2 DEF OneMonitorOf, OneExit, ExitComing
  <2>5. CASE 1 \notin ExitsQueued(p)
    <3>1. p \in running' <=> p \in running
      BY <1>3, <2>3, <2>5 DEF ExitsQueued, Exit, ExitKinds, HandleStarted,
         HandleExited, HandleFailed, HandleRestart, Handling, table
    <3>2. /\ \A n \in ExitsQueued(p)' : n + 1 \in ExitsQueued(p)
          /\ \A n \in ExitsQueued(p) : n - 1 \in ExitsQueued(p)'
      BY <2>1, <2>5, FirstReceived
    <3>3. ExitsQueued(p)' = {} <=> ExitsQueued(p) = {}
      BY <3>2
    <3>4. \A k, l \in ExitsQueued(p)' : k = l
      <4>1. Tail(events) \in Seq(Message)
        BY <2>1, HeadType
      <4>2. ExitsQueued(p)' \subseteq Nat
        BY <2>1, <4>1 DEF ExitsQueued
      <4> QED
        BY <3>2, <4>2 DEF OneMonitorOf, OneExit
    <3> QED
      BY <2>1, <2>2, <3>1, <3>3, <3>4 DEF OneMonitorOf, OneExit, ExitComing
  <2> QED
    BY <2>4, <2>5
<1>4. ASSUME NEW i \in Pids, Reap(i) \/ WaitFails(i) PROVE OneMonitorOf(p)'
  <2>1. PICK k \in ExitKinds : Sees(i, k)
    BY <1>4, LastPoll
  <2>2. i \in watched /\ FreePid(i) /\ UNCHANGED <<table, channel>>
    BY <2>1 DEF Sees
  <2>3. Watched(p)' = Watched(p) \ {i}
    BY <2>2, ConfigAssumption DEF FreePid, Watched, KernelType
  <2>4. ExitsQueued(p)' = ExitsQueued(p)
    BY <2>2 DEF ExitsQueued, Exit, channel
  <2>5. CASE owner[i] = p
    <3>1. Watched(p) = {i}
      BY <2>2, <2>5 DEF OneMonitorOf, Watched
    <3>2. Reports(p) = {} /\ ExitsQueued(p) = {} /\ p \in running
      BY <3>1, MonitorOrExit
    <3>3. Reports(p)' = {i}
      BY <2>1, <2>5, <3>2, SeesMoves
    <3> QED
      BY <2>2, <2>3, <2>4, <3>1, <3>2, <3>3 DEF OneMonitorOf, OneExit, ExitComing, table
  <2>6. CASE owner[i] # p
    <3>1. Reports(p)' = Reports(p)
      BY <2>1, <2>6, SeesMoves
    <3>2. Watched(p)' = Watched(p)
      BY <2>3, <2>6 DEF Watched
    <3> QED
      BY <2>2, <2>4, <3>1, <3>2, OneMonitorFrame DEF table
  <2> QED
    BY <2>5, <2>6
<1>5. ASSUME NEW i \in Pids, Report(i) PROVE OneMonitorOf(p)'
  <2>1. PICK k \in ExitKinds, q \in Programs :
          /\ events' = Sent(events, Event(k, q)) /\ i \in Reports(q)
          /\ \A r \in Programs : Reports(r)' = Reports(r) \ {i}
          /\ report[i] = Event(k, q)
    BY <1>5, ReportMoves
  <2>2. Watched(p)' = Watched(p) /\ UNCHANGED table
    BY <1>5 DEF Report, Watched
  <2>3. CASE q = p
    <3>1. Reports(p) = {i} /\ Watched(p) = {} /\ ExitsQueued(p) = {} /\ p \in running
      BY <2>1, <2>3, MonitorOrExit DEF OneMonitorOf, OneExit
    <3>2. CASE open
      <4>1. ExitsQueued(p)' = {Len(events) + 1}
        BY <2>1, <2>3, <3>1, <3>2, ExitSent
      <4> QED
        BY <2>1, <2>2, <3>1, <4>1 DEF OneMonitorOf, OneExit, ExitComing, table
    <3>3. CASE ~ open
      <4>1. ExitsQueued(p)' = {}
        BY <2>1, <3>1, <3>3 DEF Sent, ExitsQueued, Exit
      <4> QED
        BY <2>1, <2>2, <3>1, <4>1 DEF OneMonitorOf, OneExit, ExitComing
    <3> QED
      BY <3>2, <3>3
  <2>4. CASE q # p
    <3>1. ExitsQueued(p)' = ExitsQueued(p)
      BY <2>1, <2>4, OtherSent DEF EventKinds
    <3>2. i \notin Reports(p)
      BY <2>1, <2>4 DEF Reports, Event
    <3>3. Reports(p)' = Reports(p)
      BY <2>1, <3>2
    <3> QED
      BY <2>2, <3>1, <3>3, OneMonitorFrame DEF table
  <2> QED
    BY <2>3, <2>4
<1>6. ASSUME NEW i \in Pids, OrphanReap(i) PROVE OneMonitorOf(p)'
  <2>1. Watched(p)' = Watched(p)
    BY <1>6 DEF OrphanReap, FreePid, Watched, KernelType
  <2> QED
    BY <1>6, <2>1, OneMonitorFrame
    DEF OrphanReap, Reports, ExitsQueued, Exit, channel, table
<1>7. ASSUME NEW q \in Programs, TimerFires(q) PROVE OneMonitorOf(p)'
  <2>1. ExitsQueued(p)' = ExitsQueued(p)
    BY <1>7, OtherSent DEF TimerFires, EventKinds, ExitKinds
  <2> QED
    BY <1>7, <2>1, OneMonitorFrame DEF TimerFires, Watched, Reports, table, kernel
<1>8. CASE DaemonExit
  <2>1. Reports(p)' = {} /\ ExitsQueued(p)' = {} /\ Watched(p)' = {}
    BY <1>8, ConfigAssumption
    DEF DaemonExit, Reports, NoReport, Event, ExitsQueued, Watched
  <2> QED
    BY <2>1 DEF OneMonitorOf, OneExit, ExitComing
<1>9. ASSUME UNCHANGED <<table, events, owner, watched, report>> PROVE OneMonitorOf(p)'
  BY <1>9, OneMonitorFrame DEF Watched, Reports, ExitsQueued, Exit, table
<1>10. ASSUME NEW i \in Pids, ChildExit(i) PROVE OneMonitorOf(p)'
  BY <1>9, <1>10 DEF ChildExit, table, channel
<1> QED
  BY <1>1, <1>2, <1>3, <1>4, <1>5, <1>6, <1>7, <1>8, <1>9, <1>10, MonitorStepsThatCount
  DEF Child

\* The children of this life that run on are the ones that have a monitor.
RunningAreWatched == up => \A i \in Owned \ inherited : state[i] = "up" => i \in watched

\* Only a spawn lets a child run, and it gives it a monitor; only a stop takes
\* one away from a child, and it has signalled it.
LEMMA RunningAreWatchedStep ==
  ASSUME RecoveryTypeOK, LivesInv, RunningAreWatched, Step
  PROVE  RunningAreWatched'
<1> USE DEF RecoveryTypeOK, TypeOK
<1> SUFFICES ASSUME up', NEW i \in Owned' \ inherited', state'[i] = "up"
             PROVE  i \in watched'
  BY DEF RunningAreWatched
<1>1. i \in Pids /\ (i \in Owned => i \notin inherited)
  BY DEF Step, Owned
<1>2. ASSUME NEW u \in Programs, NEW j \in Pids, SpawnUnit(u, j)
      PROVE  i \in watched'
  <2>1. i # j => i \in Owned /\ state[i] = "up"
    BY <1>1, <1>2 DEF SpawnUnit, Owned, KernelType
  <2> QED
    BY <1>1, <1>2, <2>1 DEF SpawnUnit, RunningAreWatched
<1>3. CASE Forget
  <2>1. i \in Owned /\ state[i] = "up" /\ up
    BY <1>1, <1>3 DEF Forget, Owned
  <2>2. i # pid[target]
    BY <1>1, <1>3, <2>1 DEF Forget, LivesInv, JobInv, SignalledPidIsDown
  <2> QED
    BY <1>1, <1>3, <2>1, <2>2 DEF Forget, RunningAreWatched
<1>4. ASSUME NEW j \in Pids, Reap(j) \/ WaitFails(j) \/ OrphanReap(j)
      PROVE  i \in watched'
  <2>1. FreePid(j) /\ up' = up
    BY <1>4 DEF Reap, WaitFails, Sees, OrphanReap
  <2>2. i # j
    BY <1>1, <2>1 DEF FreePid, KernelType
  <2>3. i \in Owned /\ state[i] = "up"
    BY <1>1, <2>1, <2>2 DEF FreePid, Owned, KernelType
  <2> QED
    BY <1>1, <2>1, <2>2, <2>3 DEF FreePid, RunningAreWatched
<1>5. ASSUME UNCHANGED <<owner, watched, up>>, state[i] = "up"
      PROVE  i \in watched'
  BY <1>1, <1>5 DEF Owned, RunningAreWatched
<1>6. ASSUME NEW j \in Pids, ChildExit(j) PROVE i \in watched'
  <2>1. state[i] = "up"
    BY <1>1, <1>6, ConfigAssumption DEF ChildExit, KernelType
  <2> QED
    BY <1>5, <1>6, <2>1 DEF ChildExit
<1>7. CASE Kill
  <2>1. state[i] = "up"
    BY <1>1, <1>7 DEF Kill
  <2> QED
    BY <1>5, <1>7, <2>1 DEF Kill
<1>8. ASSUME \/ HandleStarted \/ HandleExited \/ HandleFailed \/ HandleRestart
             \/ \E p \in Programs : TimerFires(p)
             \/ \E j \in Pids : Report(j)
             \/ UNCHANGED <<owner, watched, up, state>>
      PROVE  i \in watched'
  BY <1>5, <1>8 DEF HandleStarted, HandleExited, HandleFailed, HandleRestart,
     TimerFires, Report, kernel
<1>9. ~ DaemonExit
  BY DEF DaemonExit
<1> QED
  BY <1>2, <1>3, <1>4, <1>6, <1>7, <1>8, <1>9, MonitorStepsThatCount DEF Child

(***************************************************************************)
(* Whatever is stopped, restarted or killed: a child of the present life   *)
(* that runs on has a monitor or has been sent SIGTERM, and a program has  *)
(* one monitor, unless an exit that a monitor had seen when a stop cleared *)
(* the entry has been, or is still to be, handled after it; it may be sent *)
(* as late as after the next start (process.rs:383-387).                   *)
(***************************************************************************)
THEOREM OneMonitorAfterAStop == RecoverySpec => []OneMonitorPerProgram
<1>1. RecoveryInit => OneMonitorPerProgram
  BY ConfigAssumption
  DEF RecoveryInit, Init, OneMonitorPerProgram, OneMonitorOf, OneExit, ExitComing,
      Watched, Reports, NoReport, Event, ExitsQueued, Owned
<1>2. ASSUME RecoveryTypeOK, LivesInv, OneMonitorPerProgram, Step
      PROVE  OneMonitorPerProgram'
  <2>1. RunningAreWatched'
    BY <1>2, RunningAreWatchedStep DEF OneMonitorPerProgram, RunningAreWatched
  <2>2. ASSUME NEW p \in Programs \ raced' PROVE OneMonitorOf(p)'
    <3>1. CASE Quiet(p)'
      BY <3>1 DEF Quiet, OneMonitorOf, OneExit, ExitComing
    <3>2. CASE ~ Quiet(p)'
      BY <1>2, <2>2, <3>2, OneMonitorStep DEF Step, OneMonitorPerProgram
    <3> QED
      BY <3>1, <3>2
  <2> QED
    BY <2>1, <2>2 DEF OneMonitorPerProgram, RunningAreWatched
<1>3. ASSUME RecoveryTypeOK, CalmInv, Crash \/ Reboot PROVE OneMonitorPerProgram'
  <2>1. watched' = {}
    BY <1>3 DEF Crash, Reboot, CalmInv, kernel
  <2>2. events' = <<>>
    BY <1>3, FreshStart
  <2>3. up' => inherited' = Owned'
    BY <1>3 DEF Crash, Reboot, Owned, kernel
  <2>4. ASSUME NEW p \in Programs PROVE OneMonitorOf(p)'
    <3>1. Watched(p)' = {} /\ ExitsQueued(p)' = {}
      BY <2>1, <2>2 DEF Watched, ExitsQueued
    <3>2. Reports(p)' = {}
      BY <1>3, ConfigAssumption DEF Crash, Reboot, CalmInv, kernel, Reports, NoReport, Event
    <3> QED
      BY <3>1, <3>2 DEF OneMonitorOf, OneExit, ExitComing
  <2> QED
    BY <2>3, <2>4 DEF OneMonitorPerProgram
<1>4. ASSUME OneMonitorPerProgram, UNCHANGED recoveryVars PROVE OneMonitorPerProgram'
  BY <1>4
  DEF OneMonitorPerProgram, OneMonitorOf, OneExit, ExitComing, Watched, Reports,
      ExitsQueued, Exit, Owned,
      recoveryVars, history, vars, table, channel, kernel
<1>5. RecoveryTypeOK /\ CalmInv /\ LivesInv /\ OneMonitorPerProgram /\ [RecoveryNext]_recoveryVars
        => OneMonitorPerProgram'
  BY <1>2, <1>3, <1>4 DEF RecoveryNext
<1> QED
  BY <1>1, <1>5, RecoveryTypeCorrect, LivesKeepTheirInvariant, CalmKept, PTL
  DEF RecoverySpec

-----------------------------------------------------------------------------
(* Dependencies first, in every life.                                      *)

\* Whoever is up before a spawn is up in this life.
LEMMA UpFirstStep ==
  ASSUME RecoveryTypeOK, EarlierUnitsUp, [RecoveryNext]_recoveryVars,
         NEW u \in running' \ running, NEW d \in After[u] \ MayFail
  PROVE  d \in running
<1>1. [Next]_vars
  BY FreshStart DEF RecoveryNext, Step, recoveryVars
<1> QED
  BY <1>1, EarlierUnitsAreUp DEF RecoveryTypeOK

(***************************************************************************)
(* A daemon that is started again starts its programs in order too: the    *)
(* dependencies that were up before it was killed do not count, and as     *)
(* long as pids suffice, whatever survivors hold, each comes up first.     *)
(***************************************************************************)
THEOREM DependenciesFirstInEveryLife ==
  RecoverySpec /\ PidsSuffice => DependenciesUpFirst
<1> DEFINE Excused == \A u \in Programs : SpawnFails(u) => u \in MayFail
           UpFirst == \A u \in running' \ running : \A d \in After[u] \ MayFail : d \in running
<1>1. RecoveryInit => EarlierUnitsUp
  BY DEF RecoveryInit, Init, EarlierUnitsUp
<1>2. RecoveryTypeOK /\ EarlierUnitsUp /\ [RecoveryNext]_recoveryVars /\ [Excused]_vars
        => EarlierUnitsUp'
  <2>1. ASSUME RecoveryTypeOK, EarlierUnitsUp, Step, [Excused]_vars PROVE EarlierUnitsUp'
    <3>1. CASE UNCHANGED vars
      BY <2>1, <3>1 DEF vars, table, job, EarlierUnitsUp
    <3>2. CASE Excused
      BY <2>1, <3>2, EarlierUnitsUpStep DEF Step, RecoveryTypeOK
    <3> QED
      BY <2>1, <3>1, <3>2
  <2>2. ASSUME RecoveryTypeOK, Crash \/ Reboot PROVE EarlierUnitsUp'
    BY <2>2, FreshStart DEF EarlierUnitsUp
  <2>3. ASSUME UNCHANGED recoveryVars, EarlierUnitsUp PROVE EarlierUnitsUp'
    BY <2>3 DEF recoveryVars, vars, table, job, EarlierUnitsUp
  <2> QED
    BY <2>1, <2>2, <2>3 DEF RecoveryNext
<1>3. RecoveryTypeOK /\ EarlierUnitsUp /\ [RecoveryNext]_recoveryVars => [UpFirst]_vars
  BY UpFirstStep
<1> QED
  BY <1>1, <1>2, <1>3, RecoveryTypeCorrect, PTL
  DEF RecoverySpec, PidsSuffice, DependenciesUpFirst

=============================================================================
