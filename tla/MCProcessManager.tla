-------------------------- MODULE MCProcessManager --------------------------
(***************************************************************************)
(* Instances of ProcessManager for TLC: two programs whose start orders    *)
(* are computed from an "after"/"wants" configuration, as the code does.   *)
(***************************************************************************)
EXTENDS ProcessManager, DependencyOrder, TLC

CONSTANTS a, b, i1, i2, i3

MCPrograms == {a, b}
TwoPids == {i1, i2}
ThreePids == {i1, i2, i3}

\* b comes after a, and a wants b.
MCAfter == a :> <<>> @@ b :> <<a>>
MCWants == a :> <<b>> @@ b :> <<>>
MCAfterSets == [p \in MCPrograms |-> ToSet(MCAfter[p])]
MCStartOrder == [p \in MCPrograms |-> ResolvedOrder(MCAfter, MCWants, p)]

MCAutostart == MCPrograms
MCRestart == a :> "always" @@ b :> "on-failure"

\* Policies that ask for no exit status.
BlindRestart == a :> "always" @@ b :> "never"

\* One program on its own, with more in flight, for the liveness of an exit.
Solo == {a}
SoloRestart == a :> "on-failure"
SoloAfter == a :> {}
SoloStartOrder == a :> <<a>>

\* Pids are interchangeable: the specification never chooses or orders them.
PidSymmetry == Permutations(Pids)

-----------------------------------------------------------------------------
(* What comments and documents say of a stop, a start and the shutdown.    *)

Runs(p) == \E i \in Pids : owner[i] = p /\ state[i] = "up"

(***************************************************************************)
(* README.md:122-123, "already-running dependencies are left alone": a     *)
(* start spawns no other child of a program it only brings in and that is  *)
(* up.                                                                     *)
(***************************************************************************)
DependenciesLeftAlone ==
  [][\A u \in Programs \ {target} :
       Runs(u) => Instances(u)' \subseteq Instances(u)]_vars

(***************************************************************************)
(* process.rs:415, "Send SIGTERM to the process": the signal goes to a     *)
(* child of the program that is being stopped.                             *)
(***************************************************************************)
SigtermReachesTheProcess ==
  [][\A i \in Pids :
       state[i] = "up" /\ state'[i] = "term" => owner[i] = target]_vars

(***************************************************************************)
(* main.rs:336 and 340, "Stop all processes", "Close event channel first": *)
(* when the daemon leaves, every child it had has been sent SIGTERM.       *)
(***************************************************************************)
NoChildIsLeftBehind == ~ up => \A i \in Pids : state[i] # "up"

=============================================================================
