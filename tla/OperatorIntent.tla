--------------------------- MODULE OperatorIntent ---------------------------
(***************************************************************************)
(* What the operator has been told, next to what the manager does: a       *)
(* history variable remembers the programs whose last request was a stop   *)
(* that has been answered, and no step of ProcessManager looks at it.      *)
(***************************************************************************)
EXTENDS ProcessManager

VARIABLE halted   \* programs the operator was told are stopped

\* StopProcess answers "Process '{}' stopped successfully", whether there was
\* something to stop or not.
StopAnswered == lock = "stop" /\ lock' = "free"

\* A start or a restart asks for the program and for all it brings in.
Asked == {u \in Programs : \E p \in Programs :
            /\ StartRequest(p) \/ RestartRequest(p)
            /\ \E k \in DOMAIN StartOrder[p] : StartOrder[p][k] = u}

ObservedInit == Init /\ halted = {}

ObservedNext ==
  /\ Next
  /\ halted' = IF StopAnswered THEN halted \cup {target} ELSE halted \ Asked

ObservedSpec == ObservedInit /\ [][ObservedNext]_<<vars, halted>>

(***************************************************************************)
(* grpc_server.rs:235, "Process '{}' stopped successfully": a program that *)
(* was reported stopped, and that nobody has asked for since, has no child *)
(* but those a SIGTERM is on its way to.                                   *)
(***************************************************************************)
StoppedIsStopped ==
  \A i \in Pids : owner[i] \in halted => state[i] # "up"

=============================================================================
