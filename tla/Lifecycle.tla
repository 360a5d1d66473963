----------------------------- MODULE Lifecycle -----------------------------
(***************************************************************************)
(* What the process manager promises of each program as long as nobody     *)
(* stops anything: one child at a time, a running flag that goes up with   *)
(* the child and comes down after it, never before, and a restart that is  *)
(* owed after the exits the policy names, and that is settled only when    *)
(* the program runs again (or cannot).                                     *)
(***************************************************************************)
CONSTANTS
  Programs,
  Restart,   \* the restart policy of every program
  MayFail    \* programs that may fail to start, or whose exit may be unreadable

VARIABLES
  alive,     \* the programs that have a child
  running,   \* those GetStatus shows as running
  due        \* those that are owed a restart

vars == <<alive, running, due>>

Init == alive = {} /\ running = {} /\ due = {}

\* A start, whoever asked for it.
Launch(p) ==
  /\ p \notin running
  /\ alive' = alive \cup {p} /\ running' = running \cup {p}
  /\ UNCHANGED due

\* The child exits and is reaped: the flag does not know yet.
Leave(p) ==
  /\ p \in alive
  /\ alive' = alive \ {p}
  /\ UNCHANGED <<running, due>>

\* The exit is taken note of, and the restart policy applied.
Notice(p) ==
  /\ p \in running \ alive
  /\ running' = running \ {p}
  /\ \/ Restart[p] # "never" /\ due' = due \cup {p}
     \/ (Restart[p] # "always" \/ p \in MayFail) /\ due' = due
  /\ UNCHANGED alive

\* The restart finds the program running, its own work or another start's.
Settle(p) ==
  /\ p \in due
  /\ p \in running \/ p \in MayFail
  /\ due' = due \ {p}
  /\ UNCHANGED <<alive, running>>

Next == \E p \in Programs : Launch(p) \/ Leave(p) \/ Notice(p) \/ Settle(p)

Spec == Init /\ [][Next]_vars

\* Exits are taken note of, and what is owed is done.
Fairness ==
  \A p \in Programs :
    /\ WF_vars(Notice(p))
    /\ WF_vars(p \in due \ MayFail /\ Launch(p))

FairSpec == Spec /\ Fairness

=============================================================================
