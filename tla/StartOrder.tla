----------------------------- MODULE StartOrder -----------------------------
(***************************************************************************)
(* ProcessManager::resolve_start_order (cirond/src/process.rs), loop by    *)
(* loop: a breadth-first discovery of every program that comes up with the *)
(* root, then Kahn's topological sort of that set by "after", then the     *)
(* fallback that appends whatever a dependency cycle kept back.            *)
(*                                                                         *)
(* The configuration (after, wants) and the requested root are inputs:     *)
(* they are chosen once, in Init, so that one run covers every dependency  *)
(* graph of a small instance, and no step changes them.                    *)
(***************************************************************************)
EXTENDS DependencyOrder

CONSTANTS
  Programs,      \* the names of the configured programs
  Names,         \* every name a list or a request may mention, unknown ones too
  AfterChoices,  \* the "after" lists explored, one list per program
  WantsChoices,  \* the "wants" lists explored
  Roots          \* the names a start may be asked for

ASSUME ConfigAssumption ==
  /\ IsFiniteSet(Programs)
  /\ Programs \subseteq Names /\ Roots \subseteq Names
  /\ AfterChoices \cup WantsChoices \subseteq [Programs -> Seq(Names)]

VARIABLES
  after, wants, root,  \* the inputs
  pc,           \* which loop is running, or how the call ended
  discovered,   \* programs to start, in discovery order
  seen,         \* the same programs, as the hash set the loops consult
  queue,        \* discovered, dependencies not looked at yet
  pending,      \* what the inner for loop has still to go through
  next,         \* how much of "discovered" the outer for loop has gone through
  inDegree,     \* per discovered program, "after" entries not yet released
  dependents,   \* per program, the units that wait for it, once per entry
  ready,        \* programs whose in-degree is zero, not yet sorted
  sorted        \* the start order under construction

inputs == <<after, wants, root>>
discovery == <<discovered, seen, queue>>
degrees == <<inDegree, dependents>>
order == <<ready, sorted>>
vars == <<inputs, pc, discovery, pending, next, degrees, order>>

TypeOK ==
  /\ after \in AfterChoices /\ wants \in WantsChoices /\ root \in Roots
  /\ pc \in {"check", "discover", "count", "collect", "sort", "rest", "done", "error"}
  /\ discovered \in Seq(Programs) /\ queue \in Seq(Programs)
  /\ ready \in Seq(Programs) /\ sorted \in Seq(Programs)
  /\ seen \subseteq Programs
  /\ pending \in Seq(Names)
  /\ next \in 0 .. Len(discovered)
  /\ inDegree \in [Programs -> Int]
  /\ dependents \in [Programs -> Seq(Programs)]

Init ==
  /\ after \in AfterChoices /\ wants \in WantsChoices /\ root \in Roots
  /\ pc = "check"
  /\ discovered = <<>> /\ queue = <<>> /\ pending = <<>>
  /\ seen = {} /\ next = 0
  /\ inDegree = [p \in Programs |-> 0] /\ dependents = [p \in Programs |-> <<>>]
  /\ ready = <<>> /\ sorted = <<>>

-----------------------------------------------------------------------------
\* An unknown root is the only error; otherwise the discovery starts from it.
CheckRoot ==
  /\ pc = "check"
  /\ \/ /\ root \notin Programs
        /\ pc' = "error"
        /\ UNCHANGED discovery
     \/ /\ root \in Programs
        /\ pc' = "discover"
        /\ discovered' = <<root>> /\ queue' = <<root>> /\ seen' = {root}
  /\ UNCHANGED <<inputs, pending, next, degrees, order>>

\* Fault: the queue's front is looked at and never popped.
VisitFront ==
  /\ pc = "discover" /\ pending = <<>> /\ queue # <<>>
  /\ pending' = after[Head(queue)] \o wants[Head(queue)]
  /\ UNCHANGED <<inputs, pc, discovery, next, degrees, order>>

\* while let Some(current) = queue.pop_front(): chain current's two lists.
VisitUnit ==
  /\ pc = "discover" /\ pending = <<>> /\ queue # <<>>
  /\ pending' = after[Head(queue)] \o wants[Head(queue)]
  /\ queue' = Tail(queue)
  /\ UNCHANGED <<inputs, pc, discovered, seen, next, degrees, order>>

\* Fault: a name no program has is discovered like any other.
VisitAnyDependency ==
  /\ pc = "discover" /\ pending # <<>>
  /\ pending' = Tail(pending)
  /\ LET dep == Head(pending)
         new == IF dep \in seen THEN <<>> ELSE <<dep>>
     IN /\ seen' = seen \cup {dep}
        /\ discovered' = discovered \o new /\ queue' = queue \o new
  /\ UNCHANGED <<inputs, pc, next, degrees, order>>

\* for dep in deps: unknown names and names seen before are passed over.
VisitDependency ==
  /\ pc = "discover" /\ pending # <<>>
  /\ pending' = Tail(pending)
  /\ LET dep == Head(pending)
     IN \/ /\ dep \in Programs \ seen
           /\ seen' = seen \cup {dep}
           /\ discovered' = Append(discovered, dep)
           /\ queue' = Append(queue, dep)
        \/ /\ dep \notin Programs \ seen
           /\ UNCHANGED discovery
  /\ UNCHANGED <<inputs, pc, next, degrees, order>>

\* for unit in &discovered: its "after" list.
CountUnit ==
  /\ pc = "count" /\ pending = <<>> /\ next < Len(discovered)
  /\ next' = next + 1
  /\ pending' = after[discovered[next + 1]]
  /\ UNCHANGED <<inputs, pc, discovery, degrees, order>>

\* Fault: a program that is listed twice counts once, and is released twice.
CountEntryOnce ==
  /\ pc = "count" /\ pending # <<>>
  /\ pending' = Tail(pending)
  /\ LET dep == Head(pending)
         unit == discovered[next]
     IN \/ /\ dep \in seen
           /\ dependents' = [dependents EXCEPT ![dep] = Append(@, unit)]
           /\ inDegree' = IF unit \in ToSet(dependents[dep]) THEN inDegree
                          ELSE [inDegree EXCEPT ![unit] = @ + 1]
        \/ dep \notin seen /\ UNCHANGED degrees
  /\ UNCHANGED <<inputs, pc, discovery, next, order>>

\* An entry that is listed twice counts twice, and is released twice.
CountEntry ==
  /\ pc = "count" /\ pending # <<>>
  /\ pending' = Tail(pending)
  /\ LET dep == Head(pending)
         unit == discovered[next]
     IN \/ /\ dep \in seen
           /\ dependents' = [dependents EXCEPT ![dep] = Append(@, unit)]
           /\ inDegree' = [inDegree EXCEPT ![unit] = @ + 1]
        \/ dep \notin seen /\ UNCHANGED degrees
  /\ UNCHANGED <<inputs, pc, discovery, next, order>>

\* The units that wait for nobody are ready.
CollectReady ==
  /\ pc = "collect" /\ next < Len(discovered)
  /\ next' = next + 1
  /\ LET unit == discovered[next + 1]
     IN ready' = IF inDegree[unit] = 0 THEN Append(ready, unit) ELSE ready
  /\ UNCHANGED <<inputs, pc, discovery, pending, degrees, sorted>>

\* while let Some(unit) = ready.pop_front()
SortUnit ==
  /\ pc = "sort" /\ pending = <<>> /\ ready # <<>>
  /\ sorted' = Append(sorted, Head(ready))
  /\ pending' = dependents[Head(ready)]
  /\ ready' = Tail(ready)
  /\ UNCHANGED <<inputs, pc, discovery, next, degrees>>

\* Fault: a unit that gets ready overtakes those that already were.
ReleaseInFront ==
  /\ pc = "sort" /\ pending # <<>>
  /\ LET unit == Head(pending)
     IN /\ inDegree' = [inDegree EXCEPT ![unit] = @ - 1]
        /\ ready' = IF inDegree'[unit] = 0 THEN <<unit>> \o ready ELSE ready
  /\ pending' = Tail(pending)
  /\ UNCHANGED <<inputs, pc, discovery, next, dependents, sorted>>

\* for dependent in dependents: one entry less to wait for.
ReleaseDependent ==
  /\ pc = "sort" /\ pending # <<>>
  /\ LET unit == Head(pending)
     IN /\ inDegree' = [inDegree EXCEPT ![unit] = @ - 1]
        /\ ready' = IF inDegree'[unit] = 0 THEN Append(ready, unit) ELSE ready
  /\ pending' = Tail(pending)
  /\ UNCHANGED <<inputs, pc, discovery, next, dependents, sorted>>

\* Fault: the fallback does not look whether a unit is sorted already.
AppendAll ==
  /\ pc = "rest" /\ next < Len(discovered)
  /\ next' = next + 1
  /\ sorted' = Append(sorted, discovered[next + 1])
  /\ UNCHANGED <<inputs, pc, discovery, pending, degrees, ready>>

\* Fault: what a cycle keeps back comes first.
AppendRestInFront ==
  /\ pc = "rest" /\ next < Len(discovered)
  /\ next' = next + 1
  /\ LET unit == discovered[next + 1]
     IN sorted' = IF unit \in ToSet(sorted) THEN sorted ELSE <<unit>> \o sorted
  /\ UNCHANGED <<inputs, pc, discovery, pending, degrees, ready>>

\* A cycle keeps units back: they follow in discovery order.
AppendRest ==
  /\ pc = "rest" /\ next < Len(discovered)
  /\ next' = next + 1
  /\ LET unit == discovered[next + 1]
     IN sorted' = IF unit \in ToSet(sorted) THEN sorted ELSE Append(sorted, unit)
  /\ UNCHANGED <<inputs, pc, discovery, pending, degrees, ready>>

\* A loop is over and the next one begins.
LoopDone ==
  /\ pending = <<>>
  /\ \/ pc = "discover" /\ queue = <<>> /\ pc' = "count"
     \/ pc = "count" /\ next = Len(discovered) /\ pc' = "collect"
     \/ pc = "collect" /\ next = Len(discovered) /\ pc' = "sort"
     \/ /\ pc = "sort" /\ ready = <<>>
        /\ pc' = IF Len(sorted) = Len(discovered) THEN "done" ELSE "rest"
     \/ pc = "rest" /\ next = Len(discovered) /\ pc' = "done"
  /\ next' = 0
  /\ UNCHANGED <<inputs, discovery, pending, degrees, order>>

\* The call has returned.
Returned == pc \in {"done", "error"} /\ UNCHANGED vars

Next ==
  \/ CheckRoot
  \/ VisitUnit \/ VisitDependency
  \/ CountUnit \/ CountEntry
  \/ CollectReady
  \/ SortUnit \/ ReleaseDependent
  \/ AppendRest
  \/ LoopDone
  \/ Returned

Spec == Init /\ [][Next]_vars /\ WF_vars(Next)

-----------------------------------------------------------------------------
(* What the order is, stated without the algorithm.                        *)

DependsOn(u, d) == \E k \in DOMAIN after[u] : after[u][k] = d
Mentions(u, d) == DependsOn(u, d) \/ \E k \in DOMAIN wants[u] : wants[u][k] = d

\* The least set of programs that holds r and is closed under edge.
Closure(r, edge(_, _)) ==
  {p \in Programs :
     \A S \in SUBSET Programs :
       (r \in S /\ \A u \in S, d \in Programs : edge(u, d) => d \in S) => p \in S}

\* u can be reached from itself along at least one "after" edge.
OnCycle(u) == \E d \in Programs : DependsOn(u, d) /\ u \in Closure(d, DependsOn)

\* u comes after itself or after some program that does: no order can serve it.
BehindCycle(u) == \E c \in Closure(u, DependsOn) : OnCycle(c)

(***************************************************************************)
(* Completeness: when the call returns an order, the order lists every     *)
(* program the root brings in through "after" and "wants", directly or     *)
(* through others, and lists each of them exactly once, cycles or not.     *)
(* The root is among them, which start_process relies on: it panics        *)
(* ("resolve_start_order always includes its own root") otherwise.         *)
(* This is what the loops do (process.rs:204-224 follows both lists), not  *)
(* what README.md:102-104 and config.rs:83-87 say: that "after" on its own *)
(* never starts anything.  Every program reached through "after" alone is  *)
(* in the order, and start_process starts all of it.                       *)
(***************************************************************************)
OrderIsThePermutedClosure ==
  pc = "done" =>
    /\ ToSet(sorted) = Closure(root, Mentions)
    /\ Len(sorted) = Cardinality(Closure(root, Mentions))

(***************************************************************************)
(* Ordering: a program that waits for no cycle is started after every      *)
(* program of its "after" list, and ahead of all the units the fallback    *)
(* appends.                                                                *)
(***************************************************************************)
AfterIsRespectedOffCycles ==
  pc = "done" =>
    \A u \in ToSet(sorted) :
      ~ BehindCycle(u) =>
        /\ \A d \in ToSet(sorted) : DependsOn(u, d) => Precedes(sorted, d, u)
        /\ \A c \in ToSet(sorted) : BehindCycle(c) => Precedes(sorted, u, c)

(***************************************************************************)
(* The in-degrees are usize: "*degree -= 1" is never reached at zero (a    *)
(* panic in a debug build; in a release build a wrap to 2^64 - 1, and a    *)
(* program that is left to the fallback).  So every entry of "dependents"  *)
(* was counted, and no unit is sorted twice.                               *)
(***************************************************************************)
DegreesNeverUnderflow ==
  pc = "sort" /\ pending # <<>> => inDegree[Head(pending)] > 0

(***************************************************************************)
(* The loops return the one order that resolves the configuration, which   *)
(* every start in ProcessManager follows.  The code says of the discovery  *)
(* order that it is "kept for deterministic, stable output": units stay in *)
(* the order they were found and got ready, the same in every call.        *)
(***************************************************************************)
LoopsReturnResolvedOrder ==
  pc = "done" => sorted = ResolvedOrder(after, wants, root)

\* The loops end: the call returns whatever the graph, cycles included.
CallReturns == <>(pc \in {"done", "error"})

=============================================================================
