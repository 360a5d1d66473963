-------------------------- MODULE DependencyOrder --------------------------
(***************************************************************************)
(* The start order of a configuration, stated by what it is and not by how *)
(* resolve_start_order computes it: the modules that start processes take  *)
(* it from here.  StartOrder runs the computation loop by loop, and is     *)
(* proved to return this order.                                            *)
(*                                                                         *)
(* The code says of the discovery order that it is "kept for               *)
(* deterministic, stable output": both orders below are unique, so the     *)
(* configuration alone determines them (DependencyOrderProofs).            *)
(***************************************************************************)
EXTENDS Integers, FiniteSets, Sequences, SequencesExt

Precedes(s, x, y) == \E i, j \in DOMAIN s : i < j /\ s[i] = x /\ s[j] = y

-----------------------------------------------------------------------------
(* Discovery: breadth first.  lists[u] is u's "after" list and then its    *)
(* "wants" list.                                                           *)

\* Reading the lists of the units of s one after the other, x turns up ahead of y.
MentionedFirst(s, lists, x, y) ==
  \E i \in DOMAIN s : \E j \in DOMAIN lists[s[i]] :
    /\ lists[s[i]][j] = x
    /\ \A k \in DOMAIN s : \A l \in DOMAIN lists[s[k]] :
         lists[s[k]][l] = y => i < k \/ (i = k /\ j < l)

\* s begins with r, goes on with what its units bring in, and leaves nothing out.
Discovers(s, lists, r) ==
  /\ IsInjective(s) /\ s # <<>> /\ s[1] = r
  /\ \A i \in DOMAIN s : ToSet(lists[s[i]]) \cap DOMAIN lists \subseteq ToSet(s)
  /\ \A k \in 2 .. Len(s) :
       /\ \E i \in 1 .. k - 1 : s[k] \in ToSet(lists[s[i]])
       /\ \A l \in k + 1 .. Len(s) : MentionedFirst(s, lists, s[k], s[l])

\* after, wants : [Programs -> Seq(names)], r \in Programs.
ListsOf(after, wants) == [u \in DOMAIN after |-> after[u] \o wants[u]]

DiscoveryOrder(after, wants, r) ==
  CHOOSE s \in SeqOf(DOMAIN after, Cardinality(DOMAIN after)) :
    Discovers(s, ListsOf(after, wants), r)

-----------------------------------------------------------------------------
(* Sorting: Kahn's algorithm.  waits[u] are the units that u comes after.  *)

\* All of W is among the first n units of s.
ServedBy(s, n, W) == W \subseteq {s[i] : i \in 1 .. n}

\* u waits for no later unit of s than v does; if for the same, it was found earlier.
ReadySooner(s, found, waits, u, v) ==
  /\ \A n \in 0 .. Len(s) : ServedBy(s, n, waits[v]) => ServedBy(s, n, waits[u])
  /\ (\A n \in 0 .. Len(s) : ServedBy(s, n, waits[u]) => ServedBy(s, n, waits[v]))
       => Precedes(found, u, v)

\* The first n units of s follow all they wait for, in the order they get ready;
\* those behind them cannot, and stay as they were found.
SortedTo(n, s, found, waits) ==
  /\ \A k \in 1 .. n :
       /\ ServedBy(s, k - 1, waits[s[k]])
       /\ \A l \in k + 1 .. n : ReadySooner(s, found, waits, s[k], s[l])
  /\ \A k \in n + 1 .. Len(s) :
       /\ ~ ServedBy(s, n, waits[s[k]])
       /\ \A l \in k + 1 .. Len(s) : Precedes(found, s[k], s[l])

Resolves(s, found, waits) ==
  /\ IsInjective(s) /\ ToSet(s) = ToSet(found)
  /\ \E n \in 0 .. Len(s) : SortedTo(n, s, found, waits)

WaitsOf(found, after) == [u \in ToSet(found) |-> ToSet(after[u]) \cap ToSet(found)]

ResolvedOrder(after, wants, r) ==
  LET found == DiscoveryOrder(after, wants, r)
  IN CHOOSE s \in [DOMAIN found -> ToSet(found)] :
       Resolves(s, found, WaitsOf(found, after))

=============================================================================
