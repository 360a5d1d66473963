-------------------------- MODULE StartOrderProofs --------------------------
(***************************************************************************)
(* Theorems about StartOrder, for any programs and any "after" and "wants" *)
(* lists: no in-degree underflows, the order that is returned lists        *)
(* exactly what the root brings in, each program once, and off the cycles  *)
(* it respects "after"; and every step lowers a measure.                   *)
(*                                                                         *)
(* What an in-degree of zero means is what ties the loops to the graph:    *)
(* while units are sorted, they are sorted after all they depend on; what  *)
(* is never sorted depends on something that is not sorted either, and in  *)
(* a finite graph that is only possible behind a cycle.                    *)
(***************************************************************************)
EXTENDS StartOrder, SequenceTheorems, FiniteSetTheorems, WellFoundedInduction, TLAPS

-----------------------------------------------------------------------------
(* Sequences and the sets of their elements.                               *)

\* The elements of a sequence over S are in S, and it has a first one.
LEMMA Elements ==
  ASSUME NEW S, NEW s \in Seq(S)
  PROVE  /\ DOMAIN s = 1 .. Len(s) /\ Len(s) \in Nat
         /\ ToSet(s) = {s[i] : i \in 1 .. Len(s)} /\ ToSet(s) \subseteq S
         /\ s # <<>> => Len(s) > 0
<1>1. DOMAIN s = 1 .. Len(s) /\ Len(s) \in Nat
  BY LenProperties
<1>2. ToSet(s) = {s[i] : i \in 1 .. Len(s)}
  BY <1>1 DEF ToSet
<1>3. \A i \in 1 .. Len(s) : s[i] \in S
  BY ElementOfSeq
<1> QED BY <1>1, <1>2, <1>3, EmptySeq

\* A sequence that is longer by one element.
LEMMA Appended ==
  ASSUME NEW S, NEW s \in Seq(S), NEW e \in S
  PROVE  /\ Append(s, e) \in Seq(S)
         /\ Len(Append(s, e)) = Len(s) + 1
         /\ Append(s, e)[Len(s) + 1] = e
         /\ \A i \in 1 .. Len(s) : Append(s, e)[i] = s[i]
         /\ ToSet(Append(s, e)) = ToSet(s) \cup {e}
         /\ IsInjective(s) /\ e \notin ToSet(s) => IsInjective(Append(s, e))
<1> DEFINE t == Append(s, e)
<1>1. /\ t \in Seq(S) /\ Len(t) = Len(s) + 1
      /\ \A i \in 1 .. Len(s) : t[i] = s[i]
      /\ t[Len(s) + 1] = e
  BY AppendProperties
<1>2. /\ DOMAIN s = 1 .. Len(s) /\ Len(s) \in Nat
      /\ DOMAIN t = 1 .. Len(s) + 1
      /\ ToSet(s) = {s[i] : i \in 1 .. Len(s)}
      /\ ToSet(t) = {t[i] : i \in 1 .. Len(s) + 1}
  BY <1>1, Elements
<1> HIDE DEF t
<1>3. \A i \in 1 .. Len(s) + 1 : i \in 1 .. Len(s) \/ i = Len(s) + 1
  BY <1>2
<1>4. ToSet(t) = ToSet(s) \cup {e}
  <2>1. \A x \in ToSet(t) : x \in ToSet(s) \cup {e}
    BY <1>1, <1>2, <1>3
  <2>2. \A x \in ToSet(s) : x \in ToSet(t)
    BY <1>1, <1>2
  <2>3. e \in ToSet(t)
    BY <1>1, <1>2
  <2> QED BY <2>1, <2>2, <2>3
<1>5. ASSUME IsInjective(s), e \notin ToSet(s) PROVE IsInjective(t)
  <2> SUFFICES ASSUME NEW i \in 1 .. Len(s) + 1, NEW j \in 1 .. Len(s) + 1, t[i] = t[j]
               PROVE  i = j
    BY <1>2 DEF IsInjective
  <2> QED BY <1>1, <1>2, <1>3, <1>5 DEF IsInjective
<1> QED BY <1>1, <1>4, <1>5 DEF t

\* A sequence without its first element.
LEMMA Popped ==
  ASSUME NEW S, NEW s \in Seq(S), s # <<>>
  PROVE  /\ Tail(s) \in Seq(S) /\ Head(s) \in S
         /\ Len(Tail(s)) = Len(s) - 1 /\ Len(s) > 0
         /\ Head(s) = s[1]
         /\ \A i \in 1 .. Len(Tail(s)) : Tail(s)[i] = s[i + 1]
         /\ ToSet(s) = {Head(s)} \cup ToSet(Tail(s))
         /\ IsInjective(s) => IsInjective(Tail(s)) /\ Head(s) \notin ToSet(Tail(s))
<1> DEFINE t == Tail(s)
<1>1. /\ Head(s) \in S /\ t \in Seq(S) /\ Len(t) = Len(s) - 1
      /\ \A i \in 1 .. Len(t) : t[i] = s[i + 1]
  BY HeadTailProperties
<1>2. Head(s) = s[1]
  OBVIOUS
<1>3. /\ DOMAIN s = 1 .. Len(s) /\ Len(s) \in Nat /\ Len(s) > 0
      /\ DOMAIN t = 1 .. Len(t) /\ Len(t) \in Nat
      /\ ToSet(s) = {s[i] : i \in 1 .. Len(s)}
      /\ ToSet(t) = {t[i] : i \in 1 .. Len(t)}
  BY <1>1, Elements
<1> HIDE DEF t
<1>4. /\ \A i \in 1 .. Len(t) : i + 1 \in 1 .. Len(s) /\ i + 1 # 1
      /\ \A i \in 1 .. Len(s) : i = 1 \/ (i - 1 \in 1 .. Len(t) /\ i = (i - 1) + 1)
  BY <1>1, <1>3
<1>5. ToSet(s) = {Head(s)} \cup ToSet(t)
  <2>1. \A x \in ToSet(t) : x \in ToSet(s)
    BY <1>1, <1>3, <1>4
  <2>2. Head(s) \in ToSet(s)
    BY <1>2, <1>3
  <2>3. ASSUME NEW i \in 1 .. Len(s), i # 1 PROVE s[i] \in ToSet(t)
    <3>1. i - 1 \in 1 .. Len(t) /\ i = (i - 1) + 1
      BY <1>4, <2>3
    <3> QED BY <1>1, <1>3, <3>1
  <2> QED BY <1>2, <1>3, <2>1, <2>2, <2>3
<1>6. ASSUME IsInjective(s) PROVE IsInjective(t) /\ Head(s) \notin ToSet(t)
  <2>1. \A i, j \in 1 .. Len(s) : s[i] = s[j] => i = j
    BY <1>3, <1>6 DEF IsInjective
  <2>2. \A i, j \in 1 .. Len(t) : t[i] = t[j] => i + 1 = j + 1
    BY <1>1, <1>4, <2>1
  <2>3. \A i \in 1 .. Len(t) : t[i] # s[1]
    BY <1>1, <1>3, <1>4, <2>1
  <2> QED BY <1>2, <1>3, <2>2, <2>3 DEF IsInjective
<1> QED BY <1>1, <1>2, <1>3, <1>5, <1>6 DEF t

\* A list without repetitions is as long as the set of its elements is large.
LEMMA CountedOnce ==
  ASSUME NEW S, NEW s \in Seq(S), IsInjective(s)
  PROVE  IsFiniteSet(ToSet(s)) /\ Cardinality(ToSet(s)) = Len(s)
<1>1. /\ DOMAIN s = 1 .. Len(s) /\ Len(s) \in Nat
      /\ ToSet(s) = {s[i] : i \in 1 .. Len(s)}
  BY Elements
<1>2. s \in [1 .. Len(s) -> ToSet(s)]
  BY <1>1, LenProperties
<1>3. s \in Bijection(1 .. Len(s), ToSet(s))
  BY <1>1, <1>2 DEF Bijection, Injection, Surjection
<1>4. ExistsBijection(1 .. Len(s), ToSet(s))
  BY <1>3 DEF ExistsBijection
<1> QED BY <1>1, <1>4, FS_NatBijection, FS_CountingElements

-----------------------------------------------------------------------------
(* Types.                                                                  *)

Early == {"check", "discover"}

\* What has not been begun yet.
Untouched ==
  /\ pc \in Early => /\ next = 0
                    /\ inDegree = [p \in Programs |-> 0]
                    /\ dependents = [p \in Programs |-> <<>>]
  /\ pc \in Early \cup {"count"} => ready = <<>>
  /\ pc \in Early \cup {"count", "collect"} => sorted = <<>>
  /\ pc = "check" => discovered = <<>> /\ queue = <<>> /\ seen = {} /\ pending = <<>>
  /\ pc = "count" /\ pending # <<>> => next > 0
  /\ pc = "sort" => pending \in Seq(Programs)

\* The lists of a program in the chosen configuration.
LEMMA Lists ==
  ASSUME TypeOK, NEW u \in Programs
  PROVE  after[u] \in Seq(Names) /\ wants[u] \in Seq(Names)
                /\ after[u] \o wants[u] \in Seq(Names)
<1>1. after[u] \in Seq(Names) /\ wants[u] \in Seq(Names)
  BY ConfigAssumption DEF TypeOK
<1> QED BY <1>1, ConcatProperties

LEMMA InitTyped == Init => TypeOK /\ Untouched
<1>1. <<>> \in Seq(Programs) /\ <<>> \in Seq(Names) /\ Len(<<>>) = 0
  BY EmptySeq
<1> QED BY <1>1 DEF Init, TypeOK, Untouched

LEMMA StepTyped == TypeOK /\ Untouched /\ [Next]_vars => TypeOK' /\ Untouched'
<1> SUFFICES ASSUME TypeOK, Untouched, [Next]_vars PROVE TypeOK' /\ Untouched'
  OBVIOUS
<1>a. Len(discovered) \in Nat /\ Programs \subseteq Names /\ Len(<<>>) = 0
  BY Elements, ConfigAssumption DEF TypeOK
<1>1. CASE CheckRoot
  <2>1. /\ UNCHANGED <<inputs, pending, next, degrees, order>>
        /\ next = 0
        /\ \/ pc' = "error" /\ UNCHANGED discovery
           \/ /\ pc' = "discover" /\ root \in Programs
              /\ discovered' = <<root>> /\ queue' = <<root>> /\ seen' = {root}
    BY <1>1 DEF CheckRoot, Untouched, Early
  <2>2. CASE root \in Programs
    <3>1. <<root>> \in Seq(Programs) /\ Len(<<root>>) = 1 /\ {root} \subseteq Programs
      BY <2>2
    <3>2. discovered' \in Seq(Programs) /\ queue' \in Seq(Programs) /\ seen' \subseteq Programs
      BY <2>1, <3>1 DEF TypeOK, discovery
    <3>3. Len(discovered') \in Nat
      BY <3>2, LenProperties
    <3>4. next' \in 0 .. Len(discovered')
      BY <2>1, <3>3
    <3> QED BY <1>1, <2>1, <3>2, <3>4
               DEF TypeOK, Untouched, CheckRoot, inputs, degrees, order, Early
  <2>3. CASE root \notin Programs
    BY <1>1, <2>3 DEF TypeOK, Untouched, CheckRoot, inputs, discovery, degrees, order, Early
  <2> QED BY <2>2, <2>3
<1>2. CASE VisitUnit
  <2>1. Head(queue) \in Programs /\ Tail(queue) \in Seq(Programs)
    BY <1>2, Popped DEF TypeOK, VisitUnit
  <2> QED BY <1>2, <2>1, Lists
             DEF TypeOK, Untouched, VisitUnit, inputs, degrees, order, Early
<1>3. CASE VisitDependency
  <2>1. Tail(pending) \in Seq(Names)
    BY <1>3, Popped DEF TypeOK, VisitDependency
  <2>2. \A d \in Programs :
          /\ Append(discovered, d) \in Seq(Programs) /\ Append(queue, d) \in Seq(Programs)
          /\ Len(Append(discovered, d)) = Len(discovered) + 1
    BY Appended DEF TypeOK
  <2>3. /\ discovered' \in Seq(Programs) /\ queue' \in Seq(Programs)
        /\ seen' \subseteq Programs /\ 0 \in 0 .. Len(discovered')
    <3>1. CASE Head(pending) \in Programs \ seen
      <4>1. /\ discovered' = Append(discovered, Head(pending))
            /\ queue' = Append(queue, Head(pending))
            /\ seen' = seen \cup {Head(pending)}
        BY <1>3, <3>1 DEF VisitDependency
      <4>2. discovered' \in Seq(Programs) /\ Len(discovered') \in Nat
        BY <2>2, <3>1, <4>1, LenProperties
      <4> QED BY <2>2, <3>1, <4>1, <4>2 DEF TypeOK
    <3>2. CASE Head(pending) \notin Programs \ seen
      BY <1>3, <1>a, <3>2 DEF TypeOK, VisitDependency, discovery
    <3> QED BY <3>1, <3>2
  <2> QED BY <1>3, <2>1, <2>3
             DEF TypeOK, Untouched, VisitDependency, inputs, degrees, order, Early
<1>4. CASE CountUnit
  <2>1. next + 1 \in 1 .. Len(discovered)
    BY <1>4, <1>a DEF TypeOK, CountUnit
  <2>2. discovered[next + 1] \in Programs
    BY <2>1, ElementOfSeq DEF TypeOK
  <2>3. after[discovered[next + 1]] \in Seq(Names)
    BY <2>2, Lists
  <2>4. TypeOK'
    BY <1>4, <2>1, <2>3 DEF TypeOK, CountUnit, inputs, discovery, degrees, order
  <2>5. Untouched'
    BY <1>4, <2>1, <1>a DEF TypeOK, Untouched, CountUnit, degrees, order, Early
  <2> QED BY <2>4, <2>5
<1>5. CASE CountEntry
  <2>1. Tail(pending) \in Seq(Names)
    BY <1>5, Popped DEF TypeOK, CountEntry
  <2>2. next \in 1 .. Len(discovered)
    BY <1>5, <1>a DEF TypeOK, Untouched, CountEntry
  <2>3. discovered[next] \in Programs
    BY <2>2, ElementOfSeq DEF TypeOK
  <2>4. \A d \in Programs : Append(dependents[d], discovered[next]) \in Seq(Programs)
    BY <2>3, Appended DEF TypeOK
  <2>5. dependents' \in [Programs -> Seq(Programs)] /\ inDegree' \in [Programs -> Int]
    <3>1. CASE Head(pending) \in seen
      <4>1. /\ dependents' = [dependents EXCEPT ![Head(pending)] =
                               Append(dependents[Head(pending)], discovered[next])]
            /\ inDegree' = [inDegree EXCEPT ![discovered[next]] = inDegree[discovered[next]] + 1]
            /\ Head(pending) \in Programs
        BY <1>5, <3>1 DEF TypeOK, CountEntry
      <4>2. Append(dependents[Head(pending)], discovered[next]) \in Seq(Programs)
        BY <2>4, <4>1
      <4>3. inDegree[discovered[next]] + 1 \in Int
        BY <2>3 DEF TypeOK
      <4> QED BY <4>1, <4>2, <4>3 DEF TypeOK
    <3>2. CASE Head(pending) \notin seen
      BY <1>5, <3>2 DEF TypeOK, CountEntry, degrees
    <3> QED BY <3>1, <3>2
  <2> QED BY <1>5, <2>1, <2>2, <2>5
             DEF TypeOK, Untouched, CountEntry, inputs, discovery, order, Early
<1>6. CASE CollectReady
  <2>1. next + 1 \in 1 .. Len(discovered)
    BY <1>6, <1>a DEF TypeOK, CollectReady
  <2>2. discovered[next + 1] \in Programs
    BY <2>1, ElementOfSeq DEF TypeOK
  <2>3. ready' \in Seq(Programs)
    BY <1>6, <2>2, Appended DEF TypeOK, CollectReady
  <2>4. TypeOK'
    BY <1>6, <2>1, <2>3 DEF TypeOK, CollectReady, inputs, discovery, degrees
  <2>5. Untouched'
    BY <1>6 DEF Untouched, CollectReady, discovery, degrees, Early
  <2> QED BY <2>4, <2>5
<1>7. CASE SortUnit
  <2>1. Head(ready) \in Programs /\ Tail(ready) \in Seq(Programs)
    BY <1>7, Popped DEF TypeOK, SortUnit
  <2>2. Append(sorted, Head(ready)) \in Seq(Programs)
    BY <2>1, Appended DEF TypeOK
  <2>3. dependents[Head(ready)] \in Seq(Programs)
    BY <2>1 DEF TypeOK
  <2>4. dependents[Head(ready)] \in Seq(Names)
    BY <1>a, <2>3, SeqMonotonic
  <2> QED BY <1>7, <2>1, <2>2, <2>3, <2>4
             DEF TypeOK, Untouched, SortUnit, inputs, discovery, degrees, Early
<1>8. CASE ReleaseDependent
  <2>1. pending \in Seq(Programs) /\ pending # <<>>
    BY <1>8 DEF Untouched, ReleaseDependent
  <2>2. Head(pending) \in Programs /\ Tail(pending) \in Seq(Programs)
    BY <2>1, Popped
  <2>3. Tail(pending) \in Seq(Names)
    BY <1>a, <2>2, SeqMonotonic
  <2>4. Append(ready, Head(pending)) \in Seq(Programs)
    BY <2>2, Appended DEF TypeOK
  <2>5. inDegree' \in [Programs -> Int] /\ ready' \in Seq(Programs)
    <3>1. inDegree' = [inDegree EXCEPT ![Head(pending)] = inDegree[Head(pending)] - 1]
      BY <1>8 DEF ReleaseDependent
    <3>2. inDegree[Head(pending)] - 1 \in Int
      BY <2>2 DEF TypeOK
    <3>3. inDegree' \in [Programs -> Int]
      BY <3>1, <3>2 DEF TypeOK
    <3>4. ready' = Append(ready, Head(pending)) \/ ready' = ready
      BY <1>8 DEF ReleaseDependent
    <3> QED BY <2>4, <3>3, <3>4 DEF TypeOK
  <2> QED BY <1>8, <2>2, <2>3, <2>5
             DEF TypeOK, Untouched, ReleaseDependent, inputs, discovery, Early
<1>9. CASE AppendRest
  <2>1. next + 1 \in 1 .. Len(discovered)
    BY <1>9, <1>a DEF TypeOK, AppendRest
  <2>2. discovered[next + 1] \in Programs
    BY <2>1, ElementOfSeq DEF TypeOK
  <2>3. sorted' \in Seq(Programs)
    BY <1>9, <2>2, Appended DEF TypeOK, AppendRest
  <2> QED BY <1>9, <2>1, <2>3
             DEF TypeOK, Untouched, AppendRest, inputs, discovery, degrees, Early
<1>10. CASE LoopDone
  <2>1. next' = 0 /\ 0 \in 0 .. Len(discovered) /\ <<>> \in Seq(Programs)
    BY <1>10, <1>a DEF LoopDone
  <2>2. pending = <<>> /\ UNCHANGED <<inputs, discovery, pending, degrees, order>>
    BY <1>10 DEF LoopDone
  <2>3. /\ pc' \in {"count", "collect", "sort", "rest", "done"}
        /\ pc' = "count" => pc = "discover"
        /\ pc' = "collect" => pc = "count"
        /\ pc' \in {"count", "collect", "sort"} => pc \in {"discover", "count", "collect"}
    BY <1>10 DEF LoopDone
  <2>4. TypeOK'
    BY <2>1, <2>2, <2>3 DEF TypeOK, inputs, discovery, degrees, order
  <2>5. Untouched'
    BY <1>10, <2>1, <2>2 DEF Untouched, LoopDone, discovery, degrees, order, Early
  <2> QED BY <2>4, <2>5
<1>11. CASE Returned \/ UNCHANGED vars
  BY <1>11 DEF TypeOK, Untouched, Returned, vars, inputs, discovery, degrees, order
<1> QED BY <1>1, <1>2, <1>3, <1>4, <1>5, <1>6, <1>7, <1>8, <1>9, <1>10, <1>11 DEF Next

(***************************************************************************)
(* Whatever names the lists mention and however often, what the loops hold *)
(* are configured programs, and no index leaves "discovered".              *)
(***************************************************************************)
THEOREM StartOrderTypeCorrect == Spec => []TypeOK
<1>1. Init => TypeOK /\ Untouched
  BY InitTyped
<1>2. TypeOK /\ Untouched /\ [Next]_vars => TypeOK' /\ Untouched'
  BY StepTyped
<1> QED BY <1>1, <1>2, PTL DEF Spec


-----------------------------------------------------------------------------
(* The discovery finds the closure of the root.                            *)

\* S holds the root and everything its members bring in.
ClosedUnderMentions(S) ==
  root \in S /\ \A u \in S, d \in Programs : Mentions(u, d) => d \in S

DiscoveryInv ==
  pc \notin {"check", "error"} =>
    /\ ToSet(discovered) = seen /\ IsInjective(discovered) /\ root \in seen
    /\ \A S \in SUBSET Programs : ClosedUnderMentions(S) => seen \subseteq S
    /\ pc = "discover" =>
         /\ ToSet(queue) \subseteq seen
         /\ \A S \in SUBSET Programs :
              ClosedUnderMentions(S) => ToSet(pending) \cap Programs \subseteq S
         /\ \A u \in seen \ ToSet(queue), d \in Programs :
              Mentions(u, d) => d \in seen \cup ToSet(pending)
    /\ pc # "discover" => \A u \in seen, d \in Programs : Mentions(u, d) => d \in seen

\* What VisitUnit chains is what the unit mentions.
LEMMA ChainedLists ==
  ASSUME TypeOK, NEW u \in Programs, NEW d
  PROVE  Mentions(u, d) <=> d \in ToSet(after[u] \o wants[u])
<1> DEFINE a == after[u]  w == wants[u]  c == a \o w
<1>1. a \in Seq(Names) /\ w \in Seq(Names) /\ c \in Seq(Names)
  BY Lists
<1>2. /\ Len(a) \in Nat /\ Len(w) \in Nat /\ Len(c) = Len(a) + Len(w)
      /\ \A i \in 1 .. Len(c) : c[i] = IF i <= Len(a) THEN a[i] ELSE w[i - Len(a)]
      /\ DOMAIN a = 1 .. Len(a) /\ DOMAIN w = 1 .. Len(w)
      /\ ToSet(c) = {c[i] : i \in 1 .. Len(c)}
  <2> HIDE DEF a, w
  <2>1. /\ Len(c) = Len(a) + Len(w)
        /\ \A i \in 1 .. Len(c) : c[i] = IF i <= Len(a) THEN a[i] ELSE w[i - Len(a)]
    BY <1>1, ConcatProperties
  <2>2. /\ Len(a) \in Nat /\ Len(w) \in Nat
        /\ DOMAIN a = 1 .. Len(a) /\ DOMAIN w = 1 .. Len(w)
    BY <1>1, LenProperties
  <2>3. ToSet(c) = {c[i] : i \in 1 .. Len(c)}
    BY <1>1, Elements
  <2> QED BY <2>1, <2>2, <2>3
<1>3. Mentions(u, d) <=> (\E k \in 1 .. Len(a) : a[k] = d) \/ (\E k \in 1 .. Len(w) : w[k] = d)
  BY <1>2 DEF Mentions, DependsOn
<1> HIDE DEF a, w, c
<1>4. ASSUME NEW k \in 1 .. Len(a), a[k] = d PROVE d \in ToSet(c)
  <2>1. k \in 1 .. Len(c) /\ k <= Len(a)
    BY <1>2
  <2> QED BY <1>2, <1>4, <2>1
<1>5. ASSUME NEW k \in 1 .. Len(w), w[k] = d PROVE d \in ToSet(c)
  <2>1. /\ k + Len(a) \in 1 .. Len(c) /\ ~ (k + Len(a) <= Len(a))
        /\ (k + Len(a)) - Len(a) = k
    BY <1>2
  <2>2. c[k + Len(a)] = w[k]
    BY <1>2, <2>1
  <2> QED BY <1>2, <1>5, <2>1, <2>2
<1>6. ASSUME NEW i \in 1 .. Len(c), c[i] = d
      PROVE  (\E k \in 1 .. Len(a) : a[k] = d) \/ (\E k \in 1 .. Len(w) : w[k] = d)
  <2>1. CASE i <= Len(a)
    BY <1>2, <1>6, <2>1
  <2>2. CASE ~ (i <= Len(a))
    <3>1. i - Len(a) \in 1 .. Len(w)
      BY <1>2, <2>2
    <3> QED BY <1>2, <1>6, <2>2, <3>1
  <2> QED BY <2>1, <2>2
<1> QED BY <1>2, <1>3, <1>4, <1>5, <1>6 DEF a, w, c

\* No step changes who brings in whom.
LEMMA SameMentions ==
  [Next]_vars => /\ after' = after /\ wants' = wants /\ root' = root
                 /\ \A u, d : Mentions(u, d)' <=> Mentions(u, d)
                 /\ \A S : ClosedUnderMentions(S)' <=> ClosedUnderMentions(S)
<1> SUFFICES ASSUME [Next]_vars
             PROVE  /\ after' = after /\ wants' = wants /\ root' = root
                    /\ \A u, d : Mentions(u, d)' <=> Mentions(u, d)
                    /\ \A S : ClosedUnderMentions(S)' <=> ClosedUnderMentions(S)
  OBVIOUS
<1>1. after' = after /\ wants' = wants /\ root' = root
  BY DEF Next, vars, inputs, CheckRoot, VisitUnit, VisitDependency, CountUnit, CountEntry,
         CollectReady, SortUnit, ReleaseDependent, AppendRest, LoopDone, Returned
<1>2. \A u, d : Mentions(u, d)' <=> Mentions(u, d)
  BY <1>1 DEF Mentions, DependsOn
<1>3. \A S : ClosedUnderMentions(S)' <=> ClosedUnderMentions(S)
  BY <1>1, <1>2 DEF ClosedUnderMentions
<1> QED BY <1>1, <1>2, <1>3

LEMMA StepDiscovery ==
  TypeOK /\ Untouched /\ DiscoveryInv /\ [Next]_vars => DiscoveryInv'
<1> SUFFICES ASSUME TypeOK, Untouched, DiscoveryInv, [Next]_vars PROVE DiscoveryInv'
  OBVIOUS
<1>s. /\ root' = root
      /\ \A u, d : Mentions(u, d)' <=> Mentions(u, d)
      /\ \A S : ClosedUnderMentions(S)' <=> ClosedUnderMentions(S)
  BY SameMentions
<1>1. CASE CheckRoot
  <2>1. CASE root \in Programs
    <3>1. /\ pc' = "discover" /\ discovered' = <<root>> /\ queue' = <<root>>
          /\ seen' = {root} /\ pending' = <<>>
      BY <1>1, <2>1 DEF CheckRoot, Untouched
    <3>2. ToSet(<<root>>) = {root} /\ IsInjective(<<root>>) /\ ToSet(<<>>) = {}
      BY DEF ToSet, IsInjective
    <3>3. \A S : ClosedUnderMentions(S) => root \in S
      BY DEF ClosedUnderMentions
    <3> QED BY <1>s, <3>1, <3>2, <3>3 DEF DiscoveryInv
  <2>2. CASE root \notin Programs
    BY <1>1, <2>2 DEF CheckRoot, DiscoveryInv
  <2> QED BY <2>1, <2>2
<1>2. CASE VisitUnit
  <2> DEFINE unit == Head(queue)
  <2>1. /\ pc = "discover" /\ pc' = "discover" /\ pending = <<>> /\ queue # <<>>
        /\ pending' = after[unit] \o wants[unit] /\ queue' = Tail(queue)
        /\ discovered' = discovered /\ seen' = seen
    BY <1>2 DEF VisitUnit
  <2>2. unit \in Programs /\ unit \in seen /\ ToSet(queue) = {unit} \cup ToSet(queue')
    BY <2>1, Popped DEF TypeOK, DiscoveryInv
  <2>3. \A d : Mentions(unit, d) <=> d \in ToSet(pending')
    BY <2>1, <2>2, ChainedLists
  <2> HIDE DEF unit
  <2>4. ASSUME NEW S \in SUBSET Programs, ClosedUnderMentions(S)
        PROVE  ToSet(pending') \cap Programs \subseteq S
    BY <2>1, <2>2, <2>3, <2>4 DEF DiscoveryInv, ClosedUnderMentions
  <2>5. ASSUME NEW u \in seen \ ToSet(queue'), NEW d \in Programs, Mentions(u, d)
        PROVE  d \in seen \cup ToSet(pending')
    <3>1. CASE u = unit
      BY <2>3, <2>5, <3>1
    <3>2. CASE u # unit
      <4>1. d \in seen \cup ToSet(pending)
        BY <2>1, <2>2, <2>5, <3>2 DEF DiscoveryInv
      <4>2. ToSet(<<>>) = {}
        BY DEF ToSet
      <4> QED BY <2>1, <4>1, <4>2
    <3> QED BY <3>1, <3>2
  <2> QED BY <1>s, <2>1, <2>2, <2>4, <2>5 DEF DiscoveryInv
<1>3. CASE VisitDependency
  <2> DEFINE dep == Head(pending)
  <2>1. /\ pc = "discover" /\ pc' = "discover" /\ pending # <<>> /\ pending' = Tail(pending)
    BY <1>3 DEF VisitDependency
  <2>2. ToSet(pending) = {dep} \cup ToSet(pending')
    BY <2>1, Popped DEF TypeOK
  <2>3. CASE dep \in Programs \ seen
    <3>1. /\ seen' = seen \cup {dep} /\ discovered' = Append(discovered, dep)
          /\ queue' = Append(queue, dep)
      BY <1>3, <2>3 DEF VisitDependency
    <3>2. /\ ToSet(discovered') = ToSet(discovered) \cup {dep} /\ IsInjective(discovered')
          /\ ToSet(queue') = ToSet(queue) \cup {dep}
      BY <2>1, <2>3, <3>1, Appended DEF TypeOK, DiscoveryInv
    <3> HIDE DEF dep
    <3> QED BY <1>s, <2>1, <2>2, <2>3, <3>1, <3>2 DEF DiscoveryInv
  <2>4. CASE dep \notin Programs \ seen
    <3>1. UNCHANGED discovery
      BY <1>3, <2>4 DEF VisitDependency
    <3> HIDE DEF dep
    <3> QED BY <1>s, <2>1, <2>2, <2>4, <3>1 DEF DiscoveryInv, discovery
  <2> QED BY <2>3, <2>4
<1>4. CASE CountUnit \/ CountEntry \/ CollectReady \/ SortUnit \/ ReleaseDependent \/ AppendRest
  <2>1. /\ pc' = pc /\ pc \notin {"check", "error", "discover"}
        /\ discovered' = discovered /\ seen' = seen
    BY <1>4 DEF CountUnit, CountEntry, CollectReady, SortUnit, ReleaseDependent, AppendRest,
                discovery
  <2> QED BY <1>s, <2>1 DEF DiscoveryInv
<1>5. CASE LoopDone
  <2>1. /\ pending = <<>> /\ discovered' = discovered /\ seen' = seen
        /\ pc' \in {"count", "collect", "sort", "rest", "done"}
        /\ pc = "discover" => queue = <<>>
        /\ pc \in {"discover", "count", "collect", "sort", "rest"}
    BY <1>5 DEF LoopDone, discovery
  <2>2. ToSet(<<>>) = {}
    BY DEF ToSet
  <2> QED BY <1>s, <2>1, <2>2 DEF DiscoveryInv
<1>6. CASE Returned \/ UNCHANGED vars
  <2>1. UNCHANGED <<pc, discovered, seen, queue, pending>>
    BY <1>6 DEF Returned, vars, discovery
  <2> QED BY <1>s, <2>1 DEF DiscoveryInv
<1> QED BY <1>1, <1>2, <1>3, <1>4, <1>5, <1>6 DEF Next

\* Once the discovery is over, what it has seen is the closure of the root.
LEMMA SeenIsClosure ==
  TypeOK /\ DiscoveryInv /\ pc \notin {"check", "error", "discover"}
    => seen = Closure(root, Mentions)
<1> SUFFICES ASSUME TypeOK, DiscoveryInv, pc \notin {"check", "error", "discover"}
             PROVE  seen = Closure(root, Mentions)
  OBVIOUS
<1>1. seen \in SUBSET Programs /\ ClosedUnderMentions(seen)
  BY DEF TypeOK, DiscoveryInv, ClosedUnderMentions
<1>2. \A S \in SUBSET Programs : ClosedUnderMentions(S) => seen \subseteq S
  BY DEF DiscoveryInv
<1>3. Closure(root, Mentions) =
        {p \in Programs : \A S \in SUBSET Programs : ClosedUnderMentions(S) => p \in S}
  BY DEF Closure, ClosedUnderMentions
<1> QED BY <1>1, <1>2, <1>3


-----------------------------------------------------------------------------
(* The in-degrees count the entries of "dependents" that are to be         *)
(* released.                                                               *)

\* Entry number e[2] of the dependents of e[1] is still to come.
Unreleased(e) ==
  /\ e[2] \in 1 .. Len(dependents[e[1]])
  /\ e[1] \in ToSet(sorted) =>
       /\ e[1] = sorted[Len(sorted)]
       /\ e[2] > Len(dependents[e[1]]) - Len(pending)

\* The entries that still keep u back.
Owed(u) == {e \in Programs \X Nat : Unreleased(e) /\ dependents[e[1]][e[2]] = u}

Sorting == Early \cup {"count", "collect", "sort"}

DegreesAreOwed ==
  pc \in Sorting =>
    \A u \in Programs : IsFiniteSet(Owed(u)) /\ Cardinality(Owed(u)) = inDegree[u]

\* What is pending while units are sorted is the rest of one list of dependents.
PendingIsTheRest ==
  /\ \A d \in Programs : ToSet(dependents[d]) \subseteq seen
  /\ pc = "sort" => ToSet(pending) \subseteq seen
  /\ pc = "sort" /\ pending # <<>> =>
       /\ sorted # <<>>
       /\ Len(pending) <= Len(dependents[sorted[Len(sorted)]])
       /\ \A j \in 1 .. Len(pending) :
            pending[j] = dependents[sorted[Len(sorted)]]
                           [Len(dependents[sorted[Len(sorted)]]) - Len(pending) + j]

\* A unit is ready or sorted at most once, and nobody keeps it back any more.
SortedOnce ==
  /\ pc = "collect" =>
       /\ IsInjective(ready)
       /\ \A x \in ToSet(ready) : inDegree[x] = 0 /\ \E i \in 1 .. next : discovered[i] = x
  /\ pc = "sort" =>
       /\ IsInjective(ready) /\ IsInjective(sorted)
       /\ ToSet(ready) \cap ToSet(sorted) = {}
       /\ ToSet(ready) \cup ToSet(sorted) \subseteq seen
       /\ \A x \in ToSet(ready) \cup ToSet(sorted) : inDegree[x] = 0
  /\ pc = "rest" =>
       /\ IsInjective(sorted) /\ ToSet(sorted) \subseteq seen
       /\ \A i \in 1 .. next : discovered[i] \in ToSet(sorted)
  /\ pc = "done" => IsInjective(sorted) /\ ToSet(sorted) = seen

\* Before the first unit is sorted, every entry is still to come.
LEMMA OwedAtFirst ==
  sorted = <<>> =>
    \A u : Owed(u) = {e \in Programs \X Nat : /\ e[2] \in 1 .. Len(dependents[e[1]])
                                              /\ dependents[e[1]][e[2]] = u}
BY DEF Owed, Unreleased, ToSet

LEMMA InitOwed == Init => DegreesAreOwed
<1> SUFFICES ASSUME Init PROVE DegreesAreOwed
  OBVIOUS
<1>1. sorted = <<>> /\ \A d \in Programs : dependents[d] = <<>> /\ inDegree[d] = 0
  BY DEF Init
<1>2. \A u : Owed(u) = {}
  BY <1>1, OwedAtFirst
<1> QED BY <1>1, <1>2, FS_EmptySet DEF DegreesAreOwed

\* The entry that is pending keeps its unit back.
LEMMA PendingIsOwed ==
  ASSUME TypeOK, PendingIsTheRest, pc = "sort", pending # <<>>
  PROVE  \E e \in Owed(Head(pending)) :
           /\ e = <<sorted[Len(sorted)],
                    Len(dependents[sorted[Len(sorted)]]) - Len(pending) + 1>>
           /\ sorted[Len(sorted)] \in ToSet(sorted) \cap Programs
<1> DEFINE d == sorted[Len(sorted)]
           k == Len(dependents[d]) - Len(pending) + 1
<1>1. Len(sorted) \in 1 .. Len(sorted) /\ d \in ToSet(sorted) /\ d \in Programs
  <2>1. sorted \in Seq(Programs) /\ sorted # <<>>
    BY DEF TypeOK, PendingIsTheRest
  <2>2. /\ Len(sorted) \in Nat /\ Len(sorted) > 0 /\ ToSet(sorted) \subseteq Programs
        /\ ToSet(sorted) = {sorted[i] : i \in 1 .. Len(sorted)}
    BY <2>1, Elements
  <2> QED BY <2>2
<1>2. dependents[d] \in Seq(Programs) /\ Len(dependents[d]) \in Nat
  BY <1>1, Elements DEF TypeOK
<1>3. Len(pending) \in Nat /\ Len(pending) > 0 /\ Head(pending) = pending[1]
  BY Popped, Elements DEF TypeOK
<1>4. Len(pending) <= Len(dependents[d]) /\ pending[1] = dependents[d][k]
  BY <1>3 DEF PendingIsTheRest
<1> HIDE DEF d
<1>5. k \in 1 .. Len(dependents[d]) /\ k > Len(dependents[d]) - Len(pending) /\ k \in Nat
  BY <1>2, <1>3, <1>4
<1> HIDE DEF k
<1>6. <<d, k>> \in Owed(Head(pending))
  <2>1. d = sorted[Len(sorted)]
    BY DEF d
  <2> QED BY <1>1, <1>3, <1>4, <1>5, <2>1 DEF Owed, Unreleased
<1> QED BY <1>1, <1>6 DEF d, k

\* So its in-degree is not zero.
LEMMA OwedIsPositive ==
  ASSUME TypeOK, Untouched, PendingIsTheRest, DegreesAreOwed, pc = "sort", pending # <<>>
  PROVE  Head(pending) \in Programs /\ inDegree[Head(pending)] > 0
<1>1. Head(pending) \in Programs
  BY Popped DEF Untouched
<1>2. Owed(Head(pending)) # {}
  BY PendingIsOwed
<1>3. /\ IsFiniteSet(Owed(Head(pending)))
      /\ Cardinality(Owed(Head(pending))) = inDegree[Head(pending)]
  BY <1>1 DEF DegreesAreOwed, Sorting
<1>4. Cardinality(Owed(Head(pending))) # 0 /\ Cardinality(Owed(Head(pending))) \in Nat
  BY <1>2, <1>3, FS_EmptySet, FS_CardinalityType
<1> QED BY <1>1, <1>3, <1>4

LEMMA StepOwed ==
  TypeOK /\ Untouched /\ PendingIsTheRest /\ SortedOnce /\ DegreesAreOwed /\ [Next]_vars
    => DegreesAreOwed'
<1> SUFFICES ASSUME TypeOK, Untouched, PendingIsTheRest, SortedOnce, DegreesAreOwed, [Next]_vars,
                    pc' \in Sorting, NEW u \in Programs
             PROVE  IsFiniteSet(Owed(u)') /\ Cardinality(Owed(u)') = inDegree'[u]
  BY DEF DegreesAreOwed
<1>a. /\ pc \in Sorting => IsFiniteSet(Owed(u)) /\ Cardinality(Owed(u)) = inDegree[u]
      /\ sorted = <<>> =>
           Owed(u) = {e \in Programs \X Nat : /\ e[2] \in 1 .. Len(dependents[e[1]])
                                              /\ dependents[e[1]][e[2]] = u}
  BY OwedAtFirst DEF DegreesAreOwed
<1>b. sorted' = <<>> =>
        Owed(u)' = {e \in Programs \X Nat : /\ e[2] \in 1 .. Len(dependents'[e[1]])
                                            /\ dependents'[e[1]][e[2]] = u}
  BY DEF Owed, Unreleased, ToSet
<1>1. CASE CheckRoot \/ VisitUnit \/ VisitDependency \/ CountUnit \/ CollectReady
  <2>1. /\ pc \in Sorting /\ sorted = <<>> /\ sorted' = sorted
        /\ inDegree' = inDegree /\ dependents' = dependents
    BY <1>1 DEF CheckRoot, VisitUnit, VisitDependency, CountUnit, CollectReady, Sorting, Early,
                Untouched, degrees, order
  <2> QED BY <1>a, <1>b, <2>1
<1>2. CASE LoopDone \/ Returned \/ UNCHANGED vars
  <2>1. /\ pc \in Sorting /\ sorted' = sorted /\ pending' = pending
        /\ inDegree' = inDegree /\ dependents' = dependents
    BY <1>2 DEF LoopDone, Returned, vars, Sorting, Early, degrees, order
  <2> QED BY <1>a, <2>1 DEF Owed, Unreleased
<1>3. CASE AppendRest
  BY <1>3 DEF AppendRest, Sorting, Early
<1>4. CASE CountEntry
  <2> DEFINE d == Head(pending)
             unit == discovered[next]
             e == <<d, Len(dependents[d]) + 1>>
  <2>1. pc = "count" /\ pc \in Sorting /\ sorted = <<>> /\ sorted' = <<>> /\ pending # <<>>
    BY <1>4 DEF CountEntry, Untouched, Sorting, Early, order
  <2>2. CASE d \notin seen
    <3>1. inDegree' = inDegree /\ dependents' = dependents
      BY <1>4, <2>2 DEF CountEntry, degrees
    <3> QED BY <1>a, <1>b, <2>1, <3>1
  <2>3. CASE d \in seen
    <3>1. /\ d \in Programs /\ unit \in Programs
          /\ dependents' = [dependents EXCEPT ![d] = Append(dependents[d], unit)]
          /\ inDegree' = [inDegree EXCEPT ![unit] = inDegree[unit] + 1]
      <4>1. next \in 1 .. Len(discovered)
        BY <2>1, Elements DEF TypeOK, Untouched
      <4>2. unit \in Programs
        BY <4>1, ElementOfSeq DEF TypeOK
      <4> QED BY <1>4, <2>3, <4>2 DEF CountEntry, TypeOK
    <3>2. /\ dependents[d] \in Seq(Programs) /\ Len(dependents[d]) \in Nat
          /\ Len(Append(dependents[d], unit)) = Len(dependents[d]) + 1
          /\ Append(dependents[d], unit)[Len(dependents[d]) + 1] = unit
          /\ \A i \in 1 .. Len(dependents[d]) :
               Append(dependents[d], unit)[i] = dependents[d][i]
      <4>1. dependents[d] \in Seq(Programs)
        BY <3>1 DEF TypeOK
      <4>2. Len(dependents[d]) \in Nat
        BY <4>1, Elements
      <4> HIDE DEF d, unit
      <4> QED BY <3>1, <4>1, <4>2, Appended
    <3>3. \A p \in Programs : p # d => dependents'[p] = dependents[p]
      BY <3>1 DEF TypeOK
    <3>4. dependents'[d] = Append(dependents[d], unit)
      BY <3>1 DEF TypeOK
    <3>5. e \in Programs \X Nat /\ e[1] = d /\ e[2] = Len(dependents[d]) + 1
      BY <3>1, <3>2
    <3> HIDE DEF d, unit, e
    <3>6. ASSUME NEW f \in Programs \X Nat, f # e
          PROVE  (f[2] \in 1 .. Len(dependents'[f[1]]) /\ dependents'[f[1]][f[2]] = u)
                   <=> (f[2] \in 1 .. Len(dependents[f[1]]) /\ dependents[f[1]][f[2]] = u)
      <4>1. CASE f[1] # d
        BY <3>3, <4>1
      <4>2. CASE f[1] = d
        <5>1. f[2] # Len(dependents[d]) + 1
          BY <3>5, <3>6, <4>2
        <5>2. f[2] \in 1 .. Len(dependents[d]) + 1 <=> f[2] \in 1 .. Len(dependents[d])
          BY <3>2, <5>1
        <5> QED BY <3>2, <3>4, <4>2, <5>2
      <4> QED BY <4>1, <4>2
    <3>7. /\ e[2] \in 1 .. Len(dependents'[e[1]]) /\ dependents'[e[1]][e[2]] = unit
          /\ e[2] \notin 1 .. Len(dependents[e[1]])
      BY <3>2, <3>4, <3>5
    <3>8. e \notin Owed(u)
      BY <1>a, <2>1, <3>7
    <3>9. CASE u = unit
      <4>1. Owed(u)' = Owed(u) \cup {e}
        BY <1>a, <1>b, <2>1, <3>5, <3>6, <3>7, <3>9
      <4>2. inDegree'[u] = inDegree[u] + 1
        BY <3>1, <3>9 DEF TypeOK
      <4> QED BY <1>a, <2>1, <3>8, <4>1, <4>2, FS_AddElement
    <3>10. CASE u # unit
      <4>1. Owed(u)' = Owed(u)
        BY <1>a, <1>b, <2>1, <3>5, <3>6, <3>7, <3>10
      <4>2. inDegree'[u] = inDegree[u]
        BY <3>1, <3>10 DEF TypeOK
      <4> QED BY <1>a, <2>1, <4>1, <4>2
    <3> QED BY <3>9, <3>10
  <2> QED BY <2>2, <2>3
<1>5. CASE SortUnit
  <2> DEFINE x == Head(ready)
  <2>1. /\ pc = "sort" /\ pc \in Sorting /\ pending = <<>> /\ ready # <<>>
        /\ sorted' = Append(sorted, x) /\ pending' = dependents[x]
        /\ inDegree' = inDegree /\ dependents' = dependents
    BY <1>5 DEF SortUnit, Sorting, degrees
  <2>2. x \in ToSet(ready) /\ x \in Programs
    BY <2>1, Popped DEF TypeOK
  <2>3. x \notin ToSet(sorted)
    BY <2>1, <2>2 DEF SortedOnce
  <2>4. /\ ToSet(sorted') = ToSet(sorted) \cup {x} /\ sorted'[Len(sorted')] = x
        /\ \A p \in Programs : Len(dependents[p]) \in Nat
        /\ Len(<<>>) = 0
    <3>1. /\ ToSet(Append(sorted, x)) = ToSet(sorted) \cup {x}
          /\ Len(Append(sorted, x)) = Len(sorted) + 1 /\ Append(sorted, x)[Len(sorted) + 1] = x
      BY <2>2, Appended DEF TypeOK
    <3>2. \A p \in Programs : Len(dependents[p]) \in Nat
      BY Elements DEF TypeOK
    <3> HIDE DEF x
    <3> QED BY <2>1, <3>1, <3>2
  <2> HIDE DEF x
  <2>5. \A e \in Programs \X Nat : Unreleased(e)' <=> Unreleased(e)
    <3> SUFFICES ASSUME NEW e \in Programs \X Nat PROVE Unreleased(e)' <=> Unreleased(e)
      OBVIOUS
    <3>1. CASE e[1] = x
      <4>1. Unreleased(e) <=> e[2] \in 1 .. Len(dependents[x])
        BY <2>3, <3>1 DEF Unreleased
      <4>2. Unreleased(e)' <=> /\ e[2] \in 1 .. Len(dependents[x])
                               /\ e[2] > Len(dependents[x]) - Len(dependents[x])
        BY <2>1, <2>4, <3>1 DEF Unreleased
      <4> QED BY <2>2, <2>4, <4>1, <4>2
    <3>2. CASE e[1] # x
      <4>1. Unreleased(e) <=> e[2] \in 1 .. Len(dependents[e[1]]) /\ e[1] \notin ToSet(sorted)
        BY <2>1, <2>4 DEF Unreleased
      <4>2. Unreleased(e)' <=> e[2] \in 1 .. Len(dependents[e[1]]) /\ e[1] \notin ToSet(sorted)
        BY <2>1, <2>4, <3>2 DEF Unreleased
      <4> QED BY <4>1, <4>2
    <3> QED BY <3>1, <3>2
  <2>6. Owed(u)' = Owed(u)
    BY <2>1, <2>5 DEF Owed
  <2> QED BY <1>a, <2>1, <2>6
<1>6. CASE ReleaseDependent
  <2> DEFINE unit == Head(pending)
             d == sorted[Len(sorted)]
             e == <<d, Len(dependents[d]) - Len(pending) + 1>>
  <2>1. /\ pc = "sort" /\ pc \in Sorting /\ pending # <<>> /\ pending' = Tail(pending)
        /\ inDegree' = [inDegree EXCEPT ![unit] = inDegree[unit] - 1]
        /\ dependents' = dependents /\ sorted' = sorted
    BY <1>6 DEF ReleaseDependent, Sorting
  <2>2. /\ e \in Owed(unit) /\ d \in ToSet(sorted) /\ d \in Programs
        /\ e[1] = d /\ e[2] = Len(dependents[d]) - Len(pending) + 1
    BY <2>1, PendingIsOwed
  <2>3. unit \in Programs
    BY <2>1, OwedIsPositive
  <2>4. /\ Len(pending') = Len(pending) - 1 /\ Len(pending) \in Nat
        /\ Len(dependents[d]) \in Nat
    BY <2>1, <2>2, Popped, Elements DEF TypeOK
  <2>5. e \in Programs \X Nat /\ dependents[e[1]][e[2]] = unit
    BY <2>2 DEF Owed
  <2> HIDE DEF unit, e
  <2>6. \A f \in Programs \X Nat : Unreleased(f)' <=> Unreleased(f) /\ f # e
    <3> SUFFICES ASSUME NEW f \in Programs \X Nat
                 PROVE  Unreleased(f)' <=> Unreleased(f) /\ f # e
      OBVIOUS
    <3>1. CASE f[1] = d
      <4>1. f = e <=> f[2] = e[2]
        BY <2>2, <2>5, <3>1
      <4>2. Unreleased(f) <=> /\ f[2] \in 1 .. Len(dependents[d])
                              /\ f[2] > Len(dependents[d]) - Len(pending)
        BY <2>2, <3>1 DEF Unreleased
      <4>3. Unreleased(f)' <=> /\ f[2] \in 1 .. Len(dependents[d])
                               /\ f[2] > Len(dependents[d]) - (Len(pending) - 1)
        BY <2>1, <2>2, <2>4, <3>1 DEF Unreleased
      <4> QED BY <2>2, <2>4, <4>1, <4>2, <4>3
    <3>2. CASE f[1] # d
      BY <2>1, <2>2, <3>2 DEF Unreleased
    <3> QED BY <3>1, <3>2
  <2> HIDE DEF d
  <2>7. CASE u = unit
    <3>1. Owed(u)' = Owed(u) \ {e}
      BY <2>1, <2>6 DEF Owed
    <3>2. inDegree'[u] = inDegree[u] - 1
      BY <2>1, <2>3, <2>7 DEF TypeOK
    <3> QED BY <1>a, <2>1, <2>2, <2>7, <3>1, <3>2, FS_RemoveElement
  <2>8. CASE u # unit
    <3>1. Owed(u)' = Owed(u)
      BY <2>1, <2>5, <2>6, <2>8 DEF Owed
    <3>2. inDegree'[u] = inDegree[u]
      BY <2>1, <2>3, <2>8 DEF TypeOK
    <3> QED BY <1>a, <2>1, <3>1, <3>2
  <2> QED BY <2>7, <2>8
<1> QED BY <1>1, <1>2, <1>3, <1>4, <1>5, <1>6 DEF Next


LEMMA InitSorting == Init => DiscoveryInv /\ PendingIsTheRest /\ SortedOnce
<1> SUFFICES ASSUME Init PROVE DiscoveryInv /\ PendingIsTheRest /\ SortedOnce
  OBVIOUS
<1>1. pc = "check" /\ \A d \in Programs : ToSet(dependents[d]) = {}
  BY DEF Init, ToSet
<1> QED BY <1>1 DEF DiscoveryInv, PendingIsTheRest, SortedOnce

LEMMA StepPending ==
  TypeOK /\ Untouched /\ DiscoveryInv /\ PendingIsTheRest /\ SortedOnce /\ [Next]_vars
    => PendingIsTheRest'
<1> SUFFICES ASSUME TypeOK, Untouched, DiscoveryInv, PendingIsTheRest, SortedOnce, [Next]_vars
             PROVE  PendingIsTheRest'
  OBVIOUS
<1>1. CASE CheckRoot \/ VisitUnit \/ VisitDependency
  <2>1. /\ dependents' = [p \in Programs |-> <<>>] /\ pc' # "sort"
    BY <1>1 DEF CheckRoot, VisitUnit, VisitDependency, Untouched, Early, degrees
  <2>2. \A p \in Programs : ToSet(dependents'[p]) = {}
    BY <2>1 DEF ToSet
  <2> QED BY <2>1, <2>2 DEF PendingIsTheRest
<1>2. CASE CountUnit \/ CollectReady \/ AppendRest
  <2>1. dependents' = dependents /\ seen' = seen /\ pc' # "sort"
    BY <1>2 DEF CountUnit, CollectReady, AppendRest, degrees, discovery
  <2> QED BY <2>1 DEF PendingIsTheRest
<1>3. CASE CountEntry
  <2> DEFINE d == Head(pending)
             unit == discovered[next]
  <2>1. seen' = seen /\ pc' # "sort"
    BY <1>3 DEF CountEntry, discovery
  <2>2. CASE d \notin seen
    <3>1. dependents' = dependents
      BY <1>3, <2>2 DEF CountEntry, degrees
    <3> QED BY <2>1, <3>1 DEF PendingIsTheRest
  <2>3. CASE d \in seen
    <3>1. next \in 1 .. Len(discovered)
      BY <1>3, Elements DEF TypeOK, Untouched, CountEntry
    <3>2. unit \in Programs /\ unit \in ToSet(discovered)
      BY <3>1, Elements DEF TypeOK
    <3>3. unit \in seen
      BY <1>3, <3>2 DEF CountEntry, DiscoveryInv
    <3>4. dependents' = [dependents EXCEPT ![d] = Append(dependents[d], unit)]
      BY <1>3, <2>3 DEF CountEntry
    <3>5. \A p \in Programs :
            dependents'[p] = IF p = d THEN Append(dependents[p], unit) ELSE dependents[p]
      BY <3>4 DEF TypeOK
    <3>6. \A p \in Programs : ToSet(Append(dependents[p], unit)) = ToSet(dependents[p]) \cup {unit}
      BY <3>2, Appended DEF TypeOK
    <3> HIDE DEF d, unit
    <3>7. \A p \in Programs : ToSet(dependents'[p]) \subseteq seen
      <4> SUFFICES ASSUME NEW p \in Programs PROVE ToSet(dependents'[p]) \subseteq seen
        OBVIOUS
      <4>1. ToSet(dependents[p]) \subseteq seen
        BY DEF PendingIsTheRest
      <4>2. CASE p = d
        <5>1. ToSet(dependents'[p]) = ToSet(dependents[p]) \cup {unit}
          BY <3>5, <3>6, <4>2
        <5> QED BY <3>3, <4>1, <5>1
      <4>3. CASE p # d
        <5>1. dependents'[p] = dependents[p]
          BY <3>5, <4>3
        <5> QED BY <4>1, <5>1
      <4> QED BY <4>2, <4>3
    <3> QED BY <2>1, <3>7 DEF PendingIsTheRest
  <2> QED BY <2>2, <2>3
<1>4. CASE SortUnit
  <2> DEFINE x == Head(ready)
  <2>1. /\ ready # <<>> /\ sorted' = Append(sorted, x) /\ pending' = dependents[x]
        /\ dependents' = dependents /\ seen' = seen
    BY <1>4 DEF SortUnit, degrees, discovery
  <2>2. x \in Programs
    BY <2>1, Popped DEF TypeOK
  <2>3. /\ Len(sorted') = Len(sorted) + 1 /\ Len(sorted) \in Nat /\ sorted'[Len(sorted')] = x
        /\ Len(<<>>) = 0
        /\ dependents[x] \in Seq(Programs) /\ Len(dependents[x]) \in Nat
    <3>1. /\ Len(Append(sorted, x)) = Len(sorted) + 1 /\ Append(sorted, x)[Len(sorted) + 1] = x
      BY <2>2, Appended DEF TypeOK
    <3>2. Len(sorted) \in Nat /\ dependents[x] \in Seq(Programs) /\ Len(dependents[x]) \in Nat
      BY <2>2, Elements DEF TypeOK
    <3> HIDE DEF x
    <3> QED BY <2>1, <3>1, <3>2
  <2> HIDE DEF x
  <2>4. sorted' # <<>>
    BY <2>3
  <2>5. Len(pending') <= Len(dependents'[x])
    BY <2>1, <2>3
  <2>6. \A j \in 1 .. Len(pending') :
          pending'[j] = dependents'[x][Len(dependents'[x]) - Len(pending') + j]
    BY <2>1, <2>3
  <2>7. (\A d \in Programs : ToSet(dependents'[d]) \subseteq seen') /\ ToSet(pending') \subseteq seen'
    BY <2>1, <2>2 DEF PendingIsTheRest
  <2> QED BY <2>3, <2>4, <2>5, <2>6, <2>7 DEF PendingIsTheRest
<1>5. CASE ReleaseDependent
  <2> DEFINE d == sorted[Len(sorted)]
  <2>1. /\ pc = "sort" /\ pending # <<>> /\ pending' = Tail(pending)
        /\ dependents' = dependents /\ sorted' = sorted /\ seen' = seen
    BY <1>5 DEF ReleaseDependent, discovery
  <2>2. /\ Len(pending') = Len(pending) - 1 /\ Len(pending) \in Nat
        /\ \A i \in 1 .. Len(pending') : pending'[i] = pending[i + 1]
        /\ ToSet(pending') \subseteq ToSet(pending)
    BY <2>1, Popped, Elements DEF TypeOK
  <2>3. /\ sorted # <<>> /\ d \in Programs /\ Len(dependents[d]) \in Nat
        /\ Len(pending) <= Len(dependents[d])
        /\ \A j \in 1 .. Len(pending) :
             pending[j] = dependents[d][Len(dependents[d]) - Len(pending) + j]
    <3>1. d \in Programs
      BY <2>1, PendingIsOwed
    <3> QED BY <2>1, <3>1, Elements DEF TypeOK, PendingIsTheRest
  <2> HIDE DEF d
  <2>4. Len(pending') <= Len(dependents[d])
    BY <2>2, <2>3
  <2>5. ASSUME NEW j \in 1 .. Len(pending')
        PROVE  pending'[j] = dependents[d][Len(dependents[d]) - Len(pending') + j]
    <3> DEFINE m == Len(dependents[d])  n == Len(pending)  n1 == Len(pending')
    <3>1. j + 1 \in 1 .. n /\ pending'[j] = dependents[d][m - n + (j + 1)]
      <4>1. j + 1 \in 1 .. n
        BY <2>2
      <4> QED BY <2>2, <2>3, <4>1
    <3>2. n1 = n - 1 /\ n \in Int /\ m \in Int /\ j \in Int
      BY <2>2, <2>3
    <3> HIDE DEF m, n, n1
    <3>3. m - n + (j + 1) = m - n1 + j
      BY <3>2
    <3> QED BY <3>1, <3>3 DEF m, n1
  <2>6. (\A p \in Programs : ToSet(dependents'[p]) \subseteq seen') /\ ToSet(pending') \subseteq seen'
    BY <2>1, <2>2 DEF PendingIsTheRest
  <2> QED BY <2>1, <2>3, <2>4, <2>5, <2>6 DEF PendingIsTheRest, d
<1>6. CASE LoopDone
  <2>1. /\ dependents' = dependents /\ seen' = seen /\ pending' = <<>>
    BY <1>6 DEF LoopDone, degrees, discovery
  <2>2. ToSet(<<>>) = {}
    BY DEF ToSet
  <2> QED BY <2>1, <2>2 DEF PendingIsTheRest
<1>7. CASE Returned \/ UNCHANGED vars
  <2>1. UNCHANGED <<pc, seen, dependents, pending, sorted>>
    BY <1>7 DEF Returned, vars, degrees, discovery, order
  <2> QED BY <2>1 DEF PendingIsTheRest
<1> QED BY <1>1, <1>2, <1>3, <1>4, <1>5, <1>6, <1>7 DEF Next

LEMMA StepSortedOnce ==
  TypeOK /\ Untouched /\ DiscoveryInv /\ PendingIsTheRest /\ DegreesAreOwed /\ SortedOnce
    /\ [Next]_vars => SortedOnce'
<1> SUFFICES ASSUME TypeOK, Untouched, DiscoveryInv, PendingIsTheRest, DegreesAreOwed,
                    SortedOnce, [Next]_vars
             PROVE  SortedOnce'
  OBVIOUS
<1>1. CASE CheckRoot \/ VisitUnit \/ VisitDependency \/ CountUnit \/ CountEntry
  <2>1. pc' \in {"error", "discover", "count"}
    BY <1>1 DEF CheckRoot, VisitUnit, VisitDependency, CountUnit, CountEntry
  <2> QED BY <2>1 DEF SortedOnce
<1>2. CASE CollectReady
  <2> DEFINE unit == discovered[next + 1]
  <2>1. /\ pc = "collect" /\ pc' = "collect" /\ next' = next + 1 /\ next + 1 \in 1 .. Len(discovered)
        /\ inDegree' = inDegree /\ discovered' = discovered
        /\ next \in Nat
    BY <1>2, Elements DEF CollectReady, TypeOK, degrees, discovery
  <2>2. unit \in Programs /\ \A i \in 1 .. next : i \in 1 .. next + 1 /\ discovered[i] # unit
    <3>1. DOMAIN discovered = 1 .. Len(discovered)
      BY Elements DEF TypeOK
    <3>2. \A i \in 1 .. next : i \in 1 .. Len(discovered) /\ i # next + 1 /\ i \in 1 .. next + 1
      BY <2>1
    <3>3. \A i \in 1 .. next : discovered[i] # unit
      BY <2>1, <3>1, <3>2 DEF DiscoveryInv, IsInjective
    <3> QED BY <2>1, <3>2, <3>3, ElementOfSeq DEF TypeOK
  <2>3. unit \notin ToSet(ready)
    BY <2>1, <2>2 DEF SortedOnce
  <2>4. CASE inDegree[unit] = 0
    <3>1. ready' = Append(ready, unit)
      BY <1>2, <2>4 DEF CollectReady
    <3>2. ToSet(ready') = ToSet(ready) \cup {unit} /\ IsInjective(ready')
      BY <2>1, <2>2, <2>3, <3>1, Appended DEF TypeOK, SortedOnce
    <3>3. \E i \in 1 .. next' : discovered'[i] = unit
      BY <2>1
    <3>4. ASSUME NEW x \in ToSet(ready)
          PROVE  inDegree'[x] = 0 /\ \E i \in 1 .. next' : discovered'[i] = x
      BY <2>1, <2>2 DEF SortedOnce
    <3> HIDE DEF unit
    <3> QED BY <2>1, <2>4, <3>2, <3>3, <3>4 DEF SortedOnce
  <2>5. CASE inDegree[unit] # 0
    <3>1. ready' = ready
      BY <1>2, <2>5 DEF CollectReady
    <3>2. ASSUME NEW x \in ToSet(ready)
          PROVE  inDegree'[x] = 0 /\ \E i \in 1 .. next' : discovered'[i] = x
      BY <2>1, <2>2 DEF SortedOnce
    <3> QED BY <2>1, <3>1, <3>2 DEF SortedOnce
  <2> QED BY <2>4, <2>5
<1>3. CASE SortUnit
  <2> DEFINE x == Head(ready)
  <2>1. /\ pc = "sort" /\ pc' = "sort" /\ ready # <<>> /\ sorted' = Append(sorted, x)
        /\ ready' = Tail(ready) /\ inDegree' = inDegree /\ seen' = seen
    BY <1>3 DEF SortUnit, degrees, discovery
  <2>2. /\ x \in Programs /\ ToSet(ready) = {x} \cup ToSet(ready')
        /\ IsInjective(ready') /\ x \notin ToSet(ready')
    BY <2>1, Popped DEF TypeOK, SortedOnce
  <2>3. x \notin ToSet(sorted)
    BY <2>1, <2>2 DEF SortedOnce
  <2>4. ToSet(sorted') = ToSet(sorted) \cup {x} /\ IsInjective(sorted')
    BY <2>1, <2>2, <2>3, Appended DEF TypeOK, SortedOnce
  <2> HIDE DEF x
  <2> QED BY <2>1, <2>2, <2>3, <2>4 DEF SortedOnce
<1>4. CASE ReleaseDependent
  <2> DEFINE unit == Head(pending)
  <2>1. /\ pc = "sort" /\ pc' = "sort" /\ pending # <<>> /\ sorted' = sorted /\ seen' = seen
        /\ inDegree' = [inDegree EXCEPT ![unit] = inDegree[unit] - 1]
        /\ ready' = IF inDegree'[unit] = 0 THEN Append(ready, unit) ELSE ready
    BY <1>4 DEF ReleaseDependent, discovery
  <2>2. unit \in Programs /\ inDegree[unit] > 0 /\ unit \in seen
    <3>1. unit \in ToSet(pending)
      BY <2>1, Popped DEF TypeOK
    <3> QED BY <2>1, <3>1, OwedIsPositive DEF PendingIsTheRest
  <2>3. unit \notin ToSet(ready) /\ unit \notin ToSet(sorted)
    BY <2>1, <2>2 DEF SortedOnce
  <2>4. \A y \in Programs : y # unit => inDegree'[y] = inDegree[y]
    BY <2>1, <2>2 DEF TypeOK
  <2>5. ToSet(ready) \subseteq Programs /\ ToSet(sorted) \subseteq Programs
    BY Elements DEF TypeOK
  <2>6. CASE inDegree'[unit] = 0
    <3>1. ToSet(ready') = ToSet(ready) \cup {unit} /\ IsInjective(ready')
      BY <2>1, <2>2, <2>3, <2>6, Appended DEF TypeOK, SortedOnce
    <3> HIDE DEF unit
    <3> QED BY <2>1, <2>2, <2>3, <2>4, <2>5, <2>6, <3>1 DEF SortedOnce
  <2>7. CASE inDegree'[unit] # 0
    <3>1. ready' = ready
      BY <2>1, <2>7
    <3> HIDE DEF unit
    <3> QED BY <2>1, <2>2, <2>3, <2>4, <2>5, <3>1 DEF SortedOnce
  <2> QED BY <2>6, <2>7
<1>5. CASE AppendRest
  <2> DEFINE unit == discovered[next + 1]
  <2>1. /\ pc = "rest" /\ pc' = "rest" /\ next' = next + 1 /\ next + 1 \in 1 .. Len(discovered)
        /\ discovered' = discovered /\ seen' = seen /\ next \in Nat
        /\ sorted' = IF unit \in ToSet(sorted) THEN sorted ELSE Append(sorted, unit)
    BY <1>5, Elements DEF AppendRest, TypeOK, discovery
  <2>2. unit \in Programs /\ unit \in ToSet(discovered)
    <3>1. /\ ToSet(discovered) = {discovered[i] : i \in 1 .. Len(discovered)}
          /\ ToSet(discovered) \subseteq Programs
      BY Elements DEF TypeOK
    <3> QED BY <2>1, <3>1
  <2>3. unit \in seen
    BY <2>1, <2>2 DEF DiscoveryInv
  <2>4. ToSet(sorted') = ToSet(sorted) \cup {unit} /\ IsInjective(sorted')
    <3>1. CASE unit \in ToSet(sorted)
      BY <2>1, <3>1 DEF SortedOnce
    <3>2. CASE unit \notin ToSet(sorted)
      BY <2>1, <2>2, <3>2, Appended DEF TypeOK, SortedOnce
    <3> QED BY <3>1, <3>2
  <2>5. \A i \in 1 .. next + 1 : i \in 1 .. next \/ i = next + 1
    BY <2>1
  <2> QED BY <2>1, <2>3, <2>4, <2>5 DEF SortedOnce
<1>6. CASE LoopDone
  <2>1. /\ next' = 0 /\ seen' = seen /\ ready' = ready /\ sorted' = sorted
        /\ inDegree' = inDegree /\ discovered' = discovered
    BY <1>6 DEF LoopDone, discovery, degrees, order
  <2>2. /\ ToSet(<<>>) = {} /\ IsInjective(<<>>)
        /\ ToSet(discovered) = {discovered[i] : i \in 1 .. Len(discovered)}
    BY Elements DEF ToSet, IsInjective, TypeOK
  <2>3. CASE pc = "discover"
    BY <1>6, <2>3 DEF LoopDone, SortedOnce
  <2>4. CASE pc = "count"
    <3>1. ready' = <<>> /\ pc' = "collect"
      BY <1>6, <2>1, <2>4 DEF LoopDone, Untouched
    <3> QED BY <2>2, <3>1 DEF SortedOnce
  <2>5. CASE pc = "collect"
    <3>1. sorted' = <<>> /\ pc' = "sort" /\ next = Len(discovered)
      BY <1>6, <2>1, <2>5 DEF LoopDone, Untouched
    <3>2. ToSet(ready) \subseteq seen
      BY <2>2, <2>5, <3>1 DEF SortedOnce, DiscoveryInv
    <3> QED BY <2>1, <2>2, <2>5, <3>1, <3>2 DEF SortedOnce
  <2>6. CASE pc = "sort"
    <3>1. IsInjective(sorted) /\ ToSet(sorted) \subseteq seen
      BY <2>6 DEF SortedOnce
    <3>2. CASE Len(sorted) = Len(discovered)
      <4>1. /\ IsFiniteSet(seen) /\ Cardinality(seen) = Len(discovered)
            /\ Cardinality(ToSet(sorted)) = Len(sorted)
        BY <2>6, <3>1, CountedOnce DEF TypeOK, DiscoveryInv
      <4>2. seen = ToSet(sorted)
        BY <3>1, <3>2, <4>1, FS_Subset
      <4>3. pc' = "done"
        BY <1>6, <2>6, <3>2 DEF LoopDone
      <4> QED BY <2>1, <3>1, <4>2, <4>3 DEF SortedOnce
    <3>3. CASE Len(sorted) # Len(discovered)
      <4>1. pc' = "rest"
        BY <1>6, <2>6, <3>3 DEF LoopDone
      <4>2. \A i \in 1 .. next' : FALSE
        BY <2>1
      <4> QED BY <2>1, <3>1, <4>1, <4>2 DEF SortedOnce
    <3> QED BY <3>2, <3>3
  <2>7. CASE pc = "rest"
    <3>1. pc' = "done" /\ next = Len(discovered)
      BY <1>6, <2>7 DEF LoopDone
    <3>2. seen \subseteq ToSet(sorted)
      BY <2>2, <2>7, <3>1 DEF SortedOnce, DiscoveryInv
    <3> QED BY <2>1, <2>7, <3>1, <3>2 DEF SortedOnce
  <2> QED BY <1>6, <2>3, <2>4, <2>5, <2>6, <2>7 DEF LoopDone
<1>7. CASE Returned \/ UNCHANGED vars
  <2>1. UNCHANGED <<pc, seen, discovered, next, inDegree, ready, sorted>>
    BY <1>7 DEF Returned, vars, degrees, discovery, order
  <2> QED BY <2>1 DEF SortedOnce
<1> QED BY <1>1, <1>2, <1>3, <1>4, <1>5, <1>6, <1>7 DEF Next

-----------------------------------------------------------------------------
(* The theorems.                                                           *)

OrderInv ==
  /\ TypeOK /\ Untouched
  /\ DiscoveryInv /\ PendingIsTheRest /\ DegreesAreOwed /\ SortedOnce

THEOREM OrderInvHolds == Spec => []OrderInv
<1>1. Init => OrderInv
  BY InitTyped, InitOwed, InitSorting DEF OrderInv
<1>2. OrderInv /\ [Next]_vars => OrderInv'
  BY StepTyped, StepDiscovery, StepPending, StepOwed, StepSortedOnce DEF OrderInv
<1> QED BY <1>1, <1>2, PTL DEF Spec

(***************************************************************************)
(* "*degree -= 1" is never reached at zero: the in-degree of a unit is the *)
(* number of the entries that still name it, and the one that is being     *)
(* released is among them.                                                 *)
(***************************************************************************)
THEOREM DegreesDoNotUnderflow == Spec => []DegreesNeverUnderflow
<1>1. OrderInv => DegreesNeverUnderflow
  BY OwedIsPositive DEF OrderInv, DegreesNeverUnderflow
<1> QED BY <1>1, OrderInvHolds, PTL

(***************************************************************************)
(* The order that is returned lists exactly the programs the root brings   *)
(* in, each of them once, whatever cycles there are.                       *)
(***************************************************************************)
THEOREM OrderIsComplete == Spec => []OrderIsThePermutedClosure
<1>1. OrderInv => OrderIsThePermutedClosure
  <2> SUFFICES ASSUME OrderInv, pc = "done"
               PROVE  /\ ToSet(sorted) = Closure(root, Mentions)
                      /\ Len(sorted) = Cardinality(Closure(root, Mentions))
    BY DEF OrderIsThePermutedClosure
  <2>1. IsInjective(sorted) /\ ToSet(sorted) = seen /\ sorted \in Seq(Programs)
    BY DEF OrderInv, SortedOnce, TypeOK
  <2>2. seen = Closure(root, Mentions)
    BY SeenIsClosure DEF OrderInv
  <2> QED BY <2>1, <2>2, CountedOnce
<1> QED BY <1>1, OrderInvHolds, PTL

-----------------------------------------------------------------------------
(* Closures of the "after" relation.                                       *)

ClosedUnderAfter(S) == \A u \in S, d \in Programs : DependsOn(u, d) => d \in S

LEMMA AfterClosure ==
  ASSUME NEW r \in Programs
  PROVE  /\ r \in Closure(r, DependsOn) /\ Closure(r, DependsOn) \subseteq Programs
         /\ ClosedUnderAfter(Closure(r, DependsOn))
         /\ \A S \in SUBSET Programs :
              r \in S /\ ClosedUnderAfter(S) => Closure(r, DependsOn) \subseteq S
<1>1. Closure(r, DependsOn) =
        {p \in Programs : \A S \in SUBSET Programs : r \in S /\ ClosedUnderAfter(S) => p \in S}
  BY DEF Closure, ClosedUnderAfter
<1>2. ASSUME NEW u \in Closure(r, DependsOn), NEW d \in Programs, DependsOn(u, d)
      PROVE  d \in Closure(r, DependsOn)
  BY <1>1, <1>2 DEF ClosedUnderAfter
<1> QED BY <1>1, <1>2 DEF ClosedUnderAfter

(***************************************************************************)
(* Where every unit of a set depends on another of the same set, each is   *)
(* on a cycle or behind one: follow the dependencies to a unit whose       *)
(* closure is as small as any on the way.                                  *)
(***************************************************************************)
LEMMA EndlessIsBehindCycle ==
  ASSUME NEW U \in SUBSET Programs, \A x \in U : \E d \in U : DependsOn(x, d),
         NEW u \in U
  PROVE  BehindCycle(u)
<1> DEFINE Reach(x) == Closure(x, DependsOn)
           T == {Reach(x) : x \in U \cap Reach(u)}
<1>1. \A x \in Programs : Reach(x) \in FiniteSubsetsOf(Programs)
  <2> SUFFICES ASSUME NEW x \in Programs PROVE Reach(x) \in FiniteSubsetsOf(Programs)
    OBVIOUS
  <2>1. Reach(x) \in SUBSET Programs
    BY AfterClosure
  <2>2. IsFiniteSet(Reach(x))
    BY <2>1, ConfigAssumption, FS_Subset
  <2> QED BY <2>1, <2>2 DEF FiniteSubsetsOf
<1>2. T \subseteq FiniteSubsetsOf(Programs)
  BY <1>1
<1>3. T # {}
  <2>1. u \in U \cap Reach(u)
    BY AfterClosure
  <2> QED BY <2>1
<1>4. PICK least \in T : \A C \in T : ~ (<<C, least>> \in StrictSubsetOrdering(Programs))
  <2> HIDE DEF T
  <2>1. IsWellFoundedOn(StrictSubsetOrdering(Programs), FiniteSubsetsOf(Programs))
    BY FS_StrictSubsetOrderingWellFounded
  <2> QED BY <1>2, <1>3, <2>1, WFMin
<1>5. PICK m \in U \cap Reach(u) : least = Reach(m)
  OBVIOUS
<1>6. PICK d \in U : DependsOn(m, d)
  OBVIOUS
<1>7. d \in Reach(u) /\ d \in Reach(m)
  BY <1>6, AfterClosure DEF ClosedUnderAfter
<1>8. Reach(d) \in T
  BY <1>7
<1>9. Reach(d) \subseteq Reach(m) /\ Reach(m) \subseteq Programs /\ Reach(d) \subseteq Programs
  BY <1>7, AfterClosure
<1>10. Reach(d) = Reach(m)
  BY <1>4, <1>5, <1>8, <1>9 DEF StrictSubsetOrdering
<1>11. m \in Reach(d)
  BY <1>10, AfterClosure
<1> QED BY <1>5, <1>6, <1>11 DEF BehindCycle, OnCycle

-----------------------------------------------------------------------------
(* What the loops know of the graph.                                       *)

\* The entries of "dependents" are those of the "after" lists, all of them
\* once they have been counted.
EntriesAreAfter ==
  /\ \A d \in Programs : \A u \in ToSet(dependents[d]) : DependsOn(u, d)
  /\ pc = "count" =>
       /\ \A i \in 1 .. next, d \in seen :
            DependsOn(discovered[i], d) =>
              discovered[i] \in ToSet(dependents[d]) \/ (i = next /\ d \in ToSet(pending))
       /\ \A d \in ToSet(pending) : DependsOn(discovered[next], d)
  /\ pc \in {"collect", "sort", "rest", "done"} =>
       \A u, d \in seen : DependsOn(u, d) => u \in ToSet(dependents[d])

\* A unit that waits for nobody is in the queue or sorted.
NobodyIsForgotten ==
  /\ pc = "collect" =>
       \A i \in 1 .. next : inDegree[discovered[i]] = 0 => discovered[i] \in ToSet(ready)
  /\ pc = "sort" =>
       \A u \in seen : inDegree[u] = 0 => u \in ToSet(ready) \cup ToSet(sorted)

\* Units are sorted after all they depend on.
SortedAfter ==
  pc = "sort" =>
    \A i \in 1 .. Len(sorted), d \in seen :
      DependsOn(sorted[i], d) => \E j \in 1 .. i - 1 : sorted[j] = d

\* When the sort is over, the units of degree zero come first and each after
\* all it depends on; the others depend on one another.
ServedComeFirst ==
  pc \in {"rest", "done"} =>
    /\ \A u \in seen : inDegree[u] = 0 => u \in ToSet(sorted)
    /\ \A i \in 1 .. Len(sorted) :
         inDegree[sorted[i]] = 0 =>
           \A d \in seen : DependsOn(sorted[i], d) =>
             inDegree[d] = 0 /\ \E j \in 1 .. i - 1 : sorted[j] = d
    /\ \A i, j \in 1 .. Len(sorted) :
         inDegree[sorted[i]] = 0 /\ inDegree[sorted[j]] # 0 => i < j
    /\ \A u \in seen :
         inDegree[u] # 0 => \E d \in seen : DependsOn(u, d) /\ inDegree[d] # 0

AfterInv == EntriesAreAfter /\ NobodyIsForgotten /\ SortedAfter /\ ServedComeFirst

LEMMA SameAfter == [Next]_vars => after' = after /\ \A u, d : DependsOn(u, d)' <=> DependsOn(u, d)
<1> SUFFICES ASSUME [Next]_vars
             PROVE  after' = after /\ \A u, d : DependsOn(u, d)' <=> DependsOn(u, d)
  OBVIOUS
<1>1. after' = after
  BY SameMentions
<1> QED BY <1>1 DEF DependsOn

LEMMA InitAfter == Init => AfterInv
<1> SUFFICES ASSUME Init PROVE AfterInv
  OBVIOUS
<1>1. pc = "check" /\ \A d \in Programs : ToSet(dependents[d]) = {}
  BY DEF Init, ToSet
<1> QED BY <1>1 DEF AfterInv, EntriesAreAfter, NobodyIsForgotten, SortedAfter, ServedComeFirst

LEMMA StepEntries == OrderInv /\ EntriesAreAfter /\ [Next]_vars => EntriesAreAfter'
<1> SUFFICES ASSUME OrderInv, EntriesAreAfter, [Next]_vars PROVE EntriesAreAfter'
  OBVIOUS
<1>a. TypeOK /\ Untouched /\ DiscoveryInv
  BY DEF OrderInv
<1>s. after' = after /\ \A u, d : DependsOn(u, d)' <=> DependsOn(u, d)
  BY SameAfter
<1>b. ToSet(<<>>) = {}
  BY DEF ToSet
<1>1. CASE CheckRoot \/ VisitUnit \/ VisitDependency
  <2>1. dependents' = [p \in Programs |-> <<>>] /\ pc' \in {"error", "discover"}
    BY <1>1, <1>a DEF CheckRoot, VisitUnit, VisitDependency, Untouched, Early, degrees
  <2>2. \A p \in Programs : ToSet(dependents'[p]) = {}
    BY <1>b, <2>1
  <2> QED BY <2>1, <2>2 DEF EntriesAreAfter
<1>2. CASE CountUnit
  <2> DEFINE unit == discovered[next + 1]
  <2>1. /\ pc = "count" /\ pc' = "count" /\ pending = <<>> /\ pending' = after[unit]
        /\ next' = next + 1 /\ next \in Nat /\ next + 1 \in 1 .. Len(discovered)
        /\ discovered' = discovered /\ seen' = seen /\ dependents' = dependents
    BY <1>2, <1>a, Elements DEF CountUnit, TypeOK, degrees, discovery
  <2>2. \A d : DependsOn(unit, d) <=> d \in ToSet(pending')
    BY <2>1 DEF DependsOn, ToSet
  <2>3. ASSUME NEW i \in 1 .. next', NEW d \in seen, DependsOn(discovered[i], d)
        PROVE  discovered[i] \in ToSet(dependents[d]) \/ (i = next' /\ d \in ToSet(pending'))
    <3>1. CASE i = next + 1
      BY <2>1, <2>2, <2>3, <3>1
    <3>2. CASE i # next + 1
      <4>1. i \in 1 .. next
        BY <2>1, <3>2
      <4> QED BY <1>b, <2>1, <2>3, <4>1 DEF EntriesAreAfter
    <3> QED BY <3>1, <3>2
  <2> QED BY <1>s, <2>1, <2>2, <2>3 DEF EntriesAreAfter
<1>3. CASE CountEntry
  <2> DEFINE dep == Head(pending)
             unit == discovered[next]
  <2>1. /\ pc = "count" /\ pc' = "count" /\ pending # <<>> /\ pending' = Tail(pending)
        /\ next' = next /\ discovered' = discovered /\ seen' = seen
    BY <1>3 DEF CountEntry, discovery
  <2>2. ToSet(pending) = {dep} \cup ToSet(pending')
    BY <1>a, <2>1, Popped DEF TypeOK
  <2>3. DependsOn(unit, dep)
    BY <2>1, <2>2 DEF EntriesAreAfter
  <2>4. CASE dep \notin seen
    <3>1. dependents' = dependents
      BY <1>3, <2>4 DEF CountEntry, degrees
    <3> HIDE DEF dep, unit
    <3> QED BY <1>s, <2>1, <2>2, <2>4, <3>1 DEF EntriesAreAfter
  <2>5. CASE dep \in seen
    <3>1. unit \in Programs
      <4>1. next \in 1 .. Len(discovered)
        BY <1>a, <2>1, Elements DEF TypeOK, Untouched
      <4> QED BY <1>a, <4>1, ElementOfSeq DEF TypeOK
    <3>2. dependents' = [dependents EXCEPT ![dep] = Append(dependents[dep], unit)]
      BY <1>3, <2>5 DEF CountEntry
    <3>3. \A p \in Programs : ToSet(dependents'[p]) =
            IF p = dep THEN ToSet(dependents[p]) \cup {unit} ELSE ToSet(dependents[p])
      <4>1. \A p \in Programs : ToSet(Append(dependents[p], unit)) = ToSet(dependents[p]) \cup {unit}
        BY <1>a, <3>1, Appended DEF TypeOK
      <4>2. \A p \in Programs :
              dependents'[p] = IF p = dep THEN Append(dependents[p], unit) ELSE dependents[p]
        BY <1>a, <3>2 DEF TypeOK
      <4> HIDE DEF dep, unit
      <4> QED BY <4>1, <4>2
    <3>4. seen \subseteq Programs
      BY <1>a DEF TypeOK
    <3>5. ASSUME NEW p \in Programs, NEW u \in ToSet(dependents'[p]) PROVE DependsOn(u, p)
      <4>1. u \in ToSet(dependents[p]) \/ (p = dep /\ u = unit)
        BY <3>3, <3>5
      <4> HIDE DEF dep, unit
      <4> QED BY <2>3, <4>1 DEF EntriesAreAfter
    <3>6. ASSUME NEW i \in 1 .. next, NEW d \in seen, DependsOn(discovered[i], d)
          PROVE  discovered[i] \in ToSet(dependents'[d]) \/ (i = next /\ d \in ToSet(pending'))
      <4>1. discovered[i] \in ToSet(dependents[d]) \/ (i = next /\ d \in ToSet(pending))
        BY <2>1, <3>6 DEF EntriesAreAfter
      <4>2. CASE discovered[i] \in ToSet(dependents[d])
        BY <3>3, <3>4, <4>2
      <4>3. CASE i = next /\ d = dep
        BY <3>3, <3>4, <4>3
      <4>4. CASE i = next /\ d \in ToSet(pending')
        BY <4>4
      <4> QED BY <2>2, <4>1, <4>2, <4>3, <4>4
    <3> HIDE DEF dep, unit
    <3> QED BY <1>s, <2>1, <2>2, <3>5, <3>6 DEF EntriesAreAfter
  <2> QED BY <2>4, <2>5
<1>4. CASE CollectReady \/ SortUnit \/ ReleaseDependent \/ AppendRest
  <2>1. /\ pc' = pc /\ pc \in {"collect", "sort", "rest"}
        /\ seen' = seen /\ dependents' = dependents
    BY <1>4 DEF CollectReady, SortUnit, ReleaseDependent, AppendRest, degrees, discovery
  <2> QED BY <1>s, <2>1 DEF EntriesAreAfter
<1>5. CASE LoopDone
  <2>1. /\ seen' = seen /\ dependents' = dependents /\ discovered' = discovered
        /\ pending = <<>> /\ pending' = <<>> /\ next' = 0
    BY <1>5 DEF LoopDone, degrees, discovery
  <2>2. CASE pc = "discover"
    <3>1. pc' = "count" /\ \A i \in 1 .. next' : FALSE
      BY <1>5, <2>1, <2>2 DEF LoopDone
    <3> QED BY <1>s, <1>b, <2>1, <3>1 DEF EntriesAreAfter
  <2>3. CASE pc = "count"
    <3>1. pc' = "collect" /\ next = Len(discovered)
      BY <1>5, <2>3 DEF LoopDone
    <3>2. seen = {discovered[i] : i \in 1 .. Len(discovered)}
      BY <1>a, <2>3, Elements DEF TypeOK, DiscoveryInv
    <3>3. ASSUME NEW u \in seen, NEW d \in seen, DependsOn(u, d)
          PROVE  u \in ToSet(dependents[d])
      <4>1. PICK i \in 1 .. next : u = discovered[i]
        BY <3>1, <3>2
      <4> QED BY <1>b, <2>1, <2>3, <3>3, <4>1 DEF EntriesAreAfter
    <3> QED BY <1>s, <2>1, <3>1, <3>3 DEF EntriesAreAfter
  <2>4. CASE pc \in {"collect", "sort", "rest"}
    <3>1. pc' \in {"sort", "rest", "done"}
      BY <1>5, <2>4 DEF LoopDone
    <3> QED BY <1>s, <2>1, <2>4, <3>1 DEF EntriesAreAfter
  <2> QED BY <1>5, <2>2, <2>3, <2>4 DEF LoopDone
<1>6. CASE Returned \/ UNCHANGED vars
  <2>1. UNCHANGED <<pc, seen, dependents, discovered, pending, next>>
    BY <1>6 DEF Returned, vars, degrees, discovery
  <2> QED BY <1>s, <2>1 DEF EntriesAreAfter
<1> QED BY <1>1, <1>2, <1>3, <1>4, <1>5, <1>6 DEF Next

LEMMA StepNobody == OrderInv /\ NobodyIsForgotten /\ [Next]_vars => NobodyIsForgotten'
<1> SUFFICES ASSUME OrderInv, NobodyIsForgotten, [Next]_vars PROVE NobodyIsForgotten'
  OBVIOUS
<1>a. TypeOK /\ Untouched /\ DiscoveryInv /\ PendingIsTheRest /\ DegreesAreOwed
  BY DEF OrderInv
<1>1. CASE CheckRoot \/ VisitUnit \/ VisitDependency \/ CountUnit \/ CountEntry \/ AppendRest
  <2>1. pc' \in {"error", "discover", "count", "rest"}
    BY <1>1 DEF CheckRoot, VisitUnit, VisitDependency, CountUnit, CountEntry, AppendRest
  <2> QED BY <2>1 DEF NobodyIsForgotten
<1>2. CASE CollectReady
  <2> DEFINE unit == discovered[next + 1]
  <2>1. /\ pc = "collect" /\ pc' = "collect" /\ next' = next + 1
        /\ next \in Nat /\ next + 1 \in 1 .. Len(discovered)
        /\ inDegree' = inDegree /\ discovered' = discovered
        /\ ready' = IF inDegree[unit] = 0 THEN Append(ready, unit) ELSE ready
    BY <1>2, <1>a, Elements DEF CollectReady, TypeOK, degrees, discovery
  <2>2. unit \in Programs
    BY <1>a, <2>1, ElementOfSeq DEF TypeOK
  <2>3. ToSet(ready') = IF inDegree[unit] = 0 THEN ToSet(ready) \cup {unit} ELSE ToSet(ready)
    <3>1. ToSet(Append(ready, unit)) = ToSet(ready) \cup {unit}
      BY <1>a, <2>2, Appended DEF TypeOK
    <3> HIDE DEF unit
    <3> QED BY <2>1, <3>1
  <2>4. \A i \in 1 .. next' : i \in 1 .. next \/ i = next + 1
    BY <2>1
  <2> QED BY <2>1, <2>3, <2>4 DEF NobodyIsForgotten
<1>3. CASE SortUnit
  <2> DEFINE x == Head(ready)
  <2>1. /\ pc = "sort" /\ pc' = "sort" /\ ready # <<>> /\ sorted' = Append(sorted, x)
        /\ ready' = Tail(ready) /\ inDegree' = inDegree /\ seen' = seen
    BY <1>3 DEF SortUnit, degrees, discovery
  <2>2. x \in Programs /\ ToSet(ready) = {x} \cup ToSet(ready')
    BY <1>a, <2>1, Popped DEF TypeOK
  <2>3. ToSet(sorted') = ToSet(sorted) \cup {x}
    BY <1>a, <2>1, <2>2, Appended DEF TypeOK
  <2> HIDE DEF x
  <2> QED BY <2>1, <2>2, <2>3 DEF NobodyIsForgotten
<1>4. CASE ReleaseDependent
  <2> DEFINE unit == Head(pending)
  <2>1. /\ pc = "sort" /\ pc' = "sort" /\ pending # <<>> /\ sorted' = sorted /\ seen' = seen
        /\ inDegree' = [inDegree EXCEPT ![unit] = inDegree[unit] - 1]
        /\ ready' = IF inDegree'[unit] = 0 THEN Append(ready, unit) ELSE ready
    BY <1>4 DEF ReleaseDependent, discovery
  <2>2. unit \in Programs
    BY <1>a, <2>1, OwedIsPositive
  <2>3. \A y \in Programs : y # unit => inDegree'[y] = inDegree[y]
    BY <1>a, <2>1, <2>2 DEF TypeOK
  <2>4. ToSet(ready') = IF inDegree'[unit] = 0 THEN ToSet(ready) \cup {unit} ELSE ToSet(ready)
    <3>1. ToSet(Append(ready, unit)) = ToSet(ready) \cup {unit}
      BY <1>a, <2>2, Appended DEF TypeOK
    <3>2. ready' = IF inDegree'[unit] = 0 THEN Append(ready, unit) ELSE ready
      BY <2>1
    <3> HIDE DEF unit
    <3> QED BY <3>1, <3>2
  <2>5. seen \subseteq Programs
    BY <1>a DEF TypeOK
  <2> HIDE DEF unit
  <2> QED BY <2>1, <2>3, <2>4, <2>5 DEF NobodyIsForgotten
<1>5. CASE LoopDone
  <2>1. /\ next' = 0 /\ seen' = seen /\ ready' = ready /\ sorted' = sorted
        /\ inDegree' = inDegree /\ discovered' = discovered
    BY <1>5 DEF LoopDone, discovery, degrees, order
  <2>2. CASE pc # "collect"
    <3>1. pc' # "sort" /\ \A i \in 1 .. next' : FALSE
      BY <1>5, <2>1, <2>2 DEF LoopDone
    <3> QED BY <3>1 DEF NobodyIsForgotten
  <2>3. CASE pc = "collect"
    <3>1. pc' = "sort" /\ next = Len(discovered)
      BY <1>5, <2>3 DEF LoopDone
    <3>2. seen = {discovered[i] : i \in 1 .. Len(discovered)}
      BY <1>a, <2>3, Elements DEF TypeOK, DiscoveryInv
    <3> QED BY <2>1, <2>3, <3>1, <3>2 DEF NobodyIsForgotten
  <2> QED BY <2>2, <2>3
<1>6. CASE Returned \/ UNCHANGED vars
  <2>1. UNCHANGED <<pc, seen, discovered, next, inDegree, ready, sorted>>
    BY <1>6 DEF Returned, vars, degrees, discovery, order
  <2> QED BY <2>1 DEF NobodyIsForgotten
<1> QED BY <1>1, <1>2, <1>3, <1>4, <1>5, <1>6 DEF Next

\* A unit that nobody keeps back was released by everything it comes after.
LEMMA FreeIsReleased ==
  ASSUME OrderInv, EntriesAreAfter, pc \in {"collect", "sort"},
         NEW u \in seen, inDegree[u] = 0, NEW d \in seen, DependsOn(u, d)
  PROVE  \E k \in 1 .. Len(dependents[d]) : dependents[d][k] = u /\ ~ Unreleased(<<d, k>>)
<1>a. TypeOK /\ DegreesAreOwed
  BY DEF OrderInv
<1>1. u \in Programs /\ d \in Programs
  BY <1>a DEF TypeOK
<1>2. Owed(u) = {}
  <2>1. IsFiniteSet(Owed(u)) /\ Cardinality(Owed(u)) = 0
    BY <1>a, <1>1 DEF DegreesAreOwed, Sorting
  <2> QED BY <2>1, FS_EmptySet
<1>3. u \in ToSet(dependents[d])
  BY DEF EntriesAreAfter
<1>4. dependents[d] \in Seq(Programs)
  BY <1>a, <1>1 DEF TypeOK
<1>5. /\ Len(dependents[d]) \in Nat
      /\ ToSet(dependents[d]) = {dependents[d][k] : k \in 1 .. Len(dependents[d])}
  BY <1>4, Elements
<1>6. PICK k \in 1 .. Len(dependents[d]) : dependents[d][k] = u
  BY <1>3, <1>5
<1>7. k \in Nat
  BY <1>5
<1> QED BY <1>1, <1>2, <1>6, <1>7 DEF Owed

LEMMA StepSortedAfter ==
  OrderInv /\ EntriesAreAfter /\ SortedAfter /\ [Next]_vars => SortedAfter'
<1> SUFFICES ASSUME OrderInv, EntriesAreAfter, SortedAfter, [Next]_vars, pc' = "sort"
             PROVE  SortedAfter'
  BY DEF SortedAfter
<1>a. TypeOK /\ Untouched /\ DiscoveryInv /\ DegreesAreOwed /\ SortedOnce
  BY DEF OrderInv
<1>s. \A u, d : DependsOn(u, d)' <=> DependsOn(u, d)
  BY SameAfter
<1>1. CASE \/ CheckRoot \/ VisitUnit \/ VisitDependency \/ CountUnit \/ CountEntry
           \/ CollectReady \/ AppendRest
  BY <1>1 DEF CheckRoot, VisitUnit, VisitDependency, CountUnit, CountEntry, CollectReady, AppendRest
<1>2. CASE SortUnit
  <2> DEFINE x == Head(ready)
             n == Len(sorted)
  <2>1. /\ pc = "sort" /\ pending = <<>> /\ ready # <<>> /\ sorted' = Append(sorted, x)
        /\ seen' = seen
    BY <1>2 DEF SortUnit, discovery
  <2>2. x \in Programs /\ x \in ToSet(ready)
    BY <1>a, <2>1, Popped DEF TypeOK
  <2>3. /\ Len(sorted') = n + 1 /\ n \in Nat /\ sorted'[n + 1] = x
        /\ \A i \in 1 .. n : sorted'[i] = sorted[i]
    <3>1. /\ Len(Append(sorted, x)) = n + 1 /\ Append(sorted, x)[n + 1] = x
          /\ \A i \in 1 .. n : Append(sorted, x)[i] = sorted[i]
      BY <1>a, <2>2, Appended DEF TypeOK
    <3>2. n \in Nat
      BY <1>a, Elements DEF TypeOK
    <3> HIDE DEF x, n
    <3> QED BY <2>1, <3>1, <3>2
  <2>5. ASSUME NEW d \in seen, DependsOn(x, d) PROVE d \in ToSet(sorted)
    <3>1. x \in seen /\ inDegree[x] = 0
      BY <1>a, <2>1, <2>2 DEF SortedOnce
    <3> HIDE DEF x
    <3>2. PICK k \in 1 .. Len(dependents[d]) : ~ Unreleased(<<d, k>>)
      BY <1>a, <2>1, <2>5, <3>1, FreeIsReleased
    <3> QED BY <3>2 DEF Unreleased
  <2>6. ToSet(sorted) = {sorted[j] : j \in 1 .. n}
    BY <1>a, Elements DEF TypeOK
  <2> HIDE DEF x, n
  <2>7. ASSUME NEW i \in 1 .. n + 1, NEW d \in seen, DependsOn(sorted'[i], d)
        PROVE  \E j \in 1 .. i - 1 : sorted'[j] = d
    <3>1. CASE i = n + 1
      <4>1. PICK j \in 1 .. n : sorted[j] = d
        BY <2>3, <2>5, <2>6, <2>7, <3>1
      <4>2. j \in 1 .. i - 1
        BY <2>3, <3>1
      <4> QED BY <2>3, <4>1, <4>2
    <3>2. CASE i # n + 1
      <4>1. i \in 1 .. n /\ sorted'[i] = sorted[i]
        BY <2>3, <3>2
      <4>2. PICK j \in 1 .. i - 1 : sorted[j] = d
        BY <2>1, <2>7, <4>1 DEF SortedAfter, n
      <4>3. j \in 1 .. n
        BY <2>3, <4>1
      <4> QED BY <2>3, <4>2, <4>3
    <3> QED BY <3>1, <3>2
  <2>8. Len(sorted') = n + 1 /\ seen' = seen
    BY <2>1, <2>3
  <2> QED BY <1>s, <2>7, <2>8 DEF SortedAfter
<1>3. CASE ReleaseDependent
  <2>1. pc = "sort" /\ sorted' = sorted /\ seen' = seen
    BY <1>3 DEF ReleaseDependent, discovery
  <2> QED BY <1>s, <2>1 DEF SortedAfter
<1>4. CASE LoopDone
  <2>1. pc = "collect" /\ sorted' = <<>>
    BY <1>4, <1>a DEF LoopDone, Untouched, order
  <2>2. \A i \in 1 .. Len(sorted') : FALSE
    BY <2>1
  <2> QED BY <2>2 DEF SortedAfter
<1>5. CASE Returned \/ UNCHANGED vars
  <2>1. UNCHANGED <<pc, seen, sorted>>
    BY <1>5 DEF Returned, vars, discovery, order
  <2> QED BY <1>s, <2>1 DEF SortedAfter
<1> QED BY <1>1, <1>2, <1>3, <1>4, <1>5 DEF Next

LEMMA StepServed == OrderInv /\ AfterInv /\ [Next]_vars => ServedComeFirst'
<1> SUFFICES ASSUME OrderInv, AfterInv, [Next]_vars, pc' \in {"rest", "done"}
             PROVE  ServedComeFirst'
  BY DEF ServedComeFirst
<1>a. /\ TypeOK /\ Untouched /\ DiscoveryInv /\ DegreesAreOwed /\ SortedOnce
      /\ EntriesAreAfter /\ NobodyIsForgotten /\ SortedAfter /\ ServedComeFirst
  BY DEF OrderInv, AfterInv
<1>s. \A u, d : DependsOn(u, d)' <=> DependsOn(u, d)
  BY SameAfter
<1>1. CASE \/ CheckRoot \/ VisitUnit \/ VisitDependency \/ CountUnit \/ CountEntry
           \/ CollectReady \/ SortUnit \/ ReleaseDependent
  BY <1>1 DEF CheckRoot, VisitUnit, VisitDependency, CountUnit, CountEntry, CollectReady,
              SortUnit, ReleaseDependent
<1>2. CASE AppendRest
  <2> DEFINE unit == discovered[next + 1]
             n == Len(sorted)
  <2>1. /\ pc = "rest" /\ pc' = "rest" /\ next + 1 \in 1 .. Len(discovered)
        /\ seen' = seen /\ inDegree' = inDegree
        /\ sorted' = IF unit \in ToSet(sorted) THEN sorted ELSE Append(sorted, unit)
    BY <1>2, <1>a, Elements DEF AppendRest, TypeOK, discovery, degrees
  <2>2. CASE unit \in ToSet(sorted)
    <3>1. sorted' = sorted
      BY <2>1, <2>2
    <3> QED BY <1>a, <1>s, <2>1, <3>1 DEF ServedComeFirst
  <2>3. CASE unit \notin ToSet(sorted)
    <3>1. unit \in Programs /\ unit \in ToSet(discovered)
      BY <1>a, <2>1, Elements DEF TypeOK
    <3>2. unit \in seen
      BY <1>a, <2>1, <3>1 DEF DiscoveryInv
    <3>3. inDegree[unit] # 0
      BY <1>a, <2>1, <2>3, <3>2 DEF ServedComeFirst
    <3>4. /\ Len(sorted') = n + 1 /\ n \in Nat /\ sorted'[n + 1] = unit
          /\ \A i \in 1 .. n : sorted'[i] = sorted[i]
          /\ ToSet(sorted') = ToSet(sorted) \cup {unit}
      <4>1. /\ Len(Append(sorted, unit)) = n + 1 /\ Append(sorted, unit)[n + 1] = unit
            /\ \A i \in 1 .. n : Append(sorted, unit)[i] = sorted[i]
            /\ ToSet(Append(sorted, unit)) = ToSet(sorted) \cup {unit}
        <5>1. sorted \in Seq(Programs)
          BY <1>a DEF TypeOK
        <5> QED BY <3>1, <5>1, Appended
      <4>2. n \in Nat
        BY <1>a, Elements DEF TypeOK
      <4>3. sorted' = Append(sorted, unit)
        BY <2>1, <2>3
      <4> HIDE DEF unit, n
      <4> QED BY <4>1, <4>2, <4>3
    <3>5. \A i \in 1 .. n + 1 :
            inDegree[sorted'[i]] = 0 => i \in 1 .. n /\ sorted'[i] = sorted[i]
      BY <3>3, <3>4
    <3>6. \A u \in seen : inDegree[u] = 0 => u \in ToSet(sorted')
      BY <1>a, <2>1, <3>4 DEF ServedComeFirst
    <3>7. ASSUME NEW i \in 1 .. n + 1, inDegree[sorted'[i]] = 0,
                 NEW d \in seen, DependsOn(sorted'[i], d)
          PROVE  inDegree[d] = 0 /\ \E j \in 1 .. i - 1 : sorted'[j] = d
      <4>1. i \in 1 .. n /\ sorted'[i] = sorted[i]
        BY <3>5, <3>7
      <4>2. inDegree[d] = 0 /\ \E j \in 1 .. i - 1 : sorted[j] = d
        BY <1>a, <2>1, <3>7, <4>1 DEF ServedComeFirst
      <4>3. PICK j \in 1 .. i - 1 : sorted[j] = d
        BY <4>2
      <4>4. j \in 1 .. n
        BY <3>4, <4>1
      <4> QED BY <3>4, <4>2, <4>3, <4>4
    <3>8. ASSUME NEW i \in 1 .. n + 1, NEW j \in 1 .. n + 1,
                 inDegree[sorted'[i]] = 0, inDegree[sorted'[j]] # 0
          PROVE  i < j
      <4>1. i \in 1 .. n /\ sorted'[i] = sorted[i]
        BY <3>5, <3>8
      <4>2. CASE j = n + 1
        BY <3>4, <4>1, <4>2
      <4>3. CASE j # n + 1
        <5>1. j \in 1 .. n /\ sorted'[j] = sorted[j]
          BY <3>4, <4>3
        <5> QED BY <1>a, <2>1, <3>8, <4>1, <5>1 DEF ServedComeFirst
      <4> QED BY <4>2, <4>3
    <3>9. \A u \in seen : inDegree[u] # 0 => \E d \in seen : DependsOn(u, d) /\ inDegree[d] # 0
      BY <1>a, <2>1 DEF ServedComeFirst
    <3>10. Len(sorted') = n + 1 /\ inDegree' = inDegree /\ seen' = seen
      BY <2>1, <3>4
    <3> HIDE DEF unit, n
    <3> QED BY <1>s, <3>6, <3>7, <3>8, <3>9, <3>10 DEF ServedComeFirst
  <2> QED BY <2>2, <2>3
<1>3. CASE LoopDone
  <2>1. /\ pending = <<>> /\ seen' = seen /\ sorted' = sorted /\ inDegree' = inDegree
    BY <1>3 DEF LoopDone, discovery, degrees, order
  <2>2. CASE pc = "rest"
    BY <1>a, <1>s, <2>1, <2>2 DEF ServedComeFirst
  <2>3. CASE pc # "rest"
    <3>1. pc = "sort" /\ ready = <<>> /\ ToSet(<<>>) = {} /\ Len(<<>>) = 0
      BY <1>3, <2>3 DEF LoopDone, ToSet
    <3>2. /\ \A u \in seen : inDegree[u] = 0 => u \in ToSet(sorted)
          /\ \A u \in ToSet(sorted) : inDegree[u] = 0
      BY <1>a, <3>1 DEF NobodyIsForgotten, SortedOnce
    <3>3. /\ ToSet(sorted) = {sorted[i] : i \in 1 .. Len(sorted)} /\ Len(sorted) \in Nat
          /\ seen \subseteq Programs
      BY <1>a, Elements DEF TypeOK
    <3>4. ASSUME NEW i \in 1 .. Len(sorted), NEW d \in seen, DependsOn(sorted[i], d)
          PROVE  inDegree[d] = 0 /\ \E j \in 1 .. i - 1 : sorted[j] = d
      <4>1. PICK j \in 1 .. i - 1 : sorted[j] = d
        BY <1>a, <3>1, <3>4 DEF SortedAfter
      <4>2. j \in 1 .. Len(sorted)
        BY <3>3
      <4> QED BY <3>2, <3>3, <4>1, <4>2
    <3>5. ASSUME NEW u \in seen, inDegree[u] # 0
          PROVE  \E d \in seen : DependsOn(u, d) /\ inDegree[d] # 0
      <4>1. Owed(u) # {}
        <5>1. Cardinality(Owed(u)) # 0
          BY <1>a, <3>1, <3>3, <3>5 DEF DegreesAreOwed, Sorting
        <5> QED BY <5>1, FS_EmptySet
      <4>2. PICK e \in Programs \X Nat : Unreleased(e) /\ dependents[e[1]][e[2]] = u
        BY <4>1 DEF Owed
      <4> DEFINE d == e[1]
      <4>3. d \in Programs /\ Len(dependents[d]) \in Nat /\ e[2] \in 1 .. Len(dependents[d])
        BY <1>a, <4>2, Elements DEF TypeOK, Unreleased
      <4>4. d \notin ToSet(sorted)
        BY <2>1, <3>1, <4>2, <4>3 DEF Unreleased
      <4>5. DependsOn(u, d)
        <5>1. dependents[d] \in Seq(Programs)
          BY <1>a, <4>3 DEF TypeOK
        <5>2. ToSet(dependents[d]) = {dependents[d][k] : k \in 1 .. Len(dependents[d])}
          BY <5>1, Elements
        <5>3. u \in ToSet(dependents[d])
          BY <4>2, <4>3, <5>2
        <5> QED BY <1>a, <4>3, <5>3 DEF EntriesAreAfter
      <4>6. d \in seen
        <5>1. Mentions(u, d)
          BY <4>5 DEF Mentions
        <5> QED BY <1>a, <3>1, <4>3, <5>1 DEF DiscoveryInv
      <4> QED BY <3>2, <4>4, <4>5, <4>6
    <3>6. \A j \in 1 .. Len(sorted) : inDegree[sorted[j]] = 0
      BY <3>2, <3>3
    <3> QED BY <1>s, <2>1, <3>2, <3>4, <3>5, <3>6 DEF ServedComeFirst
  <2> QED BY <2>2, <2>3
<1>4. CASE Returned \/ UNCHANGED vars
  <2>1. UNCHANGED <<pc, seen, sorted, inDegree>>
    BY <1>4 DEF Returned, vars, discovery, degrees, order
  <2> QED BY <1>a, <1>s, <2>1 DEF ServedComeFirst
<1> QED BY <1>1, <1>2, <1>3, <1>4 DEF Next

-----------------------------------------------------------------------------
(* An in-degree that is left says that a cycle is in the way, and only     *)
(* that.                                                                   *)

LEMMA CyclesKeepBack ==
  ASSUME OrderInv, AfterInv, pc = "done", NEW u \in seen
  PROVE  BehindCycle(u) <=> inDegree[u] # 0
<1>a. /\ TypeOK /\ SortedOnce /\ ServedComeFirst /\ DiscoveryInv
      /\ seen \subseteq Programs
  BY DEF OrderInv, AfterInv, TypeOK
<1>1. ASSUME inDegree[u] # 0 PROVE BehindCycle(u)
  <2> DEFINE U == {x \in seen : inDegree[x] # 0}
  <2>1. U \in SUBSET Programs /\ u \in U
    BY <1>1, <1>a
  <2>2. \A x \in U : \E d \in U : DependsOn(x, d)
    BY <1>a DEF ServedComeFirst
  <2> HIDE DEF U
  <2> QED BY <2>1, <2>2, EndlessIsBehindCycle
<1>2. ASSUME inDegree[u] = 0, BehindCycle(u) PROVE FALSE
  <2> DEFINE Z == {x \in seen : inDegree[x] = 0}
  <2>1. PICK c \in Closure(u, DependsOn) : OnCycle(c)
    BY <1>2 DEF BehindCycle
  <2>2. PICK d \in Programs : DependsOn(c, d) /\ c \in Closure(d, DependsOn)
    BY <2>1 DEF OnCycle
  <2>3. /\ sorted \in Seq(Programs) /\ DOMAIN sorted = 1 .. Len(sorted) /\ Len(sorted) \in Nat
        /\ ToSet(sorted) = {sorted[i] : i \in 1 .. Len(sorted)}
        /\ ToSet(sorted) = seen
        /\ \A i, j \in 1 .. Len(sorted) : sorted[i] = sorted[j] => i = j
    <3>1. /\ sorted \in Seq(Programs) /\ DOMAIN sorted = 1 .. Len(sorted) /\ Len(sorted) \in Nat
          /\ ToSet(sorted) = {sorted[i] : i \in 1 .. Len(sorted)}
      BY <1>a, Elements DEF TypeOK
    <3>2. ToSet(sorted) = seen /\ IsInjective(sorted)
      BY <1>a DEF SortedOnce
    <3> QED BY <3>1, <3>2 DEF IsInjective
  <2>4. ASSUME NEW x \in seen, NEW y \in Programs, DependsOn(x, y) PROVE y \in seen
    <3>1. Mentions(x, y)
      BY <2>4 DEF Mentions
    <3> QED BY <1>a, <3>1 DEF DiscoveryInv
  <2>5. ASSUME NEW i \in 1 .. Len(sorted), inDegree[sorted[i]] = 0,
               NEW y \in Programs, DependsOn(sorted[i], y)
        PROVE  y \in Z /\ \E j \in 1 .. i - 1 : sorted[j] = y
    <3>1. sorted[i] \in seen
      BY <2>3
    <3>2. y \in seen
      BY <2>4, <2>5, <3>1
    <3> QED BY <1>a, <2>5, <3>2 DEF ServedComeFirst
  <2>6. ClosedUnderAfter(Z) /\ Z \in SUBSET Programs
    BY <1>a, <2>3, <2>5 DEF ClosedUnderAfter
  <2>7. c \in Z
    <3>1. u \in Z /\ u \in Programs
      BY <1>2, <1>a
    <3> HIDE DEF Z
    <3> QED BY <2>1, <2>6, <3>1, AfterClosure
  <2>8. PICK i \in 1 .. Len(sorted) : c = sorted[i]
    BY <2>3, <2>7
  <2>9. PICK k \in 1 .. i - 1 : sorted[k] = d
    BY <2>2, <2>5, <2>7, <2>8
  <2>10. d \in Z
    BY <2>2, <2>5, <2>7, <2>8
  <2>11. k \in 1 .. Len(sorted) /\ k < i
    BY <2>3, <2>8, <2>9
  <2> DEFINE S == {sorted[j] : j \in 1 .. k} \cap Z
  <2>12. d \in S /\ S \in SUBSET Programs
    BY <2>6, <2>9, <2>10, <2>11
  <2>13. ASSUME NEW x \in S, NEW y \in Programs, DependsOn(x, y) PROVE y \in S
    <3>1. PICK j \in 1 .. k : x = sorted[j]
      OBVIOUS
    <3>2. j \in 1 .. Len(sorted) /\ inDegree[sorted[j]] = 0
      BY <2>3, <2>11, <2>13, <3>1
    <3>3. y \in Z /\ \E l \in 1 .. j - 1 : sorted[l] = y
      BY <2>5, <2>13, <3>1, <3>2
    <3>4. \A l \in 1 .. j - 1 : l \in 1 .. k
      BY <2>11, <3>1
    <3> QED BY <3>3, <3>4
  <2>14. ClosedUnderAfter(S)
    BY <2>13 DEF ClosedUnderAfter
  <2> HIDE DEF S
  <2>15. c \in S
    BY <2>2, <2>12, <2>14, AfterClosure
  <2>16. PICK j \in 1 .. k : sorted[j] = c
    BY <2>15 DEF S
  <2>17. j \in 1 .. Len(sorted) /\ j # i
    BY <2>3, <2>8, <2>11
  <2> QED BY <2>3, <2>8, <2>16, <2>17
<1> QED BY <1>1, <1>2

-----------------------------------------------------------------------------
\* What the loops know of the graph stays true.
THEOREM AfterInvHolds == Spec => [](OrderInv /\ AfterInv)
<1>1. Init => OrderInv /\ AfterInv
  BY InitTyped, InitOwed, InitSorting, InitAfter DEF OrderInv
<1>2. OrderInv /\ [Next]_vars => OrderInv'
  BY StepTyped, StepDiscovery, StepPending, StepOwed, StepSortedOnce DEF OrderInv
<1>3. OrderInv /\ AfterInv /\ [Next]_vars => AfterInv'
  BY StepEntries, StepNobody, StepSortedAfter, StepServed DEF AfterInv
<1> QED BY <1>1, <1>2, <1>3, PTL DEF Spec

(***************************************************************************)
(* Whatever the graph, a unit that waits for no cycle follows everything   *)
(* on its "after" list and precedes the units the fallback appends.        *)
(***************************************************************************)
THEOREM AfterIsRespected == Spec => []AfterIsRespectedOffCycles
<1>1. OrderInv /\ AfterInv => AfterIsRespectedOffCycles
  <2> SUFFICES ASSUME OrderInv, AfterInv, pc = "done",
                      NEW u \in ToSet(sorted), ~ BehindCycle(u), NEW d \in ToSet(sorted)
               PROVE  /\ DependsOn(u, d) => Precedes(sorted, d, u)
                      /\ BehindCycle(d) => Precedes(sorted, u, d)
    BY DEF AfterIsRespectedOffCycles
  <2>1. /\ ToSet(sorted) = seen /\ DOMAIN sorted = 1 .. Len(sorted) /\ Len(sorted) \in Nat
        /\ ToSet(sorted) = {sorted[i] : i \in 1 .. Len(sorted)} /\ ServedComeFirst
    BY Elements DEF OrderInv, AfterInv, TypeOK, SortedOnce
  <2>2. inDegree[u] = 0 /\ (BehindCycle(d) => inDegree[d] # 0)
    BY <2>1, CyclesKeepBack
  <2>3. PICK i \in 1 .. Len(sorted) : sorted[i] = u
    BY <2>1
  <2>4. ASSUME DependsOn(u, d) PROVE Precedes(sorted, d, u)
    <3>1. PICK j \in 1 .. i - 1 : sorted[j] = d
      BY <2>1, <2>2, <2>3, <2>4 DEF ServedComeFirst
    <3>2. j \in 1 .. Len(sorted) /\ j < i
      BY <2>1, <2>3
    <3> QED BY <2>1, <2>3, <3>1, <3>2 DEF Precedes
  <2>5. ASSUME BehindCycle(d) PROVE Precedes(sorted, u, d)
    <3>1. PICK j \in 1 .. Len(sorted) : sorted[j] = d
      BY <2>1
    <3>2. i < j
      BY <2>1, <2>2, <2>3, <2>5, <3>1 DEF ServedComeFirst
    <3> QED BY <2>1, <2>3, <3>1, <3>2 DEF Precedes
  <2> QED BY <2>4, <2>5
<1> QED BY <1>1, AfterInvHolds, PTL

-----------------------------------------------------------------------------
\* The units u comes after, unless a cycle is in the way.
AfterOffCycles(u) == IF BehindCycle(u) THEN {} ELSE {d \in Programs : DependsOn(u, d)}

(***************************************************************************)
(* What ProcessManager assumes of its start orders (ConfigAssumption and   *)
(* OrderAssumption) holds of every order that is returned: the root is in  *)
(* it, which start_process relies on ("resolve_start_order always includes *)
(* its own root"), and a unit stands behind all that it comes after.       *)
(***************************************************************************)
OrderIsUsable ==
  pc = "done" =>
    /\ sorted \in Seq(Programs)
    /\ \E k \in DOMAIN sorted : sorted[k] = root
    /\ \A k \in DOMAIN sorted : \A d \in AfterOffCycles(sorted[k]) :
         \E j \in 1 .. k - 1 : sorted[j] = d

\* Every order StartOrder returns is one ProcessManager may be given.
THEOREM OrderIsAsAssumed == Spec => []OrderIsUsable
<1>1. OrderInv /\ AfterInv => OrderIsUsable
  <2> SUFFICES ASSUME OrderInv, AfterInv, pc = "done"
               PROVE  /\ sorted \in Seq(Programs)
                      /\ \E k \in DOMAIN sorted : sorted[k] = root
                      /\ \A k \in DOMAIN sorted : \A d \in AfterOffCycles(sorted[k]) :
                           \E j \in 1 .. k - 1 : sorted[j] = d
    BY DEF OrderIsUsable
  <2>1. /\ sorted \in Seq(Programs) /\ ToSet(sorted) = seen /\ DiscoveryInv /\ ServedComeFirst
    BY DEF OrderInv, AfterInv, TypeOK, SortedOnce
  <2>2. DOMAIN sorted = 1 .. Len(sorted) /\ ToSet(sorted) = {sorted[i] : i \in 1 .. Len(sorted)}
    BY <2>1, Elements
  <2>3. root \in seen
    BY <2>1 DEF DiscoveryInv
  <2>4. ASSUME NEW k \in 1 .. Len(sorted), NEW d \in AfterOffCycles(sorted[k])
        PROVE  \E j \in 1 .. k - 1 : sorted[j] = d
    <3>1. /\ sorted[k] \in seen /\ ~ BehindCycle(sorted[k])
          /\ d \in Programs /\ DependsOn(sorted[k], d)
      BY <2>1, <2>2, <2>4 DEF AfterOffCycles
    <3>2. inDegree[sorted[k]] = 0
      BY <3>1, CyclesKeepBack
    <3>3. d \in seen
      BY <2>1, <3>1 DEF DiscoveryInv, Mentions
    <3> QED BY <2>1, <3>1, <3>2, <3>3 DEF ServedComeFirst
  <2> QED BY <2>1, <2>2, <2>3, <2>4
<1> QED BY <1>1, AfterInvHolds, PTL

-----------------------------------------------------------------------------
(* Why the loops end: no step repeats, for each lowers a measure that      *)
(* cannot fall for ever.                                                   *)

\* Loops still to come; what the running one has still to take up; and what is
\* left of the list it has in hand.
Phase ==
  IF pc = "check" THEN 6 ELSE IF pc = "discover" THEN 5 ELSE IF pc = "count" THEN 4
  ELSE IF pc = "collect" THEN 3 ELSE IF pc = "sort" THEN 2 ELSE IF pc = "rest" THEN 1 ELSE 0
ToTakeUp ==
  IF pc = "discover" THEN Cardinality(Programs \ seen) + Len(queue)
  ELSE IF pc = "sort" THEN Cardinality(Programs \ ToSet(sorted))
  ELSE Len(discovered) - next
Measure == <<Phase, ToTakeUp, Len(pending)>>

\* The lexicographic order of triples.
Below(m, n) ==
  \/ m[1] < n[1]
  \/ m[1] = n[1] /\ m[2] < n[2]
  \/ m[1] = n[1] /\ m[2] = n[2] /\ m[3] < n[3]

\* The rest of Programs, when a set of them has grown by one.
LEMMA OneFewer ==
  ASSUME NEW S \in SUBSET Programs, NEW x \in Programs \ S
  PROVE  /\ Cardinality(Programs \ S) \in Nat
         /\ Cardinality(Programs \ (S \cup {x})) = Cardinality(Programs \ S) - 1
<1> DEFINE rest == Programs \ S
<1>1. IsFiniteSet(rest) /\ x \in rest /\ Programs \ (S \cup {x}) = rest \ {x}
  BY ConfigAssumption, FS_Subset
<1> HIDE DEF rest
<1>2. Cardinality(rest) \in Nat
  BY <1>1, FS_CardinalityType
<1>3. Cardinality(rest \ {x}) = Cardinality(rest) - 1
  BY <1>1, FS_RemoveElement
<1> QED BY <1>1, <1>2, <1>3 DEF rest

\* The measure is a triple of natural numbers.
LEMMA MeasureTyped == OrderInv => Measure \in Nat \X Nat \X Nat
<1> SUFFICES ASSUME OrderInv PROVE Measure \in Nat \X Nat \X Nat
  OBVIOUS
<1>1. /\ discovered \in Seq(Programs) /\ queue \in Seq(Programs) /\ pending \in Seq(Names)
      /\ next \in 0 .. Len(discovered)
  BY DEF OrderInv, TypeOK
<1>2. Len(discovered) \in Nat /\ Len(queue) \in Nat /\ Len(pending) \in Nat
  BY <1>1, Elements
<1>3. \A S : Cardinality(Programs \ S) \in Nat
  BY ConfigAssumption, FS_Subset, FS_CardinalityType
<1>4. Phase \in Nat
  BY DEF Phase
<1>5. Cardinality(Programs \ seen) + Len(queue) \in Nat /\ Len(discovered) - next \in Nat
  <2>1. Cardinality(Programs \ seen) \in Nat
    BY <1>3
  <2> QED BY <1>1, <1>2, <2>1
<1>6. ToTakeUp \in Nat
  BY <1>3, <1>5 DEF ToTakeUp
<1> QED BY <1>2, <1>4, <1>6 DEF Measure

\* What a loop takes up, or an entry it passes, is never taken up again.
LEMMA EachStepCounts ==
  OrderInv /\ [Next]_vars => UNCHANGED vars \/ Below(Measure', Measure)
<1> SUFFICES ASSUME OrderInv, Next, ~ UNCHANGED vars PROVE Below(Measure', Measure)
  OBVIOUS
<1>a. /\ TypeOK /\ Untouched /\ SortedOnce /\ DiscoveryInv
      /\ discovered \in Seq(Programs) /\ queue \in Seq(Programs) /\ pending \in Seq(Names)
      /\ ready \in Seq(Programs) /\ sorted \in Seq(Programs) /\ seen \subseteq Programs
      /\ next \in 0 .. Len(discovered)
  BY DEF OrderInv, TypeOK
<1>b. /\ Len(discovered) \in Nat /\ Len(queue) \in Nat /\ Len(pending) \in Nat
  BY <1>a, Elements
<1>p. ASSUME Phase' < Phase PROVE Below(Measure', Measure)
  BY <1>p DEF Below, Measure
<1>q. ASSUME pc' = pc, ToTakeUp' < ToTakeUp PROVE Below(Measure', Measure)
  BY <1>q DEF Below, Measure, Phase
<1>r. ASSUME pc' = pc, ToTakeUp' = ToTakeUp, pending # <<>>, pending' = Tail(pending)
      PROVE  Below(Measure', Measure)
  <2>1. Len(pending') < Len(pending)
    BY <1>a, <1>b, <1>r, Popped
  <2> QED BY <1>r, <2>1 DEF Below, Measure, Phase
<1>1. CASE CheckRoot
  <2>1. pc = "check" /\ pc' \in {"error", "discover"}
    BY <1>1 DEF CheckRoot
  <2> QED BY <1>p, <2>1 DEF Phase
<1>2. CASE VisitUnit
  <2>1. pc = "discover" /\ pc' = pc /\ seen' = seen /\ queue # <<>> /\ queue' = Tail(queue)
    BY <1>2 DEF VisitUnit
  <2>2. Len(queue') = Len(queue) - 1
    BY <1>a, <2>1, Popped
  <2>3. Cardinality(Programs \ seen) \in Nat
    BY ConfigAssumption, FS_Subset, FS_CardinalityType
  <2>4. Cardinality(Programs \ seen) + Len(queue') < Cardinality(Programs \ seen) + Len(queue)
    BY <1>b, <2>2, <2>3
  <2>5. ToTakeUp' < ToTakeUp
    BY <2>1, <2>4 DEF ToTakeUp
  <2> QED BY <1>q, <2>1, <2>5
<1>3. CASE VisitDependency
  <2> DEFINE x == Head(pending)
  <2>1. pc = "discover" /\ pc' = pc /\ pending # <<>> /\ pending' = Tail(pending)
    BY <1>3 DEF VisitDependency
  <2>2. CASE x \in Programs \ seen
    <3>1. seen' = seen \cup {x} /\ queue' = Append(queue, x)
      BY <1>3, <2>2 DEF VisitDependency
    <3>2. Len(queue') = Len(queue) + 1
      BY <1>a, <2>2, <3>1, Appended
    <3>3. /\ Cardinality(Programs \ seen) \in Nat
          /\ Cardinality(Programs \ seen') = Cardinality(Programs \ seen) - 1
      BY <1>a, <2>2, <3>1, OneFewer
    <3>4. Cardinality(Programs \ seen') + Len(queue') = Cardinality(Programs \ seen) + Len(queue)
      BY <1>b, <3>2, <3>3
    <3>5. ToTakeUp' = ToTakeUp
      BY <2>1, <3>4 DEF ToTakeUp
    <3> QED BY <1>r, <2>1, <3>5
  <2>3. CASE x \notin Programs \ seen
    <3>1. seen' = seen /\ queue' = queue
      BY <1>3, <2>3 DEF VisitDependency, discovery
    <3>2. ToTakeUp' = ToTakeUp
      BY <2>1, <3>1 DEF ToTakeUp
    <3> QED BY <1>r, <2>1, <3>2
  <2> QED BY <2>2, <2>3
<1>4. CASE CountUnit \/ CollectReady \/ AppendRest
  <2>1. /\ pc \in {"count", "collect", "rest"} /\ pc' = pc /\ next < Len(discovered)
        /\ next' = next + 1 /\ discovered' = discovered
    BY <1>4 DEF CountUnit, CollectReady, AppendRest, discovery
  <2>2. Len(discovered) - next' < Len(discovered) - next
    BY <1>a, <1>b, <2>1
  <2>3. ToTakeUp' < ToTakeUp
    BY <2>1, <2>2 DEF ToTakeUp
  <2> QED BY <1>q, <2>1, <2>3
<1>5. CASE CountEntry
  <2>1. /\ pc = "count" /\ pc' = pc /\ next' = next /\ discovered' = discovered
        /\ pending # <<>> /\ pending' = Tail(pending)
    BY <1>5 DEF CountEntry, discovery
  <2>2. ToTakeUp' = ToTakeUp
    BY <2>1 DEF ToTakeUp
  <2> QED BY <1>r, <2>1, <2>2
<1>6. CASE SortUnit
  <2> DEFINE x == Head(ready)
  <2>1. pc = "sort" /\ pc' = pc /\ ready # <<>> /\ sorted' = Append(sorted, x)
    BY <1>6 DEF SortUnit
  <2>2. x \in Programs /\ x \in ToSet(ready)
    BY <1>a, <2>1, Popped
  <2>3. ToSet(sorted) \subseteq Programs /\ x \notin ToSet(sorted)
    BY <1>a, <2>1, <2>2, Elements DEF SortedOnce
  <2>4. ToSet(sorted') = ToSet(sorted) \cup {x}
    BY <1>a, <2>1, <2>2, Appended
  <2>5. /\ Cardinality(Programs \ ToSet(sorted)) \in Nat
        /\ Cardinality(Programs \ ToSet(sorted')) = Cardinality(Programs \ ToSet(sorted)) - 1
    <3> HIDE DEF x
    <3> QED BY <2>2, <2>3, <2>4, OneFewer
  <2>6. ToTakeUp' < ToTakeUp
    BY <2>1, <2>5 DEF ToTakeUp
  <2> QED BY <1>q, <2>1, <2>6
<1>7. CASE ReleaseDependent
  <2>1. pc = "sort" /\ pc' = pc /\ sorted' = sorted /\ pending # <<>> /\ pending' = Tail(pending)
    BY <1>7 DEF ReleaseDependent
  <2>2. ToTakeUp' = ToTakeUp
    BY <2>1 DEF ToTakeUp
  <2> QED BY <1>r, <2>1, <2>2
<1>8. CASE LoopDone
  <2>1. \/ pc = "discover" /\ pc' = "count"
        \/ pc = "count" /\ pc' = "collect"
        \/ pc = "collect" /\ pc' = "sort"
        \/ pc = "sort" /\ pc' \in {"done", "rest"}
        \/ pc = "rest" /\ pc' = "done"
    BY <1>8 DEF LoopDone
  <2> QED BY <1>p, <2>1 DEF Phase
<1>9. CASE Returned
  BY <1>9 DEF Returned
<1> QED BY <1>1, <1>2, <1>3, <1>4, <1>5, <1>6, <1>7, <1>8, <1>9 DEF Next

(***************************************************************************)
(* Every step lowers the measure, whatever the graph: no loop of           *)
(* resolve_start_order comes back to where it was, and with a step taken   *)
(* whenever one is left (CallReturns) the call returns.                    *)
(***************************************************************************)
THEOREM LoopsMakeProgress ==
  Spec => [](Measure \in Nat \X Nat \X Nat) /\ [][Below(Measure', Measure)]_vars
<1>1. OrderInv => Measure \in Nat \X Nat \X Nat
  BY MeasureTyped
<1>2. OrderInv /\ [Next]_vars => [Below(Measure', Measure)]_vars
  BY EachStepCounts
<1> QED BY <1>1, <1>2, OrderInvHolds, PTL DEF Spec

=============================================================================
