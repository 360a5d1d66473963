----------------------- MODULE DependencyOrderProofs -----------------------
(***************************************************************************)
(* Theorems about DependencyOrder and StartOrder, for any programs and any *)
(* "after" and "wants" lists: at most one list is a discovery order, and   *)
(* at most one a resolved order, of a configuration; and the loops return  *)
(* it.                                                                     *)
(*                                                                         *)
(* The queues are what makes the order stable, and the invariants say what *)
(* each of them keeps: the units that are discovered stand in the order of *)
(* their first mention, the dependents of a unit in the order they were    *)
(* found, and the units that are ready in the order they got ready.        *)
(***************************************************************************)
EXTENDS StartOrderProofs

-----------------------------------------------------------------------------
(* The orders of DependencyOrder are unique.                               *)

\* A set of numbers has a least one.
LEMMA LeastNumber ==
  ASSUME NEW S \in SUBSET Nat, S # {}
  PROVE  \E n \in S : \A m \in S : n <= m
<1>1. PICK R : IsWellFoundedOn(R, Nat) /\ \A m, n \in Nat : m < n => <<m, n>> \in R
  <2> DEFINE R == OpToRel(<, Nat)
  <2>1. \A m, n \in Nat : m < n => <<m, n>> \in R
    BY DEF OpToRel
  <2>2. IsWellFoundedOn(R, Nat)
    BY NatLessThanWellFounded
  <2> HIDE DEF R
  <2> QED BY <2>1, <2>2
<1>2. PICK n \in S : \A m \in S : ~ (<<m, n>> \in R)
  <2>1. IsWellFoundedOn(R, Nat) /\ S \subseteq Nat
    BY <1>1
  <2> QED BY <2>1, WFMin
<1>3. ASSUME NEW m \in S PROVE n <= m
  <2>1. m \in Nat /\ n \in Nat /\ ~ (m < n)
    BY <1>1, <1>2
  <2> QED BY <2>1
<1> QED BY <1>3

\* Two lists that agree up to every place where they might differ first are equal.
LEMMA FirstDifference ==
  ASSUME NEW K, NEW s \in Seq(K), NEW t \in Seq(K),
         \A k \in 1 .. Len(s) :
           (\A i \in 1 .. k - 1 : i \in 1 .. Len(t) /\ t[i] = s[i])
             => k \in 1 .. Len(t) /\ t[k] = s[k]
  PROVE  \A k \in 1 .. Len(s) : k \in 1 .. Len(t) /\ t[k] = s[k]
<1> DEFINE Bad == {k \in 1 .. Len(s) : ~ (k \in 1 .. Len(t) /\ t[k] = s[k])}
<1>1. Len(s) \in Nat /\ Len(t) \in Nat
  BY Elements
<1>2. SUFFICES ASSUME Bad # {} PROVE FALSE
  OBVIOUS
<1>3. PICK k \in Bad : \A m \in Bad : k <= m
  <2>1. Bad \in SUBSET Nat
    BY <1>1
  <2> HIDE DEF Bad
  <2> QED BY <1>2, <2>1, LeastNumber
<1>4. ASSUME NEW i \in 1 .. k - 1 PROVE i \in 1 .. Len(t) /\ t[i] = s[i]
  <2>1. i \in 1 .. Len(s) /\ ~ (k <= i)
    BY <1>1
  <2> QED BY <1>3, <2>1
<1> QED BY <1>4

\* Two lists that agree wherever either is defined are equal.
LEMMA SameList ==
  ASSUME NEW K, NEW s \in Seq(K), NEW t \in Seq(K),
         \A k \in 1 .. Len(s) : k \in 1 .. Len(t) /\ t[k] = s[k],
         \A k \in 1 .. Len(t) : k \in 1 .. Len(s) /\ s[k] = t[k]
  PROVE  s = t
<1>1. /\ DOMAIN s = 1 .. Len(s) /\ Len(s) \in Nat /\ DOMAIN t = 1 .. Len(t) /\ Len(t) \in Nat
  BY Elements
<1>2. Len(s) = Len(t)
  <2> DEFINE m == Len(s)  n == Len(t)
  <2>0. /\ m \in Nat /\ n \in Nat
        /\ m \in 1 .. m => m \in 1 .. n
        /\ n \in 1 .. n => n \in 1 .. m
    BY <1>1
  <2> HIDE DEF m, n
  <2>1. m = n
    BY <2>0
  <2> QED BY <2>1 DEF m, n
<1> QED BY <1>1, <1>2, SeqEqual

\* As far as s and t agree, what is discovered next is the same.
LEMMA NextDiscovered ==
  ASSUME NEW K, NEW N, NEW lists \in [K -> Seq(N)], NEW r,
         NEW s \in Seq(K), NEW t \in Seq(K),
         Discovers(s, lists, r), Discovers(t, lists, r),
         NEW k \in 1 .. Len(s),
         \A i \in 1 .. k - 1 : i \in 1 .. Len(t) /\ t[i] = s[i]
  PROVE  k \in 1 .. Len(t) /\ t[k] = s[k]
<1>1. /\ DOMAIN s = 1 .. Len(s) /\ Len(s) \in Nat /\ DOMAIN t = 1 .. Len(t) /\ Len(t) \in Nat
      /\ ToSet(s) = {s[i] : i \in 1 .. Len(s)} /\ ToSet(t) = {t[i] : i \in 1 .. Len(t)}
      /\ DOMAIN lists = K /\ Len(s) > 0 /\ Len(t) > 0
      /\ ToSet(s) \subseteq K /\ ToSet(t) \subseteq K
  BY Elements DEF Discovers
<1>2. /\ \A i, j \in 1 .. Len(s) : s[i] = s[j] => i = j
      /\ \A i, j \in 1 .. Len(t) : t[i] = t[j] => i = j
  BY <1>1 DEF Discovers, IsInjective
<1>3. CASE k = 1
  BY <1>1, <1>3 DEF Discovers
<1>4. CASE k # 1
  <2>k. k \in 2 .. Len(s)
    BY <1>1, <1>4
  <2>1. PICK i \in 1 .. k - 1 : s[k] \in ToSet(lists[s[i]])
    BY <2>k DEF Discovers
  <2>2. PICK p \in 1 .. Len(t) : t[p] = s[k]
    <3>1. i \in DOMAIN t /\ s[k] \in ToSet(lists[t[i]]) \cap DOMAIN lists
      BY <1>1, <2>1
    <3>2. ToSet(lists[t[i]]) \cap DOMAIN lists \subseteq ToSet(t)
      BY <3>1 DEF Discovers
    <3> QED BY <1>1, <3>1, <3>2
  <2>3. ~ (p \in 1 .. k - 1)
    <3>1. ASSUME p \in 1 .. k - 1 PROVE FALSE
      <4>1. s[p] = s[k] /\ p \in 1 .. Len(s) /\ p # k
        BY <1>1, <2>2, <3>1
      <4> QED BY <1>2, <4>1
    <3> QED BY <3>1
  <2>4. k \in 1 .. Len(t) /\ k <= p
    <3>1. k \in Int /\ 1 <= k /\ p \in Int /\ 1 <= p /\ p <= Len(t)
      BY <1>1
    <3>2. k <= p
      BY <2>3, <3>1
    <3> QED BY <1>1, <3>1, <3>2
  <2>5. SUFFICES ASSUME t[k] # s[k] PROVE FALSE
    BY <2>4
  <2>6. p \in k + 1 .. Len(t) /\ k \in 2 .. Len(t)
    BY <1>1, <1>4, <2>2, <2>4, <2>5
  <2>7. PICK m \in 1 .. k - 1 : t[k] \in ToSet(lists[t[m]])
    BY <2>6 DEF Discovers
  <2>8. m \in 1 .. Len(s) /\ m \in 1 .. Len(t) /\ t[m] = s[m] /\ m < k
    <3>1. m \in 1 .. Len(t) /\ t[m] = s[m]
      OBVIOUS
    <3>2. m \in 1 .. Len(s) /\ m < k
      BY <1>1
    <3> QED BY <3>1, <3>2
  <2>9. PICK q \in 1 .. Len(s) : s[q] = t[k]
    <3>1. m \in DOMAIN s /\ t[k] \in ToSet(lists[s[m]]) \cap DOMAIN lists
      BY <1>1, <2>4, <2>7, <2>8
    <3>2. ToSet(lists[s[m]]) \cap DOMAIN lists \subseteq ToSet(s)
      BY <3>1 DEF Discovers
    <3> QED BY <1>1, <3>1, <3>2
  <2>10. ~ (q \in 1 .. k - 1)
    <3>1. ASSUME q \in 1 .. k - 1 PROVE FALSE
      <4>1. t[q] = t[k] /\ q \in 1 .. Len(t)
        BY <2>9, <3>1
      <4>2. q # k
        BY <1>1, <3>1
      <4> QED BY <1>2, <2>4, <4>1, <4>2
    <3> QED BY <3>1
  <2>11. q \in k + 1 .. Len(s)
    BY <1>1, <2>5, <2>9, <2>10
  <2>12. MentionedFirst(s, lists, s[k], t[k]) /\ MentionedFirst(t, lists, t[k], s[k])
    BY <2>k, <2>2, <2>6, <2>9, <2>11 DEF Discovers
  <2>13. PICK b \in 1 .. Len(s) : \E c \in DOMAIN lists[s[b]] :
           /\ lists[s[b]][c] = s[k]
           /\ \A d \in DOMAIN s : \A e \in DOMAIN lists[s[d]] :
                lists[s[d]][e] = t[k] => b < d \/ (b = d /\ c < e)
    BY <1>1, <2>12 DEF MentionedFirst
  <2>14. PICK c \in DOMAIN lists[s[b]] :
           /\ lists[s[b]][c] = s[k]
           /\ \A d \in DOMAIN s : \A e \in DOMAIN lists[s[d]] :
                lists[s[d]][e] = t[k] => b < d \/ (b = d /\ c < e)
    BY <2>13
  <2>15. PICK b1 \in 1 .. Len(t) : \E c1 \in DOMAIN lists[t[b1]] :
           /\ lists[t[b1]][c1] = t[k]
           /\ \A d \in DOMAIN t : \A e \in DOMAIN lists[t[d]] :
                lists[t[d]][e] = s[k] => b1 < d \/ (b1 = d /\ c1 < e)
    BY <1>1, <2>12 DEF MentionedFirst
  <2>16. PICK c1 \in DOMAIN lists[t[b1]] :
           /\ lists[t[b1]][c1] = t[k]
           /\ \A d \in DOMAIN t : \A e \in DOMAIN lists[t[d]] :
                lists[t[d]][e] = s[k] => b1 < d \/ (b1 = d /\ c1 < e)
    BY <2>15
  <2>17. PICK e \in DOMAIN lists[s[m]] : lists[s[m]][e] = t[k]
    BY <2>7, <2>8 DEF ToSet
  <2>18. b <= m
    <3>1. b < m \/ (b = m /\ c < e)
      BY <1>1, <2>8, <2>14, <2>17
    <3>2. b \in Int /\ m \in Int
      BY <1>1
    <3> QED BY <3>1, <3>2
  <2>19. b \in 1 .. k - 1 /\ b \in 1 .. Len(t) /\ t[b] = s[b]
    <3>1. b \in 1 .. k - 1
      BY <1>1, <2>8, <2>18
    <3> QED BY <3>1
  <2>20. b1 < b \/ (b1 = b /\ c1 < c)
    BY <1>1, <2>14, <2>16, <2>19
  <2>21. b1 \in 1 .. k - 1 /\ b1 \in 1 .. Len(s) /\ t[b1] = s[b1]
    <3>1. b1 \in Int /\ 1 <= b1 /\ b1 <= b
      BY <1>1, <2>20
    <3>2. b1 \in 1 .. k - 1
      BY <1>1, <2>19, <3>1
    <3>3. b1 \in 1 .. Len(s)
      BY <1>1, <3>2
    <3> QED BY <3>2, <3>3
  <2>22. b < b1 \/ (b = b1 /\ c < c1)
    BY <1>1, <2>14, <2>16, <2>21
  <2>23. c \in Int /\ c1 \in Int
    <3>1. lists[s[b]] \in Seq(N) /\ lists[t[b1]] \in Seq(N)
      BY ElementOfSeq
    <3>2. DOMAIN lists[s[b]] = 1 .. Len(lists[s[b]]) /\ DOMAIN lists[t[b1]] = 1 .. Len(lists[t[b1]])
      BY <3>1, LenProperties
    <3> QED BY <3>2
  <2>24. b \in Int /\ b1 \in Int
    BY <1>1
  <2>25. b = b1
    BY <2>20, <2>22, <2>24
  <2>26. c < c1 /\ c1 < c
    BY <2>20, <2>22, <2>24, <2>25
  <2> QED BY <2>23, <2>26
<1> QED BY <1>3, <1>4

(***************************************************************************)
(* "Discovers" determines the discovery order: the lists of the programs   *)
(* and the root leave no choice, so that what the queue of the code finds  *)
(* is the same from call to call.                                          *)
(***************************************************************************)
THEOREM DiscoveryIsUnique ==
  ASSUME NEW K, NEW N, NEW lists \in [K -> Seq(N)], NEW r,
         NEW s \in Seq(K), NEW t \in Seq(K),
         Discovers(s, lists, r), Discovers(t, lists, r)
  PROVE  s = t
<1>1. \A k \in 1 .. Len(s) : k \in 1 .. Len(t) /\ t[k] = s[k]
  BY NextDiscovered, FirstDifference
<1>2. \A k \in 1 .. Len(t) : k \in 1 .. Len(s) /\ s[k] = t[k]
  BY NextDiscovered, FirstDifference
<1> QED BY <1>1, <1>2, SameList

-----------------------------------------------------------------------------
(* The sorted order is unique.                                            *)

\* Nothing is both ahead of and behind another unit of a list without repetitions.
LEMMA PrecedesOneWay ==
  ASSUME NEW K, NEW s \in Seq(K), IsInjective(s), NEW x, NEW y
  PROVE  ~ (Precedes(s, x, y) /\ Precedes(s, y, x))
<1>1. DOMAIN s = 1 .. Len(s) /\ Len(s) \in Nat
  BY Elements
<1>2. ASSUME Precedes(s, x, y), Precedes(s, y, x) PROVE FALSE
  <2>1. PICK i, j \in 1 .. Len(s) : i < j /\ s[i] = x /\ s[j] = y
    BY <1>1, <1>2 DEF Precedes
  <2>2. PICK k, l \in 1 .. Len(s) : k < l /\ s[k] = y /\ s[l] = x
    BY <1>1, <1>2 DEF Precedes
  <2>3. j = k /\ i = l
    BY <1>1, <2>1, <2>2 DEF IsInjective
  <2> QED BY <1>1, <2>1, <2>2, <2>3
<1> QED BY <1>2

\* What n units serve, more units serve.
LEMMA ServedByMore ==
  ASSUME NEW s, NEW W, NEW n \in Int, NEW m \in Int, n <= m, ServedBy(s, n, W)
  PROVE  ServedBy(s, m, W)
<1>1. \A i \in 1 .. n : i \in 1 .. m
  OBVIOUS
<1> QED BY <1>1 DEF ServedBy

\* As far as s and t agree, they serve the same.
LEMMA ServedBySame ==
  ASSUME NEW s, NEW t, NEW W, NEW n \in Int, NEW m \in Int, n <= m,
         \A i \in 1 .. m : t[i] = s[i]
  PROVE  ServedBy(s, n, W) <=> ServedBy(t, n, W)
<1>1. \A i \in 1 .. n : t[i] = s[i]
  OBVIOUS
<1> QED BY <1>1 DEF ServedBy

\* Where t goes on sorting, s has not stopped.
LEMMA SortGoesOn ==
  ASSUME NEW K, NEW s \in Seq(K), NEW t \in Seq(K), IsInjective(t), ToSet(s) = ToSet(t),
         NEW found, NEW waits, NEW n \in 0 .. Len(s), NEW m \in 0 .. Len(t),
         SortedTo(n, s, found, waits), SortedTo(m, t, found, waits),
         NEW k \in 1 .. m, \A i \in 1 .. k - 1 : i \in 1 .. Len(s) /\ t[i] = s[i]
  PROVE  k <= n
<1>1. /\ DOMAIN s = 1 .. Len(s) /\ Len(s) \in Nat /\ DOMAIN t = 1 .. Len(t) /\ Len(t) \in Nat
      /\ ToSet(s) = {s[i] : i \in 1 .. Len(s)} /\ ToSet(t) = {t[i] : i \in 1 .. Len(t)}
  BY Elements
<1>2. SUFFICES ASSUME n < k PROVE FALSE
  BY <1>1
<1>3. /\ n + 1 \in 1 .. m /\ n + 1 \in 1 .. Len(t) /\ n <= k - 1 /\ n \in Int /\ k - 1 \in Int
      /\ (n + 1) - 1 = n
  BY <1>1, <1>2
<1> DEFINE u == t[n + 1]
<1>4. ServedBy(t, (n + 1) - 1, waits[u])
  BY <1>3 DEF SortedTo
<1>5. ServedBy(s, n, waits[u])
  <2>1. \A i \in 1 .. k - 1 : t[i] = s[i]
    OBVIOUS
  <2>2. ServedBy(t, n, waits[u])
    BY <1>3, <1>4
  <2> HIDE DEF u
  <2> QED BY <1>3, <2>1, <2>2, ServedBySame
<1>6. PICK v \in 1 .. Len(s) : s[v] = u
  <2>1. u \in ToSet(t)
    BY <1>1, <1>3
  <2> HIDE DEF u
  <2> QED BY <1>1, <2>1
<1>7. v \in n + 1 .. Len(s)
  <2>1. ASSUME v \in 1 .. n PROVE FALSE
    <3>1. v \in 1 .. k - 1 /\ v # n + 1 /\ v \in 1 .. Len(t)
      BY <1>1, <1>3, <2>1
    <3>2. t[v] = t[n + 1]
      BY <1>6, <3>1
    <3> QED BY <1>1, <1>3, <3>1, <3>2 DEF IsInjective
  <2> QED BY <1>1, <2>1
<1>8. ~ ServedBy(s, n, waits[s[v]])
  BY <1>7 DEF SortedTo
<1> QED BY <1>5, <1>6, <1>8

\* As far as s and t agree, what s sorts first t does not sort later.
LEMMA SortAgrees ==
  ASSUME NEW K, NEW s \in Seq(K), NEW t \in Seq(K), IsInjective(s), IsInjective(t),
         ToSet(s) = ToSet(t),
         NEW found, NEW waits, NEW n \in 0 .. Len(s), NEW m \in 0 .. Len(t),
         SortedTo(n, s, found, waits), SortedTo(m, t, found, waits),
         NEW k \in Nat, k \in 1 .. Len(s), k \in 1 .. Len(t), k <= n => k <= m,
         \A i \in 1 .. k - 1 : t[i] = s[i],
         NEW p \in k + 1 .. Len(s), s[p] = t[k],
         NEW q \in k + 1 .. Len(t), t[q] = s[k]
  PROVE  Precedes(found, s[k], t[k])
<1>1. /\ DOMAIN s = 1 .. Len(s) /\ Len(s) \in Nat /\ DOMAIN t = 1 .. Len(t) /\ Len(t) \in Nat
  BY Elements
<1>2. CASE ~ (k <= n)
  <2>1. k \in n + 1 .. Len(s)
    BY <1>1, <1>2
  <2> QED BY <2>1 DEF SortedTo
<1>3. CASE k <= n
  <2>1. k \in 1 .. n /\ k \in 1 .. m /\ k - 1 \in Int /\ n \in Int /\ m \in Int
        /\ k - 1 <= n /\ k - 1 <= m /\ k - 1 <= k - 1
    BY <1>1, <1>3
  <2> DEFINE x == s[k]  y == t[k]
  <2>2. ServedBy(s, k - 1, waits[x]) /\ ServedBy(t, k - 1, waits[y])
    BY <2>1 DEF SortedTo
  <2> HIDE DEF x, y
  <2>3. \A j \in Int : j <= k - 1 => \A W : ServedBy(s, j, W) <=> ServedBy(t, j, W)
    BY <2>1, ServedBySame
  <2>4. \A j \in Int : k - 1 <= j => /\ ServedBy(s, j, waits[x]) /\ ServedBy(t, j, waits[x])
                                     /\ ServedBy(s, j, waits[y]) /\ ServedBy(t, j, waits[y])
    <3>1. ServedBy(t, k - 1, waits[x]) /\ ServedBy(s, k - 1, waits[y])
      BY <2>1, <2>2, <2>3
    <3> QED BY <2>1, <2>2, <3>1, ServedByMore
  <2>5. p \in k + 1 .. n
    <3>1. ASSUME ~ (p <= n) PROVE FALSE
      <4>1. p \in n + 1 .. Len(s)
        BY <1>1, <3>1
      <4>2. ~ ServedBy(s, n, waits[s[p]])
        BY <4>1 DEF SortedTo
      <4> QED BY <2>1, <2>4, <4>2 DEF y
    <3> QED BY <1>1, <3>1
  <2>6. q \in k + 1 .. m
    <3>1. ASSUME ~ (q <= m) PROVE FALSE
      <4>1. q \in m + 1 .. Len(t)
        BY <1>1, <3>1
      <4>2. ~ ServedBy(t, m, waits[t[q]])
        BY <4>1 DEF SortedTo
      <4> QED BY <2>1, <2>4, <4>2 DEF x
    <3> QED BY <1>1, <3>1
  <2>7. ReadySooner(s, found, waits, x, y)
    BY <2>1, <2>5 DEF SortedTo, x, y
  <2>8. ReadySooner(t, found, waits, y, x)
    BY <2>1, <2>6 DEF SortedTo, x, y
  <2>9. ASSUME NEW j \in 0 .. Len(s), ServedBy(s, j, waits[x]) PROVE ServedBy(s, j, waits[y])
    <3>1. CASE j <= k - 1
      <4>1. j \in 0 .. Len(t) /\ j \in Int
        BY <1>1, <3>1
      <4>2. ServedBy(t, j, waits[x])
        BY <2>3, <2>9, <3>1, <4>1
      <4>3. ServedBy(t, j, waits[y])
        BY <2>8, <4>1, <4>2 DEF ReadySooner
      <4> QED BY <2>3, <3>1, <4>1, <4>3
    <3>2. CASE k - 1 <= j
      BY <2>4, <3>2
    <3> QED BY <1>1, <3>1, <3>2
  <2> QED BY <2>7, <2>9 DEF ReadySooner, x, y
<1> QED BY <1>2, <1>3

\* As far as s and t agree, what is sorted next is the same.
LEMMA NextResolved ==
  ASSUME NEW K, NEW found \in Seq(K), IsInjective(found), NEW waits,
         NEW s \in Seq(K), NEW t \in Seq(K),
         Resolves(s, found, waits), Resolves(t, found, waits),
         NEW k \in 1 .. Len(s),
         \A i \in 1 .. k - 1 : i \in 1 .. Len(t) /\ t[i] = s[i]
  PROVE  k \in 1 .. Len(t) /\ t[k] = s[k]
<1>1. /\ DOMAIN s = 1 .. Len(s) /\ Len(s) \in Nat /\ DOMAIN t = 1 .. Len(t) /\ Len(t) \in Nat
      /\ ToSet(s) = {s[i] : i \in 1 .. Len(s)} /\ ToSet(t) = {t[i] : i \in 1 .. Len(t)}
  BY Elements
<1>2. IsInjective(s) /\ IsInjective(t) /\ ToSet(s) = ToSet(t)
  BY DEF Resolves
<1>3. PICK n \in 0 .. Len(s) : SortedTo(n, s, found, waits)
  BY DEF Resolves
<1>4. PICK m \in 0 .. Len(t) : SortedTo(m, t, found, waits)
  BY DEF Resolves
<1>5. PICK q \in 1 .. Len(t) : t[q] = s[k]
  BY <1>1, <1>2
<1>6. ~ (q \in 1 .. k - 1)
  <2>1. ASSUME q \in 1 .. k - 1 PROVE FALSE
    <3>1. s[q] = s[k] /\ q \in 1 .. Len(s) /\ q # k
      BY <1>1, <1>5, <2>1
    <3> QED BY <1>1, <1>2, <3>1 DEF IsInjective
  <2> QED BY <2>1
<1>7. k \in 1 .. Len(t) /\ k <= q
  BY <1>1, <1>6
<1>8. SUFFICES ASSUME t[k] # s[k] PROVE FALSE
  BY <1>7
<1>9. q \in k + 1 .. Len(t)
  BY <1>1, <1>5, <1>7, <1>8
<1>10. PICK p \in 1 .. Len(s) : s[p] = t[k]
  BY <1>1, <1>2, <1>7
<1>11. ~ (p \in 1 .. k - 1)
  <2>1. ASSUME p \in 1 .. k - 1 PROVE FALSE
    <3>1. t[p] = t[k] /\ p \in 1 .. Len(t) /\ p # k
      BY <1>1, <1>7, <1>10, <2>1
    <3> QED BY <1>1, <1>2, <1>7, <3>1 DEF IsInjective
  <2> QED BY <2>1
<1>12. p \in k + 1 .. Len(s)
  BY <1>1, <1>8, <1>10, <1>11
<1>13. /\ \A i \in 1 .. k - 1 : i \in 1 .. Len(s) /\ i \in 1 .. Len(t) /\ t[i] = s[i] /\ s[i] = t[i]
       /\ k \in Nat /\ n \in Nat /\ m \in Nat
  BY <1>1
<1>14. k <= m => k <= n
  <2>1. ASSUME k <= m PROVE k <= n
    <3>1. k \in 1 .. m
      BY <1>13, <2>1
    <3> QED BY <1>2, <1>3, <1>4, <1>13, <3>1, SortGoesOn
  <2> QED BY <2>1
<1>15. k <= n => k <= m
  <2>1. ASSUME k <= n PROVE k <= m
    <3>1. k \in 1 .. n
      BY <1>13, <2>1
    <3> QED BY <1>2, <1>3, <1>4, <1>13, <3>1, SortGoesOn
  <2> QED BY <2>1
<1>16. Precedes(found, s[k], t[k])
  BY <1>2, <1>3, <1>4, <1>5, <1>7, <1>9, <1>10, <1>12, <1>13, <1>15, SortAgrees
<1>17. Precedes(found, t[k], s[k])
  BY <1>2, <1>3, <1>4, <1>5, <1>7, <1>9, <1>10, <1>12, <1>13, <1>14, SortAgrees
<1> QED BY <1>16, <1>17, PrecedesOneWay

(***************************************************************************)
(* "Resolves" determines the start order: of the units as they were found  *)
(* and what each waits for, only one list follows, cycles or not.          *)
(***************************************************************************)
THEOREM SortIsUnique ==
  ASSUME NEW K, NEW found \in Seq(K), IsInjective(found), NEW waits,
         NEW s \in Seq(K), NEW t \in Seq(K),
         Resolves(s, found, waits), Resolves(t, found, waits)
  PROVE  s = t
<1>1. \A k \in 1 .. Len(s) : k \in 1 .. Len(t) /\ t[k] = s[k]
  BY NextResolved, FirstDifference
<1>2. \A k \in 1 .. Len(t) : k \in 1 .. Len(s) /\ s[k] = t[k]
  BY NextResolved, FirstDifference
<1> QED BY <1>1, <1>2, SameList

-----------------------------------------------------------------------------
(* The discovery loop finds the units in the order of DependencyOrder.     *)

\* v units of the list have been popped, and m entries of the last of them looked at.
Read(v, m, i, j) == i < v \/ (i = v /\ j <= m)

\* What was read has been found; and each unit that was found has been read at a
\* place ahead of any that mentions a unit found later.
FoundSoFar(D, L, v, m) ==
  /\ \A i \in 1 .. Len(D) : \A j \in 1 .. Len(L[D[i]]) :
       Read(v, m, i, j) /\ L[D[i]][j] \in DOMAIN L => L[D[i]][j] \in ToSet(D)
  /\ \A k \in 2 .. Len(D) : \E i \in 1 .. k - 1 : \E j \in 1 .. Len(L[D[i]]) :
       /\ Read(v, m, i, j) /\ L[D[i]][j] = D[k]
       /\ \A l \in k + 1 .. Len(D) : \A c \in 1 .. Len(D) : \A e \in 1 .. Len(L[D[c]]) :
            L[D[c]][e] = D[l] => i < c \/ (i = c /\ j < e)

\* Reading an entry that is no program, or one that was found before.
LEMMA ReadKnown ==
  ASSUME NEW K, NEW N, NEW L \in [K -> Seq(N)], NEW D \in Seq(K),
         NEW v \in 1 .. Len(D), NEW m \in Nat, m + 1 <= Len(L[D[v]]),
         L[D[v]][m + 1] \in K => L[D[v]][m + 1] \in ToSet(D),
         FoundSoFar(D, L, v, m)
  PROVE  FoundSoFar(D, L, v, m + 1)
<1>1. Len(D) \in Nat /\ DOMAIN L = K
  BY Elements
<1>2. \A i \in 1 .. Len(D) : L[D[i]] \in Seq(N) /\ Len(L[D[i]]) \in Nat
  BY ElementOfSeq, LenProperties
<1>3. \A i \in 1 .. Len(D) : \A j \in 1 .. Len(L[D[i]]) :
        /\ Read(v, m, i, j) => Read(v, m + 1, i, j)
        /\ Read(v, m + 1, i, j) => Read(v, m, i, j) \/ (i = v /\ j = m + 1)
  BY <1>1, <1>2 DEF Read
<1>4. ASSUME NEW i \in 1 .. Len(D), NEW j \in 1 .. Len(L[D[i]]),
             Read(v, m + 1, i, j), L[D[i]][j] \in DOMAIN L
      PROVE  L[D[i]][j] \in ToSet(D)
  BY <1>1, <1>3, <1>4 DEF FoundSoFar
<1>5. ASSUME NEW k \in 2 .. Len(D)
      PROVE  \E i \in 1 .. k - 1 : \E j \in 1 .. Len(L[D[i]]) :
               /\ Read(v, m + 1, i, j) /\ L[D[i]][j] = D[k]
               /\ \A l \in k + 1 .. Len(D) : \A c \in 1 .. Len(D) : \A e \in 1 .. Len(L[D[c]]) :
                    L[D[c]][e] = D[l] => i < c \/ (i = c /\ j < e)
  <2>1. PICK i \in 1 .. k - 1 : \E j \in 1 .. Len(L[D[i]]) :
          /\ Read(v, m, i, j) /\ L[D[i]][j] = D[k]
          /\ \A l \in k + 1 .. Len(D) : \A c \in 1 .. Len(D) : \A e \in 1 .. Len(L[D[c]]) :
               L[D[c]][e] = D[l] => i < c \/ (i = c /\ j < e)
    BY DEF FoundSoFar
  <2>2. i \in 1 .. Len(D)
    BY <1>1
  <2> QED BY <1>3, <2>1, <2>2
<1> QED BY <1>4, <1>5 DEF FoundSoFar

\* Reading an entry that is new.
LEMMA ReadNew ==
  ASSUME NEW K, NEW N, NEW L \in [K -> Seq(N)], NEW D \in Seq(K),
         NEW v \in 1 .. Len(D), NEW m \in Nat, m + 1 <= Len(L[D[v]]),
         L[D[v]][m + 1] \in K \ ToSet(D),
         FoundSoFar(D, L, v, m)
  PROVE  FoundSoFar(Append(D, L[D[v]][m + 1]), L, v, m + 1)
<1> DEFINE x == L[D[v]][m + 1]
           n == Len(D)
           E == Append(D, x)
<1>0. n \in Nat /\ DOMAIN L = K
  BY Elements
<1>n. n \in Nat
  BY <1>0
<1>1. /\ E \in Seq(K) /\ Len(E) = n + 1 /\ E[n + 1] = x
      /\ \A i \in 1 .. n : E[i] = D[i]
      /\ ToSet(E) = ToSet(D) \cup {x}
  BY Appended
<1>2. \A i \in 1 .. n : L[D[i]] \in Seq(N) /\ Len(L[D[i]]) \in Nat
  BY ElementOfSeq, LenProperties
<1>3. /\ ~ (n + 1 < v) /\ ~ (n + 1 = v) /\ \A j : ~ Read(v, m + 1, n + 1, j)
  BY <1>0 DEF Read
<1>4. \A i \in 1 .. n : \A j \in 1 .. Len(L[D[i]]) :
        /\ Read(v, m, i, j) => Read(v, m + 1, i, j)
        /\ Read(v, m + 1, i, j) => Read(v, m, i, j) \/ (i = v /\ j = m + 1)
  BY <1>0, <1>2 DEF Read
<1>l. Len(E) = n + 1
  BY <1>1
\* x is not mentioned at any place that was read before.
<1>6. ASSUME NEW i \in 1 .. n, NEW j \in 1 .. Len(L[D[i]]), L[D[i]][j] = x
      PROVE  ~ Read(v, m, i, j)
  BY <1>0, <1>6 DEF FoundSoFar
<1>7. ASSUME NEW i \in 1 .. n, NEW j \in 1 .. Len(L[D[i]]), Read(v, m, i, j),
             NEW c \in 1 .. n, NEW e \in 1 .. Len(L[D[c]]), ~ Read(v, m, c, e)
      PROVE  i < c \/ (i = c /\ j < e)
  BY <1>0, <1>2, <1>7 DEF Read
<1>x. L[D[v]][m + 1] = x /\ x \in K /\ v \in 1 .. n /\ m + 1 \in 1 .. Len(L[D[v]])
  BY <1>0, <1>2
<1> HIDE DEF x, n, E
<1>5. \A i \in 1 .. Len(E) : i \in 1 .. n \/ i = n + 1
  BY <1>n, <1>l
<1>8. ASSUME NEW i \in 1 .. Len(E), NEW j \in 1 .. Len(L[E[i]]),
             Read(v, m + 1, i, j), L[E[i]][j] \in DOMAIN L
      PROVE  L[E[i]][j] \in ToSet(E)
  <2>1. i \in 1 .. n /\ E[i] = D[i] /\ j \in 1 .. Len(L[D[i]])
    BY <1>1, <1>3, <1>5, <1>8
  <2>2. CASE Read(v, m, i, j)
    BY <1>1, <1>8, <2>1, <2>2 DEF FoundSoFar, n
  <2>3. CASE i = v /\ j = m + 1
    BY <1>1, <1>x, <2>1, <2>3
  <2> QED BY <1>4, <1>8, <2>1, <2>2, <2>3
<1>9. ASSUME NEW k \in 2 .. Len(E)
      PROVE  \E i \in 1 .. k - 1 : \E j \in 1 .. Len(L[E[i]]) :
               /\ Read(v, m + 1, i, j) /\ L[E[i]][j] = E[k]
               /\ \A l \in k + 1 .. Len(E) : \A c \in 1 .. Len(E) : \A e \in 1 .. Len(L[E[c]]) :
                    L[E[c]][e] = E[l] => i < c \/ (i = c /\ j < e)
  <2>1. CASE k = n + 1
    <3>1. v \in 1 .. k - 1 /\ L[E[v]] = L[D[v]] /\ E[k] = x /\ Read(v, m + 1, v, m + 1)
      <4>1. v \in 1 .. k - 1 /\ v \in 1 .. n /\ E[k] = x
        BY <1>0, <1>1, <1>x, <2>1
      <4>2. Read(v, m + 1, v, m + 1)
        BY DEF Read
      <4> QED BY <1>1, <4>1, <4>2
    <3>2. \A l \in k + 1 .. Len(E) : FALSE
      BY <1>n, <1>l, <2>1
    <3> QED BY <1>x, <3>1, <3>2
  <2>2. CASE k # n + 1
    <3>0. k \in 2 .. n /\ k \in 1 .. n
      BY <1>n, <1>l, <2>2
    <3>l. \A l \in k + 1 .. Len(E) : l = n + 1 \/ (l \in k + 1 .. n /\ l \in 1 .. n)
      BY <1>n, <1>l, <3>0
    <3>1. E[k] = D[k]
      BY <1>1, <3>0
    <3>2. PICK i \in 1 .. k - 1 : \E j \in 1 .. Len(L[D[i]]) :
            /\ Read(v, m, i, j) /\ L[D[i]][j] = D[k]
            /\ \A l \in k + 1 .. n : \A c \in 1 .. n : \A e \in 1 .. Len(L[D[c]]) :
                 L[D[c]][e] = D[l] => i < c \/ (i = c /\ j < e)
      BY <3>0 DEF FoundSoFar, n
    <3>3. PICK j \in 1 .. Len(L[D[i]]) :
            /\ Read(v, m, i, j) /\ L[D[i]][j] = D[k]
            /\ \A l \in k + 1 .. n : \A c \in 1 .. n : \A e \in 1 .. Len(L[D[c]]) :
                 L[D[c]][e] = D[l] => i < c \/ (i = c /\ j < e)
      BY <3>2
    <3>4. i \in 1 .. n /\ E[i] = D[i] /\ i < n + 1
      <4>1. n \in Nat /\ k \in Nat /\ k <= n
        BY <1>n, <3>0
      <4>2. i \in 1 .. n /\ i < n + 1
        BY <4>1
      <4> QED BY <1>1, <4>2
    <3>5. ASSUME NEW l \in k + 1 .. Len(E), NEW c \in 1 .. Len(E), NEW e \in 1 .. Len(L[E[c]]),
                 L[E[c]][e] = E[l]
          PROVE  i < c \/ (i = c /\ j < e)
      <4>1. CASE c = n + 1
        BY <3>4, <4>1
      <4>2. CASE c # n + 1
        <5>1. c \in 1 .. n /\ E[c] = D[c] /\ e \in 1 .. Len(L[D[c]])
          BY <1>1, <1>5, <4>2
        <5>2. CASE l = n + 1
          <6>1. ~ Read(v, m, c, e)
            BY <1>1, <1>6, <3>5, <5>1, <5>2
          <6> QED BY <1>7, <3>3, <3>4, <5>1, <6>1
        <5>3. CASE l # n + 1
          <6>1. l \in k + 1 .. n /\ l \in 1 .. n
            BY <3>l, <5>3
          <6>2. E[l] = D[l]
            BY <1>1, <6>1
          <6> QED BY <3>3, <3>5, <5>1, <6>1, <6>2
        <5> QED BY <5>2, <5>3
      <4> QED BY <4>1, <4>2
    <3>6. Read(v, m + 1, i, j)
      BY <1>4, <3>3, <3>4
    <3> QED BY <3>1, <3>3, <3>4, <3>5, <3>6
  <2> QED BY <2>1, <2>2
<1>10. FoundSoFar(E, L, v, m + 1)
  BY <1>8, <1>9 DEF FoundSoFar
<1> QED BY <1>10 DEF E, x

\* Going on to the next unit: what was read stays the same.
LEMMA VisitNext ==
  ASSUME NEW K, NEW N, NEW L \in [K -> Seq(N)], NEW D \in Seq(K),
         NEW v \in 0 .. Len(D), NEW m, v > 0 => m = Len(L[D[v]]),
         FoundSoFar(D, L, v, m)
  PROVE  FoundSoFar(D, L, v + 1, 0)
<1>1. Len(D) \in Nat
  BY Elements
<1>2. \A i \in 1 .. Len(D) : L[D[i]] \in Seq(N) /\ Len(L[D[i]]) \in Nat
  BY ElementOfSeq, LenProperties
<1>3. \A i \in 1 .. Len(D) : \A j \in 1 .. Len(L[D[i]]) : Read(v, m, i, j) <=> Read(v + 1, 0, i, j)
  <2> SUFFICES ASSUME NEW i \in 1 .. Len(D), NEW j \in 1 .. Len(L[D[i]])
               PROVE  Read(v, m, i, j) <=> Read(v + 1, 0, i, j)
    OBVIOUS
  <2>1. i \in Int /\ i > 0 /\ j \in Int /\ j > 0 /\ v \in Int
    BY <1>1, <1>2
  <2>2. Read(v + 1, 0, i, j) <=> i <= v
    BY <2>1 DEF Read
  <2>3. i = v => j <= m
    BY <1>2, <2>1
  <2> QED BY <2>1, <2>2, <2>3 DEF Read
<1>4. \A k \in 2 .. Len(D) : \A i \in 1 .. k - 1 : i \in 1 .. Len(D)
  BY <1>1
<1>5. \A i \in 1 .. Len(D) : \A j \in 1 .. Len(L[D[i]]) :
        Read(v + 1, 0, i, j) /\ L[D[i]][j] \in DOMAIN L => L[D[i]][j] \in ToSet(D)
  BY <1>3 DEF FoundSoFar
<1>6. ASSUME NEW k \in 2 .. Len(D)
      PROVE  \E i \in 1 .. k - 1 : \E j \in 1 .. Len(L[D[i]]) :
               /\ Read(v + 1, 0, i, j) /\ L[D[i]][j] = D[k]
               /\ \A l \in k + 1 .. Len(D) : \A c \in 1 .. Len(D) : \A e \in 1 .. Len(L[D[c]]) :
                    L[D[c]][e] = D[l] => i < c \/ (i = c /\ j < e)
  <2>1. PICK i \in 1 .. k - 1 : \E j \in 1 .. Len(L[D[i]]) :
          /\ Read(v, m, i, j) /\ L[D[i]][j] = D[k]
          /\ \A l \in k + 1 .. Len(D) : \A c \in 1 .. Len(D) : \A e \in 1 .. Len(L[D[c]]) :
               L[D[c]][e] = D[l] => i < c \/ (i = c /\ j < e)
    BY DEF FoundSoFar
  <2> QED BY <1>3, <1>4, <2>1
<1> QED BY <1>5, <1>6 DEF FoundSoFar

\* When everything has been read, the discovery is complete.
LEMMA AllRead ==
  ASSUME NEW K, NEW N, NEW L \in [K -> Seq(N)], NEW D \in Seq(K), NEW r,
         IsInjective(D), D # <<>>, D[1] = r,
         FoundSoFar(D, L, Len(D), Len(L[D[Len(D)]]))
  PROVE  Discovers(D, L, r)
<1>1. DOMAIN D = 1 .. Len(D) /\ Len(D) \in Nat /\ DOMAIN L = K
  BY Elements
<1>2. \A i \in 1 .. Len(D) : /\ L[D[i]] \in Seq(N) /\ Len(L[D[i]]) \in Nat
                             /\ DOMAIN L[D[i]] = 1 .. Len(L[D[i]])
  BY ElementOfSeq, LenProperties
<1>3. \A i \in 1 .. Len(D) : \A j \in 1 .. Len(L[D[i]]) :
        Read(Len(D), Len(L[D[Len(D)]]), i, j)
  <2> SUFFICES ASSUME NEW i \in 1 .. Len(D), NEW j \in 1 .. Len(L[D[i]])
               PROVE  Read(Len(D), Len(L[D[Len(D)]]), i, j)
    OBVIOUS
  <2>1. CASE i = Len(D)
    BY <1>1, <1>2, <2>1 DEF Read
  <2>2. CASE i # Len(D)
    <3> DEFINE n == Len(D)
    <3>1. n \in Nat /\ i \in 1 .. n /\ i # n
      BY <1>1, <2>2
    <3> HIDE DEF n
    <3>2. i < n
      BY <3>1
    <3> QED BY <3>2 DEF Read, n
  <2> QED BY <2>1, <2>2
<1>4. ASSUME NEW i \in DOMAIN D PROVE ToSet(L[D[i]]) \cap DOMAIN L \subseteq ToSet(D)
  <2>1. \A j \in 1 .. Len(L[D[i]]) : L[D[i]][j] \in DOMAIN L => L[D[i]][j] \in ToSet(D)
    BY <1>1, <1>3 DEF FoundSoFar
  <2>2. ToSet(L[D[i]]) = {L[D[i]][j] : j \in 1 .. Len(L[D[i]])}
    BY <1>1, <1>2 DEF ToSet
  <2> QED BY <2>1, <2>2
<1>5. ASSUME NEW k \in 2 .. Len(D)
      PROVE  /\ \E i \in 1 .. k - 1 : D[k] \in ToSet(L[D[i]])
             /\ \A l \in k + 1 .. Len(D) : MentionedFirst(D, L, D[k], D[l])
  <2>1. PICK i \in 1 .. k - 1 : \E j \in 1 .. Len(L[D[i]]) :
          /\ Read(Len(D), Len(L[D[Len(D)]]), i, j) /\ L[D[i]][j] = D[k]
          /\ \A l \in k + 1 .. Len(D) : \A c \in 1 .. Len(D) : \A e \in 1 .. Len(L[D[c]]) :
               L[D[c]][e] = D[l] => i < c \/ (i = c /\ j < e)
    BY DEF FoundSoFar
  <2>2. PICK j \in 1 .. Len(L[D[i]]) :
          /\ L[D[i]][j] = D[k]
          /\ \A l \in k + 1 .. Len(D) : \A c \in 1 .. Len(D) : \A e \in 1 .. Len(L[D[c]]) :
               L[D[c]][e] = D[l] => i < c \/ (i = c /\ j < e)
    BY <2>1
  <2>3. i \in DOMAIN D /\ j \in DOMAIN L[D[i]]
    BY <1>1, <1>2
  <2>4. D[k] \in ToSet(L[D[i]])
    BY <2>2, <2>3 DEF ToSet
  <2>5. ASSUME NEW l \in k + 1 .. Len(D) PROVE MentionedFirst(D, L, D[k], D[l])
    <3>1. \A c \in DOMAIN D : \A e \in DOMAIN L[D[c]] :
            L[D[c]][e] = D[l] => i < c \/ (i = c /\ j < e)
      BY <1>1, <1>2, <2>2
    <3> QED BY <2>2, <2>3, <3>1 DEF MentionedFirst
  <2> QED BY <2>4, <2>5
<1> QED BY <1>4, <1>5 DEF Discovers

-----------------------------------------------------------------------------
(* While units are discovered, and when they all are.                      *)

AllLists == ListsOf(after, wants)

\* While units are discovered: those that are queued are the last ones found, and
\* what is pending is what is left of the list of the unit that was popped last.
FoundInOrder ==
  LET v == Len(discovered) - Len(queue)
      list == AllLists[discovered[v]]
      m == Len(list) - Len(pending)
  IN pc = "discover" =>
       /\ discovered # <<>> /\ discovered[1] = root
       /\ v \in 0 .. Len(discovered)
       /\ \A i \in 1 .. Len(queue) : queue[i] = discovered[v + i]
       /\ v = 0 => pending = <<>>
       /\ v > 0 => m \in Nat /\ \A j \in 1 .. Len(pending) : pending[j] = list[m + j]
       /\ FoundSoFar(discovered, AllLists, v, m)

\* The discovery is over, and "discovered" does not change any more.
Ordered == {"count", "collect", "sort", "rest", "done"}

DiscoveryDone == pc \in Ordered => Discovers(discovered, AllLists, root)

LEMMA AllListsTyped ==
  ASSUME TypeOK
  PROVE  /\ AllLists \in [Programs -> Seq(Names)] /\ DOMAIN after = Programs
         /\ \A u \in Programs : AllLists[u] = after[u] \o wants[u]
<1>1. DOMAIN after = Programs
  BY ConfigAssumption DEF TypeOK
<1>2. AllLists = [u \in Programs |-> after[u] \o wants[u]]
  BY <1>1 DEF AllLists, ListsOf
<1>3. \A u \in Programs : after[u] \o wants[u] \in Seq(Names)
  BY Lists
<1> QED BY <1>1, <1>2, <1>3

LEMMA SameLists == [Next]_vars => AllLists' = AllLists /\ root' = root
<1>1. [Next]_vars => after' = after /\ wants' = wants /\ root' = root
  BY SameMentions
<1> QED BY <1>1 DEF AllLists

LEMMA InitFound == Init => FoundInOrder /\ DiscoveryDone
  BY DEF Init, FoundInOrder, DiscoveryDone, Ordered

\* The front of the queue is the next unit of "discovered", entry by entry.
LEMMA StepFound == OrderInv /\ FoundInOrder /\ [Next]_vars => FoundInOrder'
<1> SUFFICES ASSUME OrderInv, FoundInOrder, [Next]_vars, pc' = "discover"
             PROVE  FoundInOrder'
  BY DEF FoundInOrder
<1>a. TypeOK /\ Untouched /\ DiscoveryInv
  BY DEF OrderInv
<1>s. /\ AllLists' = AllLists /\ root' = root /\ AllLists \in [Programs -> Seq(Names)]
      /\ \A u \in Programs : AllLists[u] = after[u] \o wants[u]
  BY <1>a, SameLists, AllListsTyped
<1>b. /\ discovered \in Seq(Programs) /\ queue \in Seq(Programs) /\ pending \in Seq(Names)
      /\ Len(discovered) \in Nat /\ Len(queue) \in Nat /\ Len(pending) \in Nat /\ Len(<<>>) = 0
  BY <1>a, Elements DEF TypeOK
<1> DEFINE D == discovered
           L == AllLists
           v == Len(D) - Len(queue)
           list == L[D[v]]
           m == Len(list) - Len(pending)
<1>1. CASE CheckRoot
  <2>1. /\ pc = "check" /\ root \in Programs /\ discovered' = <<root>> /\ queue' = <<root>>
        /\ pending' = pending
    BY <1>1 DEF CheckRoot
  <2>2. pending' = <<>>
    BY <1>a, <2>1 DEF Untouched
  <2>3. /\ Len(discovered') = 1 /\ Len(queue') = 1 /\ discovered'[1] = root /\ queue'[1] = root
        /\ discovered' # <<>>
    BY <2>1
  <2>4. FoundSoFar(discovered', L, 0, (Len(L[discovered'[0]]) - 0))
    <3>1. \A i \in 1 .. 1 : \A j, n : ~ Read(0, n, i, j)
      BY DEF Read
    <3>2. \A k \in 2 .. 1 : FALSE
      OBVIOUS
    <3> QED BY <2>3, <3>1, <3>2 DEF FoundSoFar
  <2> QED BY <1>b, <1>s, <2>2, <2>3, <2>4 DEF FoundInOrder
<1>2. CASE VisitUnit
  <2>1. /\ pc = "discover" /\ pending = <<>> /\ queue # <<>> /\ queue' = Tail(queue)
        /\ discovered' = discovered /\ pending' = after[Head(queue)] \o wants[Head(queue)]
    BY <1>2 DEF VisitUnit
  <2>2. /\ Len(queue') = Len(queue) - 1 /\ Len(queue) > 0 /\ Head(queue) = queue[1]
        /\ \A i \in 1 .. Len(queue') : queue'[i] = queue[i + 1]
        /\ Head(queue) \in Programs
    BY <1>b, <2>1, Popped
  <2>3. /\ discovered # <<>> /\ discovered[1] = root /\ v \in 0 .. Len(D)
        /\ \A i \in 1 .. Len(queue) : queue[i] = discovered[v + i]
        /\ FoundSoFar(D, L, v, m)
    BY <2>1 DEF FoundInOrder
  <2>4. v > 0 => m = Len(list)
    <3>1. ASSUME v > 0 PROVE Len(list) \in Nat
      <4>1. v \in 1 .. Len(D)
        BY <2>3, <3>1
      <4>2. D[v] \in Programs
        BY <1>b, <4>1, ElementOfSeq
      <4> QED BY <1>s, <4>2, LenProperties
    <3> QED BY <1>b, <2>1, <3>1
  <2>5. FoundSoFar(D, L, v + 1, 0)
    BY <1>b, <1>s, <2>3, <2>4, VisitNext
  <2>6. /\ Len(D) - Len(queue') = v + 1 /\ v + 1 \in 1 .. Len(D) /\ v \in Nat
        /\ 1 \in 1 .. Len(queue)
    BY <1>b, <2>2, <2>3
  <2>7. Head(queue) = D[v + 1]
    BY <2>2, <2>3, <2>6
  <2>8. pending' = L[D[v + 1]]
    BY <1>s, <2>1, <2>2, <2>7
  <2>9. Len(L[D[v + 1]]) \in Nat /\ Len(pending') = Len(L[D[v + 1]])
    BY <1>s, <2>2, <2>7, <2>8, LenProperties
  <2>10. \A i \in 1 .. Len(queue') : queue'[i] = D[v + 1 + i]
    <3> SUFFICES ASSUME NEW i \in 1 .. Len(queue') PROVE queue'[i] = D[v + 1 + i]
      OBVIOUS
    <3>1. i + 1 \in 1 .. Len(queue) /\ v + (i + 1) = v + 1 + i
      BY <1>b, <2>2, <2>6
    <3>2. queue[i + 1] = D[v + (i + 1)]
      BY <2>3, <3>1
    <3> QED BY <2>2, <3>1, <3>2
  <2> HIDE DEF D, L, v, list, m
  <2>11. /\ D' = D /\ L' = L /\ v' = v + 1
    BY <1>s, <2>1, <2>6 DEF D, L, v
  <2>12. m' = 0 /\ list' = pending'
    BY <2>8, <2>9, <2>11 DEF m, list
  <2>13. \A j \in 1 .. Len(pending') : pending'[j] = list'[m' + j]
    BY <2>9, <2>12
  <2> QED BY <1>s, <2>1, <2>3, <2>5, <2>6, <2>10, <2>11, <2>12, <2>13
             DEF FoundInOrder, D, L, v, list, m
<1>3. CASE VisitDependency
  <2> DEFINE x == Head(pending)
  <2>1. /\ pc = "discover" /\ pending # <<>> /\ pending' = Tail(pending)
        /\ IF x \in Programs \ seen
             THEN discovered' = Append(discovered, x) /\ queue' = Append(queue, x)
             ELSE discovered' = discovered /\ queue' = queue
    BY <1>3 DEF VisitDependency, discovery
  <2>2. /\ Len(pending') = Len(pending) - 1 /\ Len(pending) > 0 /\ x = pending[1]
        /\ \A i \in 1 .. Len(pending') : pending'[i] = pending[i + 1]
        /\ x \in Names
    BY <1>b, <2>1, Popped
  <2>3. /\ discovered # <<>> /\ discovered[1] = root /\ v \in 0 .. Len(D)
        /\ \A i \in 1 .. Len(queue) : queue[i] = discovered[v + i]
        /\ v > 0 /\ m \in Nat
        /\ \A j \in 1 .. Len(pending) : pending[j] = list[m + j]
        /\ FoundSoFar(D, L, v, m)
    BY <2>1 DEF FoundInOrder
  <2>4. /\ v \in 1 .. Len(D) /\ v \in Nat
    BY <1>b, <2>3
  <2>5. D[v] \in Programs /\ list \in Seq(Names) /\ Len(list) \in Nat
    BY <1>b, <1>s, <2>4, ElementOfSeq, LenProperties
  <2>6. /\ m + 1 <= Len(list) /\ list[m + 1] = x /\ Len(list) - Len(pending') = m + 1
        /\ 1 \in 1 .. Len(pending)
    BY <1>b, <2>2, <2>3, <2>5
  <2>7. \A j \in 1 .. Len(pending') : pending'[j] = list[m + 1 + j]
    <3> SUFFICES ASSUME NEW j \in 1 .. Len(pending') PROVE pending'[j] = list[m + 1 + j]
      OBVIOUS
    <3>0. m \in Nat
      BY <2>3
    <3> HIDE DEF m
    <3>1. j + 1 \in 1 .. Len(pending) /\ m + (j + 1) = m + 1 + j
      BY <1>b, <2>2, <3>0
    <3>2. pending[j + 1] = list[m + (j + 1)]
      BY <2>3, <3>1
    <3> QED BY <2>2, <3>1, <3>2
  <2>8. ToSet(D) = seen
    BY <1>a, <2>1 DEF DiscoveryInv
  <2>9. CASE x \in Programs \ seen
    <3>1. discovered' = Append(D, x) /\ queue' = Append(queue, x)
      BY <2>1, <2>9
    <3>2. /\ Len(Append(D, x)) = Len(D) + 1
          /\ \A i \in 1 .. Len(D) : Append(D, x)[i] = D[i]
          /\ Append(D, x)[Len(D) + 1] = x
          /\ Len(Append(queue, x)) = Len(queue) + 1
          /\ \A i \in 1 .. Len(queue) : Append(queue, x)[i] = queue[i]
          /\ Append(queue, x)[Len(queue) + 1] = x
      BY <1>b, <2>9, Appended
    <3>3. FoundSoFar(Append(D, x), L, v, m + 1)
      <4>1. list[m + 1] \in Programs \ ToSet(D)
        BY <2>6, <2>8, <2>9
      <4>2. FoundSoFar(Append(D, list[m + 1]), L, v, m + 1)
        BY <1>b, <1>s, <2>3, <2>4, <2>6, <4>1, ReadNew
      <4> QED BY <2>6, <4>2
    <3> HIDE DEF x
    <3>4. Len(discovered') - Len(queue') = v
      BY <1>b, <3>1, <3>2
    <3>5. discovered'[v] = D[v] /\ discovered'[1] = D[1] /\ discovered' # <<>>
      <4>1. 1 \in 1 .. Len(D)
        BY <1>b, <2>4
      <4>2. Len(discovered') > 0
        BY <1>b, <3>1, <3>2
      <4> QED BY <1>b, <2>4, <3>1, <3>2, <4>1, <4>2
    <3>6. \A i \in 1 .. Len(queue') : queue'[i] = discovered'[v + i]
      <4> SUFFICES ASSUME NEW i \in 1 .. Len(queue') PROVE queue'[i] = discovered'[v + i]
        OBVIOUS
      <4>1. CASE i = Len(queue) + 1
        <5>1. v + i = Len(D) + 1
          BY <1>b, <4>1
        <5> QED BY <3>1, <3>2, <4>1, <5>1
      <4>2. CASE i # Len(queue) + 1
        <5>1. i \in 1 .. Len(queue)
          BY <1>b, <3>1, <3>2, <4>2
        <5>2. v + i \in 1 .. Len(D)
          BY <1>b, <2>4, <5>1
        <5> QED BY <2>3, <3>1, <3>2, <5>1, <5>2
      <4> QED BY <4>1, <4>2
    <3>7. v \in 0 .. Len(discovered')
      BY <1>b, <2>4, <3>1, <3>2
    <3> HIDE DEF D, L, v, list, m
    <3>8. L' = L /\ v' = v /\ list' = list /\ m' = m + 1
      <4>1. L' = L /\ v' = v
        BY <1>s, <3>4 DEF L, v, D
      <4>2. list' = list
        BY <3>5, <4>1 DEF list, D
      <4> QED BY <2>6, <4>1, <4>2 DEF m
    <3>9. FoundSoFar(D', L', v', m')
      BY <3>1, <3>3, <3>8 DEF D
    <3>10. m' \in Nat /\ \A j \in 1 .. Len(pending') : pending'[j] = list'[m' + j]
      BY <2>3, <2>7, <3>8
    <3>11. discovered'[1] = root' /\ v' \in 0 .. Len(discovered') /\ v' # 0
      BY <1>s, <2>3, <2>4, <3>5, <3>7, <3>8 DEF D
    <3>12. \A i \in 1 .. Len(queue') : queue'[i] = discovered'[v' + i]
      BY <3>6, <3>8
    <3> QED BY <3>5, <3>9, <3>10, <3>11, <3>12 DEF FoundInOrder, D, L, v, list, m
  <2>10. CASE x \notin Programs \ seen
    <3>1. discovered' = D /\ queue' = queue
      BY <2>1, <2>10
    <3>2. FoundSoFar(D, L, v, m + 1)
      <4>1. list[m + 1] \in Programs => list[m + 1] \in ToSet(D)
        BY <2>6, <2>8, <2>10
      <4> QED BY <1>b, <1>s, <2>3, <2>4, <2>6, <4>1, ReadKnown
    <3> HIDE DEF x, D, L, v, list, m
    <3>3. D' = D /\ L' = L /\ v' = v
      BY <1>s, <3>1 DEF D, L, v
    <3>4. list' = list /\ m' = m + 1
      BY <2>6, <3>3 DEF list, m
    <3>5. FoundSoFar(D', L', v', m')
      BY <3>2, <3>3, <3>4
    <3>6. m' \in Nat /\ \A j \in 1 .. Len(pending') : pending'[j] = list'[m' + j]
      BY <2>3, <2>7, <3>4
    <3>7. /\ discovered' # <<>> /\ discovered'[1] = root'
          /\ v' \in 0 .. Len(discovered') /\ v' # 0
      BY <1>s, <2>3, <2>4, <3>1, <3>3 DEF D
    <3>8. \A i \in 1 .. Len(queue') : queue'[i] = discovered'[v' + i]
      BY <2>3, <3>1, <3>3 DEF D
    <3> QED BY <3>5, <3>6, <3>7, <3>8 DEF FoundInOrder, D, L, v, list, m
  <2> QED BY <2>9, <2>10
<1>4. CASE \/ CountUnit \/ CountEntry \/ CollectReady \/ SortUnit \/ ReleaseDependent
           \/ AppendRest \/ LoopDone \/ Returned
  BY <1>4 DEF CountUnit, CountEntry, CollectReady, SortUnit, ReleaseDependent, AppendRest,
              LoopDone, Returned, vars
<1>5. CASE UNCHANGED vars
  BY <1>5, <1>s DEF FoundInOrder, vars, discovery
<1> QED BY <1>1, <1>2, <1>3, <1>4, <1>5 DEF Next

\* With the queue empty, every list has been read.
LEMMA StepDiscoveryDone ==
  OrderInv /\ FoundInOrder /\ DiscoveryDone /\ [Next]_vars => DiscoveryDone'
<1> SUFFICES ASSUME OrderInv, FoundInOrder, DiscoveryDone, [Next]_vars, pc' \in Ordered
             PROVE  DiscoveryDone'
  BY DEF DiscoveryDone
<1>a. TypeOK /\ Untouched /\ DiscoveryInv
  BY DEF OrderInv
<1>s. /\ AllLists' = AllLists /\ root' = root /\ AllLists \in [Programs -> Seq(Names)]
      /\ discovered \in Seq(Programs) /\ Len(discovered) \in Nat /\ Len(<<>>) = 0
  BY <1>a, SameLists, AllListsTyped, Elements DEF TypeOK
<1>1. CASE pc = "discover"
  <2>1. LoopDone
    BY <1>1 DEF Next, vars, Ordered, CheckRoot, VisitUnit, VisitDependency, CountUnit, CountEntry,
                CollectReady, SortUnit, ReleaseDependent, AppendRest, Returned
  <2>2. queue = <<>> /\ pending = <<>> /\ discovered' = discovered
    BY <1>1, <2>1 DEF LoopDone, discovery
  <2>3. /\ discovered # <<>> /\ discovered[1] = root /\ IsInjective(discovered)
        /\ FoundSoFar(discovered, AllLists, Len(discovered) - Len(queue),
                      Len(AllLists[discovered[Len(discovered) - Len(queue)]]) - Len(pending))
    BY <1>1, <1>a DEF FoundInOrder, DiscoveryInv
  <2>4. Len(discovered) - Len(queue) = Len(discovered)
    BY <1>s, <2>2
  <2>5. Len(AllLists[discovered[Len(discovered)]]) - Len(pending)
          = Len(AllLists[discovered[Len(discovered)]])
    <3>1. Len(discovered) > 0
      BY <1>s, <2>3, Elements
    <3>2. discovered[Len(discovered)] \in Programs
      BY <1>s, <3>1, ElementOfSeq
    <3>3. Len(AllLists[discovered[Len(discovered)]]) \in Nat
      BY <1>s, <3>2, LenProperties
    <3> QED BY <1>s, <2>2, <3>3
  <2>6. FoundSoFar(discovered, AllLists, Len(discovered), Len(AllLists[discovered[Len(discovered)]]))
    BY <2>3, <2>4, <2>5
  <2>7. Discovers(discovered, AllLists, root)
    BY <1>s, <2>3, <2>6, AllRead
  <2> QED BY <1>s, <2>2, <2>7 DEF DiscoveryDone
<1>2. CASE pc # "discover"
  <2>1. pc \in Ordered /\ discovered' = discovered
    BY <1>2 DEF Next, vars, Ordered, CheckRoot, VisitUnit, VisitDependency, CountUnit, CountEntry,
                CollectReady, SortUnit, ReleaseDependent, AppendRest, LoopDone, Returned, discovery
  <2> QED BY <1>s, <2>1 DEF DiscoveryDone
<1> QED BY <1>1, <1>2

\* From then on the discovery order stays.
LEMMA OrderIsSettled ==
  [Next]_vars /\ pc \in Ordered => discovered' = discovered /\ pc' \in Ordered
  BY DEF Next, vars, Ordered, CheckRoot, VisitUnit, VisitDependency, CountUnit, CountEntry,
         CollectReady, SortUnit, ReleaseDependent, AppendRest, LoopDone, Returned, discovery

-----------------------------------------------------------------------------
(* What the queues of the sort keep in order.                              *)

\* The units that wait for a program are on record in the order they were found.
EntriesInOrder ==
  /\ \A d \in Programs : \A k, l \in 1 .. Len(dependents[d]) :
       k < l => \/ dependents[d][k] = dependents[d][l]
                \/ Precedes(discovered, dependents[d][k], dependents[d][l])
  /\ pc = "count" =>
       \A d \in Programs : \A u \in ToSet(dependents[d]) : \E i \in 1 .. next : discovered[i] = u

Awaited == WaitsOf(discovered, after)
Sooner(u, v) == ReadySooner(sorted, discovered, Awaited, u, v)

\* The units that are ready stand in the order they got ready.
ReadyInOrder ==
  /\ pc = "collect" =>
       \A k \in 1 .. Len(ready) : \A l \in k + 1 .. Len(ready) :
         Precedes(discovered, ready[k], ready[l])
  /\ pc = "sort" =>
       /\ \A k \in 1 .. Len(sorted) : \A l \in k + 1 .. Len(sorted) : Sooner(sorted[k], sorted[l])
       /\ \A u \in ToSet(sorted), v \in ToSet(ready) : Sooner(u, v)
       /\ \A k \in 1 .. Len(ready) : \A l \in k + 1 .. Len(ready) : Sooner(ready[k], ready[l])

\* What the fallback appends was kept back, and is appended as it was found.
RestInOrder ==
  pc \in {"rest", "done"} =>
    \E n \in 0 .. Len(sorted) :
      /\ SortedTo(n, sorted, discovered, Awaited)
      /\ \A k \in 1 .. n : inDegree[sorted[k]] = 0
      /\ pc = "rest" =>
           \A k \in n + 1 .. Len(sorted) : \E i \in 1 .. next : discovered[i] = sorted[k]

LEMMA StepEntriesInOrder == OrderInv /\ EntriesInOrder /\ [Next]_vars => EntriesInOrder'
<1> SUFFICES ASSUME OrderInv, EntriesInOrder, [Next]_vars PROVE EntriesInOrder'
  OBVIOUS
<1>a. TypeOK /\ Untouched /\ DiscoveryInv
  BY DEF OrderInv
<1>b. /\ discovered \in Seq(Programs) /\ Len(discovered) \in Nat /\ next \in 0 .. Len(discovered)
      /\ DOMAIN discovered = 1 .. Len(discovered)
      /\ Len(<<>>) = 0 /\ ToSet(<<>>) = {}
  BY <1>a, Elements DEF TypeOK, ToSet
<1>1. CASE CheckRoot \/ VisitUnit \/ VisitDependency
  <2>1. dependents' = [p \in Programs |-> <<>>] /\ pc' # "count"
    BY <1>1, <1>a DEF CheckRoot, VisitUnit, VisitDependency, Untouched, Early, degrees
  <2>2. \A p \in Programs : \A k \in 1 .. Len(dependents'[p]) : FALSE
    BY <1>b, <2>1
  <2> QED BY <2>1, <2>2 DEF EntriesInOrder
<1>2. CASE CountUnit
  <2>1. /\ pc = "count" /\ next' = next + 1 /\ dependents' = dependents /\ discovered' = discovered
    BY <1>2 DEF CountUnit, degrees, discovery
  <2>2. \A i \in 1 .. next : i \in 1 .. next'
    BY <1>b, <2>1
  <2> QED BY <2>1, <2>2 DEF EntriesInOrder
<1>3. CASE CountEntry
  <2> DEFINE dep == Head(pending)
             unit == discovered[next]
  <2>1. /\ pc = "count" /\ pc' = "count" /\ pending # <<>> /\ next' = next
        /\ discovered' = discovered
    BY <1>3 DEF CountEntry, discovery
  <2>2. next \in 1 .. Len(discovered) /\ unit \in Programs
    <3>1. next \in 1 .. Len(discovered)
      BY <1>a, <1>b, <2>1 DEF Untouched
    <3> QED BY <1>b, <3>1, ElementOfSeq
  <2>3. CASE dep \notin seen
    <3>1. dependents' = dependents
      BY <1>3, <2>3 DEF CountEntry, degrees
    <3> QED BY <2>1, <3>1 DEF EntriesInOrder
  <2>4. CASE dep \in seen
    <3>1. /\ dependents' = [dependents EXCEPT ![dep] = Append(dependents[dep], unit)]
          /\ dep \in Programs
      BY <1>3, <1>a, <2>4 DEF CountEntry, TypeOK
    <3>2. /\ dependents'[dep] = Append(dependents[dep], unit)
          /\ \A p \in Programs : p # dep => dependents'[p] = dependents[p]
      BY <1>a, <3>1 DEF TypeOK
    <3> DEFINE list == dependents[dep]
    <3>3. /\ list \in Seq(Programs) /\ Len(list) \in Nat
          /\ ToSet(list) = {list[k] : k \in 1 .. Len(list)}
      <4>1. list \in Seq(Programs)
        BY <1>a, <3>1 DEF TypeOK
      <4> QED BY <4>1, Elements
    <3>4. /\ Len(dependents'[dep]) = Len(list) + 1
          /\ dependents'[dep][Len(list) + 1] = unit
          /\ \A k \in 1 .. Len(list) : dependents'[dep][k] = list[k]
          /\ ToSet(dependents'[dep]) = ToSet(list) \cup {unit}
      BY <2>2, <3>2, <3>3, Appended
    <3>5. \A u \in ToSet(list) : \E i \in 1 .. next : discovered[i] = u
      BY <2>1, <3>1 DEF EntriesInOrder
    <3>6. \A u \in ToSet(list) : u = unit \/ Precedes(discovered, u, unit)
      <4> SUFFICES ASSUME NEW u \in ToSet(list), u # unit PROVE Precedes(discovered, u, unit)
        OBVIOUS
      <4>1. PICK i \in 1 .. next : discovered[i] = u
        BY <3>5
      <4>2. i < next /\ i \in 1 .. Len(discovered)
        BY <1>b, <4>1
      <4> QED BY <1>b, <2>2, <4>1, <4>2 DEF Precedes
    <3> HIDE DEF list, unit, dep
    <3>7. ASSUME NEW p \in Programs, NEW k \in 1 .. Len(dependents'[p]),
                 NEW l \in 1 .. Len(dependents'[p]), k < l
          PROVE  \/ dependents'[p][k] = dependents'[p][l]
                 \/ Precedes(discovered, dependents'[p][k], dependents'[p][l])
      <4>1. CASE p # dep
        BY <3>2, <3>7, <4>1 DEF EntriesInOrder
      <4>2. CASE p = dep
        <5>1. k \in 1 .. Len(list) /\ dependents'[p][k] = list[k] /\ list[k] \in ToSet(list)
          BY <3>3, <3>4, <3>7, <4>2
        <5>2. CASE l = Len(list) + 1
          BY <3>4, <3>6, <4>2, <5>1, <5>2
        <5>3. CASE l # Len(list) + 1
          <6>1. l \in 1 .. Len(list) /\ dependents'[p][l] = list[l]
            BY <3>3, <3>4, <4>2, <5>3
          <6> QED BY <3>1, <3>7, <5>1, <6>1 DEF EntriesInOrder, list
        <5> QED BY <5>2, <5>3
      <4> QED BY <4>1, <4>2
    <3>8. ASSUME NEW p \in Programs, NEW u \in ToSet(dependents'[p])
          PROVE  \E i \in 1 .. next : discovered[i] = u
      <4>1. CASE p # dep
        BY <2>1, <3>2, <3>8, <4>1 DEF EntriesInOrder
      <4>2. CASE p = dep /\ u \in ToSet(list)
        BY <3>5, <4>2
      <4>3. CASE p = dep /\ u = unit
        <5>1. next \in 1 .. next
          BY <1>b, <2>2
        <5> QED BY <4>3, <5>1 DEF unit
      <4> QED BY <3>4, <3>8, <4>1, <4>2, <4>3
    <3> QED BY <2>1, <3>7, <3>8 DEF EntriesInOrder
  <2> QED BY <2>3, <2>4
<1>4. CASE LoopDone
  <2>1. dependents' = dependents /\ discovered' = discovered
    BY <1>4 DEF LoopDone, degrees, discovery
  <2>2. CASE pc = "discover"
    <3>1. dependents = [p \in Programs |-> <<>>]
      BY <1>a, <2>2 DEF Untouched, Early
    <3>2. \A p \in Programs : ToSet(dependents'[p]) = {}
      BY <1>b, <2>1, <3>1
    <3> QED BY <2>1, <3>2 DEF EntriesInOrder
  <2>3. CASE pc # "discover"
    <3>1. pc' # "count"
      BY <1>4, <2>3 DEF LoopDone
    <3> QED BY <2>1, <3>1 DEF EntriesInOrder
  <2> QED BY <2>2, <2>3
<1>5. CASE CollectReady \/ SortUnit \/ ReleaseDependent \/ AppendRest
  <2>1. dependents' = dependents /\ discovered' = discovered /\ pc' # "count"
    BY <1>5 DEF CollectReady, SortUnit, ReleaseDependent, AppendRest, degrees, discovery
  <2> QED BY <2>1 DEF EntriesInOrder
<1>6. CASE Returned \/ UNCHANGED vars
  <2>1. UNCHANGED <<pc, discovered, next, dependents>>
    BY <1>6 DEF Returned, vars, degrees, discovery
  <2> QED BY <2>1 DEF EntriesInOrder
<1> QED BY <1>1, <1>2, <1>3, <1>4, <1>5, <1>6 DEF Next

\* A unit awaits the discovered units that are on its "after" list.
LEMMA AwaitedIs ==
  ASSUME OrderInv, pc \in Ordered, NEW u \in seen
  PROVE  Awaited[u] = {d \in seen : DependsOn(u, d)}
<1>1. ToSet(discovered) = seen
  BY DEF OrderInv, DiscoveryInv, Ordered
<1>2. Awaited[u] = ToSet(after[u]) \cap seen
  BY <1>1 DEF Awaited, WaitsOf
<1> QED BY <1>2 DEF DependsOn, ToSet

\* What is ready or sorted waits for nothing that is not sorted.
LEMMA FreeIsServed ==
  ASSUME OrderInv, EntriesAreAfter, pc \in {"collect", "sort"}, NEW u \in seen, inDegree[u] = 0
  PROVE  ServedBy(sorted, Len(sorted), Awaited[u])
<1>1. ToSet(sorted) = {sorted[i] : i \in 1 .. Len(sorted)}
  BY Elements DEF OrderInv, TypeOK
<1>2. ASSUME NEW d \in seen, DependsOn(u, d) PROVE d \in ToSet(sorted)
  <2>1. PICK k \in 1 .. Len(dependents[d]) : ~ Unreleased(<<d, k>>)
    BY <1>2, FreeIsReleased
  <2> QED BY <2>1 DEF Unreleased
<1>3. Awaited[u] = {d \in seen : DependsOn(u, d)}
  BY AwaitedIs DEF Ordered
<1> QED BY <1>1, <1>2, <1>3 DEF ServedBy

\* Sorting one more unit does not change which of two units got ready sooner.
LEMMA SoonerStays ==
  ASSUME NEW K, NEW s \in Seq(K), NEW e \in K, NEW found, NEW waits, NEW u, NEW v,
         ServedBy(s, Len(s), waits[u]), ServedBy(s, Len(s), waits[v]),
         ReadySooner(s, found, waits, u, v)
  PROVE  ReadySooner(Append(s, e), found, waits, u, v)
<1> DEFINE t == Append(s, e)  n == Len(s)
<1>1. n \in Nat /\ Len(t) = n + 1 /\ \A i \in 1 .. n : t[i] = s[i]
  BY Appended, Elements
<1> HIDE DEF t
<1>2. \A k \in 0 .. n : \A W : ServedBy(s, k, W) <=> ServedBy(t, k, W)
  <2> HIDE DEF n
  <2>1. \A k \in 0 .. n : k \in Int /\ k <= n /\ n \in Int
    BY <1>1
  <2> QED BY <1>1, <2>1, ServedBySame
<1>3. ServedBy(t, n + 1, waits[u]) /\ ServedBy(t, n + 1, waits[v])
  <2>1. n \in 0 .. n /\ n \in Int /\ n + 1 \in Int /\ n <= n + 1
    BY <1>1
  <2>2. ServedBy(t, n, waits[u]) /\ ServedBy(t, n, waits[v])
    BY <1>2, <2>1
  <2> HIDE DEF n
  <2> QED BY <2>1, <2>2, ServedByMore
<1>4. \A k \in 0 .. n + 1 : k \in 0 .. n \/ k = n + 1
  BY <1>1
<1>5. \A k \in 0 .. n : ServedBy(s, k, waits[v]) => ServedBy(s, k, waits[u])
  BY DEF ReadySooner
<1>6. (\A k \in 0 .. n : ServedBy(s, k, waits[u]) => ServedBy(s, k, waits[v]))
        => Precedes(found, u, v)
  BY DEF ReadySooner
<1>7. \A k \in 0 .. n : k \in 0 .. n + 1
  BY <1>1
<1> HIDE DEF n
<1>8. \A k \in 0 .. n + 1 : ServedBy(t, k, waits[v]) => ServedBy(t, k, waits[u])
  BY <1>2, <1>3, <1>4, <1>5
<1>9. (\A k \in 0 .. n + 1 : ServedBy(t, k, waits[u]) => ServedBy(t, k, waits[v]))
        => Precedes(found, u, v)
  BY <1>2, <1>6, <1>7
<1> QED BY <1>1, <1>8, <1>9 DEF ReadySooner, t

\* A unit the last one releases gets ready later than all that were, or with them
\* if that released them too.
LEMMA SoonerThanReleased ==
  ASSUME NEW K, NEW s \in Seq(K), s # <<>>, NEW found, NEW waits, NEW u, NEW v,
         ServedBy(s, Len(s), waits[u]), ~ ServedBy(s, Len(s) - 1, waits[v]),
         s[Len(s)] \in waits[u] => Precedes(found, u, v)
  PROVE  ReadySooner(s, found, waits, u, v)
<1> DEFINE n == Len(s)
<1>1. n \in Nat /\ n > 0 /\ n - 1 \in 0 .. n
  BY Elements
<1>2. ASSUME NEW k \in 0 .. n, ServedBy(s, k, waits[v]) PROVE ServedBy(s, k, waits[u])
  <2>1. ~ (k <= n - 1)
    <3>1. k \in Int /\ n - 1 \in Int
      BY <1>1
    <3> HIDE DEF n
    <3>2. ~ ServedBy(s, n - 1, waits[v])
      BY DEF n
    <3> QED BY <1>2, <3>1, <3>2, ServedByMore
  <2>2. k = n
    BY <1>1, <2>1
  <2> QED BY <2>2
<1>3. ASSUME \A k \in 0 .. n : ServedBy(s, k, waits[u]) => ServedBy(s, k, waits[v])
      PROVE  Precedes(found, u, v)
  <2>1. ~ ServedBy(s, n - 1, waits[u])
    BY <1>1, <1>3
  <2>2. PICK d \in waits[u] : ~ \E i \in 1 .. n - 1 : s[i] = d
    BY <2>1 DEF ServedBy
  <2>3. PICK i \in 1 .. n : s[i] = d
    BY DEF ServedBy
  <2>4. i = n
    <3> HIDE DEF n
    <3>1. i # n => i \in 1 .. n - 1
      BY <1>1
    <3> QED BY <2>2, <2>3, <3>1
  <2> QED BY <2>2, <2>3, <2>4
<1> QED BY <1>2, <1>3 DEF ReadySooner

LEMMA SameAwaited == [Next]_vars /\ pc \in Ordered => discovered' = discovered /\ Awaited' = Awaited
<1> SUFFICES ASSUME [Next]_vars, pc \in Ordered
             PROVE  discovered' = discovered /\ Awaited' = Awaited
  OBVIOUS
<1>1. discovered' = discovered /\ after' = after
  BY OrderIsSettled, SameAfter
<1> QED BY <1>1 DEF Awaited

\* The unit that the last one sorted releases gets ready behind all that are.
LEMMA ReleasedIsLast ==
  ASSUME OrderInv, EntriesAreAfter, EntriesInOrder, pc = "sort", pending # <<>>,
         NEW u \in ToSet(sorted) \cup ToSet(ready)
  PROVE  Sooner(u, Head(pending))
<1> DEFINE unit == Head(pending)
           d == sorted[Len(sorted)]
           list == dependents[d]
           q == Len(list) - Len(pending) + 1
<1>a. /\ TypeOK /\ Untouched /\ SortedOnce /\ PendingIsTheRest /\ DegreesAreOwed
      /\ sorted \in Seq(Programs) /\ pending \in Seq(Programs)
  BY DEF OrderInv, TypeOK, Untouched
<1>1. u \in seen /\ inDegree[u] = 0
  BY <1>a DEF SortedOnce
<1>2. unit \in Programs /\ inDegree[unit] > 0 /\ unit \in seen
  <2>1. unit \in ToSet(pending)
    BY <1>a, Popped
  <2> QED BY <1>a, <2>1, OwedIsPositive DEF PendingIsTheRest
<1>3. sorted # <<>> /\ d \in ToSet(sorted) /\ d \in seen /\ d \in Programs
  BY <1>a, PendingIsOwed DEF PendingIsTheRest, SortedOnce
<1>4. list \in Seq(Programs)
  BY <1>a, <1>3 DEF TypeOK
<1>5. /\ Len(list) \in Nat /\ Len(pending) \in Nat /\ Len(pending) > 0
      /\ ToSet(list) = {list[k] : k \in 1 .. Len(list)}
  BY <1>a, <1>4, Elements
<1>6. Len(pending) <= Len(list) /\ list[Len(list) - Len(pending) + 1] = pending[1]
  BY <1>a, <1>5 DEF PendingIsTheRest
<1>7. q \in 1 .. Len(list) /\ list[q] = unit
  <2>1. unit = pending[1]
    BY <1>a, Popped
  <2> QED BY <1>5, <1>6, <2>1
<1>8. DependsOn(unit, d)
  <2>1. unit \in ToSet(list)
    BY <1>5, <1>7
  <2> HIDE DEF unit, d
  <2> QED BY <1>3, <2>1 DEF EntriesAreAfter, list
<1>9. ServedBy(sorted, Len(sorted), Awaited[u])
  BY <1>1, FreeIsServed
<1>10. ~ ServedBy(sorted, Len(sorted) - 1, Awaited[unit])
  <2>1. d \in Awaited[unit]
    BY <1>2, <1>3, <1>8, AwaitedIs DEF Ordered
  <2>2. IsInjective(sorted) /\ DOMAIN sorted = 1 .. Len(sorted) /\ Len(sorted) \in Nat
    BY <1>a, Elements DEF SortedOnce
  <2>3. ASSUME NEW i \in 1 .. Len(sorted) - 1 PROVE sorted[i] # d
    <3> DEFINE n == Len(sorted)
    <3>1. n \in Nat /\ i \in 1 .. n - 1
      BY <2>2
    <3> HIDE DEF n
    <3>2. i \in 1 .. n /\ n \in 1 .. n /\ i # n
      BY <3>1
    <3> QED BY <2>2, <3>2 DEF IsInjective, n
  <2> HIDE DEF d, unit
  <2> QED BY <2>1, <2>3 DEF ServedBy
<1>11. ASSUME d \in Awaited[u] PROVE Precedes(discovered, u, unit)
  <2>1. DependsOn(u, d)
    BY <1>1, <1>11, AwaitedIs DEF Ordered
  <2>2. PICK k \in 1 .. Len(list) : list[k] = u /\ ~ Unreleased(<<d, k>>)
    BY <1>1, <1>3, <2>1, FreeIsReleased
  <2>3. ~ (k > Len(list) - Len(pending))
    BY <1>3, <2>2 DEF Unreleased
  <2>4. k < q
    BY <1>5, <2>2, <2>3
  <2>5. u # unit
    BY <1>1, <1>2
  <2> HIDE DEF unit, q, d
  <2> QED BY <1>3, <1>7, <2>2, <2>4, <2>5 DEF EntriesInOrder, list
<1> HIDE DEF unit, d
<1> QED BY <1>a, <1>3, <1>9, <1>10, <1>11, SoonerThanReleased DEF Sooner, unit, d

\* The ready queue is first in, first out.
LEMMA StepReadyInOrder ==
  OrderInv /\ AfterInv /\ EntriesInOrder /\ ReadyInOrder /\ [Next]_vars => ReadyInOrder'
<1> SUFFICES ASSUME OrderInv, AfterInv, EntriesInOrder, ReadyInOrder, [Next]_vars,
                    pc' \in {"collect", "sort"}
             PROVE  ReadyInOrder'
  BY DEF ReadyInOrder
<1>a. /\ TypeOK /\ Untouched /\ DiscoveryInv /\ SortedOnce /\ PendingIsTheRest
      /\ DegreesAreOwed /\ EntriesAreAfter
  BY DEF OrderInv, AfterInv
<1>s. pc \in Ordered => discovered' = discovered /\ Awaited' = Awaited
  BY SameAwaited
<1>b. /\ ready \in Seq(Programs) /\ sorted \in Seq(Programs) /\ discovered \in Seq(Programs)
      /\ Len(ready) \in Nat /\ Len(sorted) \in Nat /\ Len(discovered) \in Nat
      /\ next \in 0 .. Len(discovered)
      /\ ToSet(ready) = {ready[i] : i \in 1 .. Len(ready)}
      /\ ToSet(sorted) = {sorted[i] : i \in 1 .. Len(sorted)}
      /\ DOMAIN discovered = 1 .. Len(discovered)
      /\ Len(<<>>) = 0 /\ ToSet(<<>>) = {}
  <2>1. /\ ready \in Seq(Programs) /\ sorted \in Seq(Programs) /\ discovered \in Seq(Programs)
        /\ next \in 0 .. Len(discovered)
    BY <1>a DEF TypeOK
  <2>2. ToSet(<<>>) = {}
    BY DEF ToSet
  <2> QED BY <2>1, <2>2, Elements
<1>1. CASE \/ CheckRoot \/ VisitUnit \/ VisitDependency \/ CountUnit \/ CountEntry \/ AppendRest
  BY <1>1 DEF CheckRoot, VisitUnit, VisitDependency, CountUnit, CountEntry, AppendRest
<1>2. CASE CollectReady
  <2> DEFINE unit == discovered[next + 1]
             n == Len(ready)
  <2>1. /\ pc = "collect" /\ pc' = "collect" /\ next + 1 \in 1 .. Len(discovered)
        /\ ready' = IF inDegree[unit] = 0 THEN Append(ready, unit) ELSE ready
    BY <1>2, <1>b DEF CollectReady
  <2>2. discovered' = discovered
    BY <1>s, <2>1 DEF Ordered
  <2>3. CASE inDegree[unit] # 0
    <3>1. ready' = ready
      BY <2>1, <2>3
    <3> QED BY <2>1, <2>2, <3>1 DEF ReadyInOrder
  <2>4. CASE inDegree[unit] = 0
    <3>1. unit \in Programs
      BY <1>b, <2>1, ElementOfSeq
    <3>2. ready' = Append(ready, unit)
      BY <2>1, <2>4
    <3>3. /\ Len(ready') = n + 1 /\ ready'[n + 1] = unit
          /\ \A i \in 1 .. n : ready'[i] = ready[i]
      BY <1>b, <3>1, <3>2, Appended
    <3>4. \A k \in 1 .. n : Precedes(discovered, ready[k], unit)
      <4> SUFFICES ASSUME NEW k \in 1 .. n PROVE Precedes(discovered, ready[k], unit)
        OBVIOUS
      <4>0. ready[k] \in ToSet(ready)
        BY <1>b
      <4>1. PICK i \in 1 .. next : discovered[i] = ready[k]
        BY <1>a, <2>1, <4>0 DEF SortedOnce
      <4>2. i \in 1 .. Len(discovered) /\ i < next + 1
        BY <1>b, <4>1
      <4> QED BY <1>b, <2>1, <4>1, <4>2 DEF Precedes
    <3> HIDE DEF unit, n
    <3>5. n \in Nat
      BY <1>b DEF n
    <3>6. ASSUME NEW k \in 1 .. n + 1, NEW l \in k + 1 .. n + 1
          PROVE  Precedes(discovered, ready'[k], ready'[l])
      <4>1. k \in 1 .. n /\ ready'[k] = ready[k]
        BY <3>3, <3>5
      <4>2. CASE l = n + 1
        BY <3>3, <3>4, <4>1, <4>2
      <4>3. CASE l # n + 1
        <5>1. l \in k + 1 .. n /\ l \in 1 .. n
          BY <3>5, <4>3
        <5>2. ready'[l] = ready[l]
          BY <3>3, <5>1
        <5> QED BY <2>1, <4>1, <5>1, <5>2 DEF ReadyInOrder, n
      <4> QED BY <4>2, <4>3
    <3> QED BY <2>1, <2>2, <3>3, <3>6 DEF ReadyInOrder
  <2> QED BY <2>3, <2>4
<1>3. CASE SortUnit
  <2> DEFINE x == Head(ready)
             n == Len(sorted)
             m == Len(Tail(ready))
  <2>1. /\ pc = "sort" /\ pc' = "sort" /\ ready # <<>> /\ ready' = Tail(ready)
        /\ sorted' = Append(sorted, x)
    BY <1>3 DEF SortUnit
  <2>2. discovered' = discovered /\ Awaited' = Awaited
    BY <1>s, <2>1 DEF Ordered
  <2>3. /\ Len(ready') = m /\ m = Len(ready) - 1 /\ x = ready[1] /\ x \in Programs
        /\ Len(ready) > 0
        /\ \A i \in 1 .. m : ready'[i] = ready[i + 1]
        /\ ToSet(ready) = {x} \cup ToSet(ready') /\ ready' \in Seq(Programs)
    BY <1>b, <2>1, Popped
  <2>4. /\ Len(sorted') = n + 1 /\ sorted'[n + 1] = x
        /\ \A i \in 1 .. n : sorted'[i] = sorted[i]
        /\ ToSet(sorted') = ToSet(sorted) \cup {x}
    BY <1>b, <2>1, <2>3, Appended
  <2>5. ASSUME NEW u \in ToSet(sorted) \cup ToSet(ready),
               NEW v \in ToSet(sorted) \cup ToSet(ready), Sooner(u, v)
        PROVE  ReadySooner(sorted', discovered', Awaited', u, v)
    <3>1. u \in seen /\ v \in seen /\ inDegree[u] = 0 /\ inDegree[v] = 0
      BY <1>a, <2>1 DEF SortedOnce
    <3>2. ServedBy(sorted, Len(sorted), Awaited[u]) /\ ServedBy(sorted, Len(sorted), Awaited[v])
      BY <1>a, <2>1, <3>1, FreeIsServed
    <3>3. ReadySooner(Append(sorted, x), discovered, Awaited, u, v)
      <4> HIDE DEF x
      <4> QED BY <1>b, <2>3, <2>5, <3>2, SoonerStays DEF Sooner
    <3> QED BY <2>1, <2>2, <3>3
  <2> HIDE DEF x, n, m
  <2>6. n \in Nat /\ m \in Nat
    BY <1>b, <2>3 DEF n
  <2>7. ASSUME NEW k \in 1 .. n + 1, NEW l \in k + 1 .. n + 1
        PROVE  ReadySooner(sorted', discovered', Awaited', sorted'[k], sorted'[l])
    <3>1. k \in 1 .. n /\ sorted'[k] = sorted[k] /\ sorted[k] \in ToSet(sorted)
      <4>1. k \in 1 .. n
        BY <2>6
      <4> QED BY <1>b, <2>4, <4>1 DEF n
    <3>2. CASE l = n + 1
      <4>1. Sooner(sorted[k], x)
        BY <2>1, <2>3, <3>1 DEF ReadyInOrder
      <4> QED BY <2>3, <2>4, <2>5, <3>1, <3>2, <4>1
    <3>3. CASE l # n + 1
      <4>1. l \in k + 1 .. n /\ l \in 1 .. n
        BY <2>6, <3>3
      <4>2. sorted'[l] = sorted[l] /\ sorted[l] \in ToSet(sorted)
        BY <1>b, <2>4, <4>1 DEF n
      <4>3. Sooner(sorted[k], sorted[l])
        BY <2>1, <3>1, <4>1 DEF ReadyInOrder, n
      <4> QED BY <2>5, <3>1, <4>2, <4>3
    <3> QED BY <3>2, <3>3
  <2>8. ASSUME NEW u \in ToSet(sorted'), NEW v \in ToSet(ready')
        PROVE  ReadySooner(sorted', discovered', Awaited', u, v)
    <3>1. v \in ToSet(ready)
      BY <2>3
    <3>2. CASE u \in ToSet(sorted)
      <4>1. Sooner(u, v)
        BY <2>1, <3>1, <3>2 DEF ReadyInOrder
      <4> QED BY <2>5, <3>1, <3>2, <4>1
    <3>3. CASE u = x
      <4>1. PICK j \in 1 .. m : ready'[j] = v
        BY <2>3, <2>8, Elements
      <4>2. j + 1 \in 1 + 1 .. Len(ready) /\ 1 \in 1 .. Len(ready)
        BY <1>b, <2>3, <2>6, <4>1
      <4>3. Sooner(ready[1], ready[j + 1])
        BY <2>1, <4>2 DEF ReadyInOrder
      <4>4. Sooner(x, v)
        BY <2>3, <4>1, <4>3
      <4> QED BY <2>3, <2>5, <3>1, <3>3, <4>4
    <3> QED BY <2>4, <2>8, <3>2, <3>3
  <2>9. ASSUME NEW k \in 1 .. m, NEW l \in k + 1 .. m
        PROVE  ReadySooner(sorted', discovered', Awaited', ready'[k], ready'[l])
    <3>1. /\ k + 1 \in 1 .. Len(ready) /\ l + 1 \in (k + 1) + 1 .. Len(ready)
          /\ l + 1 \in 1 .. Len(ready) /\ l \in 1 .. m
      BY <1>b, <2>3, <2>6
    <3>2. Sooner(ready[k + 1], ready[l + 1])
      BY <2>1, <3>1 DEF ReadyInOrder
    <3>3. ready'[k] = ready[k + 1] /\ ready'[l] = ready[l + 1]
      BY <2>3, <3>1
    <3>4. ready[k + 1] \in ToSet(ready) /\ ready[l + 1] \in ToSet(ready)
      BY <1>b, <3>1
    <3> QED BY <2>5, <3>2, <3>3, <3>4
  <2> QED BY <2>1, <2>3, <2>4, <2>7, <2>8, <2>9 DEF ReadyInOrder, Sooner
<1>4. CASE ReleaseDependent
  <2> DEFINE unit == Head(pending)
             n == Len(ready)
  <2>1. /\ pc = "sort" /\ pc' = "sort" /\ pending # <<>> /\ sorted' = sorted
        /\ ready' = Append(ready, unit) \/ ready' = ready
    BY <1>4 DEF ReleaseDependent
  <2>2. discovered' = discovered /\ Awaited' = Awaited
    BY <1>s, <2>1 DEF Ordered
  <2>3. CASE ready' = ready
    BY <2>1, <2>2, <2>3 DEF ReadyInOrder, Sooner
  <2>4. CASE ready' = Append(ready, unit)
    <3>1. unit \in Programs
      BY <1>a, <2>1, OwedIsPositive
    <3>2. /\ Len(ready') = n + 1 /\ ready'[n + 1] = unit
          /\ \A i \in 1 .. n : ready'[i] = ready[i]
          /\ ToSet(ready') = ToSet(ready) \cup {unit}
      BY <1>b, <2>4, <3>1, Appended
    <3>3. \A u \in ToSet(sorted) \cup ToSet(ready) : Sooner(u, unit)
      BY <1>a, <2>1, ReleasedIsLast
    <3> HIDE DEF unit, n
    <3>4. n \in Nat
      BY <1>b DEF n
    <3>5. ASSUME NEW k \in 1 .. n + 1, NEW l \in k + 1 .. n + 1
          PROVE  Sooner(ready'[k], ready'[l])
      <4>1. k \in 1 .. n
        BY <3>4
      <4>2. ready'[k] = ready[k] /\ ready[k] \in ToSet(ready)
        BY <1>b, <3>2, <4>1 DEF n
      <4>3. CASE l = n + 1
        BY <3>2, <3>3, <4>2, <4>3
      <4>4. CASE l # n + 1
        <5>1. l \in k + 1 .. n /\ l \in 1 .. n
          BY <3>4, <4>4
        <5>2. ready'[l] = ready[l]
          BY <3>2, <5>1
        <5> QED BY <2>1, <4>1, <4>2, <5>1, <5>2 DEF ReadyInOrder, n
      <4> QED BY <4>3, <4>4
    <3>6. \A u \in ToSet(sorted), v \in ToSet(ready') : Sooner(u, v)
      BY <2>1, <3>2, <3>3 DEF ReadyInOrder
    <3>7. \A k \in 1 .. Len(sorted) : \A l \in k + 1 .. Len(sorted) : Sooner(sorted[k], sorted[l])
      BY <2>1 DEF ReadyInOrder
    <3> QED BY <2>1, <2>2, <3>2, <3>5, <3>6, <3>7 DEF ReadyInOrder, Sooner
  <2> QED BY <2>1, <2>3, <2>4
<1>5. CASE LoopDone
  <2>1. ready' = ready /\ sorted' = sorted
    BY <1>5 DEF LoopDone, order
  <2>2. CASE pc' = "collect"
    <3>1. ready' = <<>>
      BY <1>5, <1>a, <2>1, <2>2 DEF LoopDone, Untouched
    <3>2. \A k \in 1 .. Len(ready') : FALSE
      BY <1>b, <3>1
    <3> QED BY <2>2, <3>2 DEF ReadyInOrder
  <2>3. CASE pc' = "sort"
    <3>1. pc = "collect"
      BY <1>5, <2>3 DEF LoopDone
    <3>2. sorted = <<>> /\ discovered' = discovered /\ Awaited' = Awaited
      BY <1>a, <1>s, <3>1 DEF Untouched, Ordered
    <3>3. Len(sorted) = 0 /\ ToSet(sorted) = {}
      BY <1>b, <3>2
    <3>4. ASSUME NEW k \in 1 .. Len(ready), NEW l \in k + 1 .. Len(ready)
          PROVE  Sooner(ready[k], ready[l])
      <4>1. ready[k] \in ToSet(ready) /\ ready[l] \in ToSet(ready)
        <5>1. l \in 1 .. Len(ready)
          BY <1>b
        <5> QED BY <1>b, <5>1
      <4>2. /\ ready[k] \in seen /\ ready[l] \in seen
            /\ inDegree[ready[k]] = 0 /\ inDegree[ready[l]] = 0
        <5>1. \A i \in 1 .. next : discovered[i] \in seen
          <6>1. ToSet(discovered) = {discovered[i] : i \in 1 .. Len(discovered)}
            BY <1>b, Elements
          <6>2. \A i \in 1 .. next : i \in 1 .. Len(discovered)
            BY <1>b
          <6> QED BY <1>a, <3>1, <6>1, <6>2 DEF DiscoveryInv
        <5> QED BY <1>a, <3>1, <4>1, <5>1 DEF SortedOnce
      <4>3. ServedBy(sorted, 0, Awaited[ready[k]]) /\ ServedBy(sorted, 0, Awaited[ready[l]])
        BY <1>a, <3>1, <3>3, <4>2, FreeIsServed
      <4>4. Precedes(discovered, ready[k], ready[l])
        BY <3>1 DEF ReadyInOrder
      <4>5. \A i \in 0 .. Len(sorted) : i = 0
        BY <3>3
      <4> QED BY <4>3, <4>4, <4>5 DEF Sooner, ReadySooner
    <3>5. \A k \in 1 .. Len(sorted) : FALSE
      BY <3>3
    <3> QED BY <2>1, <2>3, <3>2, <3>3, <3>4, <3>5 DEF ReadyInOrder, Sooner
  <2> QED BY <2>2, <2>3
<1>6. CASE Returned \/ UNCHANGED vars
  <2>1. UNCHANGED <<pc, ready, sorted>>
    BY <1>6 DEF Returned, vars, order
  <2>2. discovered' = discovered /\ Awaited' = Awaited
    BY <1>s, <2>1 DEF Ordered
  <2> QED BY <2>1, <2>2 DEF ReadyInOrder, Sooner
<1> QED BY <1>1, <1>2, <1>3, <1>4, <1>5, <1>6 DEF Next

\* What is behind the sorted units was kept back, and follows as it was found.
LEMMA StepRestInOrder ==
  OrderInv /\ AfterInv /\ ReadyInOrder /\ RestInOrder /\ [Next]_vars => RestInOrder'
<1> SUFFICES ASSUME OrderInv, AfterInv, ReadyInOrder, RestInOrder, [Next]_vars,
                    pc' \in {"rest", "done"}
             PROVE  RestInOrder'
  BY DEF RestInOrder
<1>a. /\ TypeOK /\ Untouched /\ DiscoveryInv /\ SortedOnce /\ SortedAfter /\ ServedComeFirst
  BY DEF OrderInv, AfterInv
<1>s. pc \in Ordered => discovered' = discovered /\ Awaited' = Awaited
  BY SameAwaited
<1>b. /\ sorted \in Seq(Programs) /\ discovered \in Seq(Programs) /\ next \in 0 .. Len(discovered)
      /\ Len(sorted) \in Nat /\ Len(discovered) \in Nat
      /\ ToSet(sorted) = {sorted[i] : i \in 1 .. Len(sorted)}
      /\ ToSet(discovered) = {discovered[i] : i \in 1 .. Len(discovered)}
      /\ DOMAIN discovered = 1 .. Len(discovered)
  <2>1. sorted \in Seq(Programs) /\ discovered \in Seq(Programs) /\ next \in 0 .. Len(discovered)
    BY <1>a DEF TypeOK
  <2> QED BY <2>1, Elements
<1>1. CASE \/ CheckRoot \/ VisitUnit \/ VisitDependency \/ CountUnit \/ CountEntry
           \/ CollectReady \/ SortUnit \/ ReleaseDependent
  BY <1>1 DEF CheckRoot, VisitUnit, VisitDependency, CountUnit, CountEntry, CollectReady,
              SortUnit, ReleaseDependent
<1>2. CASE LoopDone /\ pc = "sort"
  <2> DEFINE n == Len(sorted)
  <2>1. /\ discovered' = discovered /\ Awaited' = Awaited
        /\ sorted' = sorted /\ inDegree' = inDegree
    BY <1>2, <1>s DEF LoopDone, order, degrees, Ordered
  <2>2. \A k \in 1 .. n : sorted[k] \in seen /\ inDegree[sorted[k]] = 0
    BY <1>a, <1>b, <1>2 DEF SortedOnce
  <2> HIDE DEF n
  <2>3. n \in Nat /\ n \in 0 .. n
    BY <1>b DEF n
  <2>4. \A k \in 1 .. n : ServedBy(sorted, k - 1, Awaited[sorted[k]])
    <3> SUFFICES ASSUME NEW k \in 1 .. n PROVE ServedBy(sorted, k - 1, Awaited[sorted[k]])
      OBVIOUS
    <3>1. Awaited[sorted[k]] = {d \in seen : DependsOn(sorted[k], d)}
      BY <1>2, <2>2, AwaitedIs DEF Ordered
    <3>2. \A d \in seen : DependsOn(sorted[k], d) => \E j \in 1 .. k - 1 : sorted[j] = d
      BY <1>a, <1>2 DEF SortedAfter, n
    <3> QED BY <3>1, <3>2 DEF ServedBy
  <2>5. \A k \in 1 .. n : \A l \in k + 1 .. n : Sooner(sorted[k], sorted[l])
    BY <1>2 DEF ReadyInOrder, n
  <2>6. \A k \in n + 1 .. n : FALSE
    BY <2>3
  <2>7. SortedTo(n, sorted, discovered, Awaited)
    BY <2>4, <2>5, <2>6 DEF SortedTo, Sooner, n
  <2> QED BY <2>1, <2>2, <2>3, <2>6, <2>7 DEF RestInOrder, n
<1>3. CASE LoopDone /\ pc = "rest"
  <2>1. /\ discovered' = discovered /\ Awaited' = Awaited /\ pc' = "done"
        /\ sorted' = sorted /\ inDegree' = inDegree
    BY <1>3, <1>s DEF LoopDone, order, degrees, Ordered
  <2> QED BY <1>3, <2>1 DEF RestInOrder
<1>4. CASE AppendRest
  <2> DEFINE unit == discovered[next + 1]
             N == Len(sorted)
  <2>1. /\ pc = "rest" /\ pc' = "rest" /\ next + 1 \in 1 .. Len(discovered) /\ next' = next + 1
        /\ discovered' = discovered /\ Awaited' = Awaited /\ inDegree' = inDegree
        /\ sorted' = IF unit \in ToSet(sorted) THEN sorted ELSE Append(sorted, unit)
    BY <1>4, <1>b, <1>s DEF AppendRest, Ordered, degrees
  <2>2. PICK n \in 0 .. N :
          /\ SortedTo(n, sorted, discovered, Awaited)
          /\ \A k \in 1 .. n : inDegree[sorted[k]] = 0
          /\ \A k \in n + 1 .. N : \E i \in 1 .. next : discovered[i] = sorted[k]
    BY <2>1 DEF RestInOrder
  <2>3. \A i \in 1 .. next : i \in 1 .. next' /\ i \in 1 .. Len(discovered) /\ i < next + 1
    BY <1>b, <2>1
  <2>4. CASE unit \in ToSet(sorted)
    <3>1. sorted' = sorted
      BY <2>1, <2>4
    <3> QED BY <2>1, <2>2, <2>3, <3>1 DEF RestInOrder
  <2>5. CASE unit \notin ToSet(sorted)
    <3>1. sorted' = Append(sorted, unit)
      BY <2>1, <2>5
    <3>2. unit \in Programs /\ unit \in seen
      <4>1. unit \in ToSet(discovered)
        BY <1>b, <2>1
      <4> QED BY <1>a, <2>1, <4>1 DEF DiscoveryInv, TypeOK
    <3>3. /\ Len(sorted') = N + 1 /\ sorted'[N + 1] = unit
          /\ \A i \in 1 .. N : sorted'[i] = sorted[i]
      BY <1>b, <3>1, <3>2, Appended
    <3> HIDE DEF N
    <3>4. N \in Nat /\ n \in 0 .. N /\ n \in Nat /\ n <= N
      BY <1>b DEF N
    <3>5. PICK d \in seen : DependsOn(unit, d) /\ inDegree[d] # 0
      <4>1. inDegree[unit] # 0
        BY <1>a, <2>1, <2>5, <3>2 DEF ServedComeFirst
      <4> QED BY <1>a, <2>1, <3>2, <4>1 DEF ServedComeFirst
    <3>6. ~ ServedBy(sorted', n, Awaited[unit])
      <4>1. d \in Awaited[unit]
        BY <2>1, <3>2, <3>5, AwaitedIs DEF Ordered
      <4>2. \A i \in 1 .. n : i \in 1 .. N
        BY <3>4
      <4>3. \A i \in 1 .. n : inDegree[sorted'[i]] = 0
        BY <2>2, <3>3, <4>2
      <4> QED BY <3>5, <4>1, <4>3 DEF ServedBy
    <3> HIDE DEF unit
    <3>7. \A k \in 0 .. N : \A W : ServedBy(sorted, k, W) <=> ServedBy(sorted', k, W)
      <4>1. \A k \in 0 .. N : k \in Int /\ k <= N /\ N \in Int
        BY <3>4
      <4> QED BY <3>3, <4>1, ServedBySame
    <3>8. ASSUME NEW k \in 1 .. n PROVE ServedBy(sorted', k - 1, Awaited[sorted'[k]])
      <4>1. k \in 1 .. N /\ k - 1 \in 0 .. N
        BY <3>4
      <4>2. ServedBy(sorted, k - 1, Awaited[sorted[k]])
        BY <2>2 DEF SortedTo
      <4>3. sorted'[k] = sorted[k]
        BY <3>3, <4>1
      <4> QED BY <3>7, <4>1, <4>2, <4>3
    <3>9. \A k \in 1 .. n : ServedBy(sorted, Len(sorted), Awaited[sorted[k]])
      <4> SUFFICES ASSUME NEW k \in 1 .. n
                   PROVE  ServedBy(sorted, Len(sorted), Awaited[sorted[k]])
        OBVIOUS
      <4>1. k - 1 \in Int /\ N \in Int /\ k - 1 <= N
        BY <3>4
      <4>2. ServedBy(sorted, k - 1, Awaited[sorted[k]])
        BY <2>2 DEF SortedTo
      <4> QED BY <4>1, <4>2, ServedByMore DEF N
    <3>10. ASSUME NEW k \in 1 .. n, NEW l \in k + 1 .. n
           PROVE  ReadySooner(sorted', discovered, Awaited, sorted'[k], sorted'[l])
      <4>1. k \in 1 .. N /\ l \in 1 .. N /\ l \in 1 .. n
        BY <3>4
      <4>2. ReadySooner(sorted, discovered, Awaited, sorted[k], sorted[l])
        BY <2>2 DEF SortedTo
      <4>3. ReadySooner(Append(sorted, unit), discovered, Awaited, sorted[k], sorted[l])
        BY <1>b, <3>2, <3>9, <4>1, <4>2, SoonerStays
      <4> QED BY <3>1, <3>3, <4>1, <4>3
    <3>11. ASSUME NEW k \in n + 1 .. N + 1
           PROVE  ~ ServedBy(sorted', n, Awaited[sorted'[k]])
      <4>1. CASE k = N + 1
        BY <3>3, <3>6, <4>1
      <4>2. CASE k # N + 1
        <5>1. k \in n + 1 .. N /\ k \in 1 .. N
          BY <3>4, <4>2
        <5>2. ~ ServedBy(sorted, n, Awaited[sorted[k]])
          BY <2>2, <5>1 DEF SortedTo, N
        <5> QED BY <3>3, <3>4, <3>7, <5>1, <5>2
      <4> QED BY <4>1, <4>2
    <3>12. ASSUME NEW k \in n + 1 .. N + 1, NEW l \in k + 1 .. N + 1
           PROVE  Precedes(discovered, sorted'[k], sorted'[l])
      <4>1. k \in n + 1 .. N /\ k \in 1 .. N
        BY <3>4
      <4>2. CASE l = N + 1
        <5>1. PICK i \in 1 .. next : discovered[i] = sorted[k]
          BY <2>2, <4>1
        <5>2. sorted'[k] = discovered[i] /\ sorted'[l] = discovered[next + 1]
          BY <3>3, <4>1, <4>2, <5>1 DEF unit
        <5> QED BY <1>b, <2>1, <2>3, <5>1, <5>2 DEF Precedes
      <4>3. CASE l # N + 1
        <5>1. l \in k + 1 .. N /\ l \in 1 .. N
          BY <3>4, <4>3
        <5>2. Precedes(discovered, sorted[k], sorted[l])
          BY <2>2, <4>1, <5>1 DEF SortedTo, N
        <5> QED BY <3>3, <4>1, <5>1, <5>2
      <4> QED BY <4>2, <4>3
    <3>13. SortedTo(n, sorted', discovered, Awaited)
      BY <3>3, <3>8, <3>10, <3>11, <3>12 DEF SortedTo
    <3>14. \A k \in 1 .. n : inDegree[sorted'[k]] = 0
      <4>1. \A k \in 1 .. n : k \in 1 .. N
        BY <3>4
      <4> QED BY <2>2, <3>3, <4>1
    <3>15. ASSUME NEW k \in n + 1 .. N + 1
           PROVE  \E i \in 1 .. next' : discovered[i] = sorted'[k]
      <4>1. CASE k = N + 1
        <5>1. next + 1 \in 1 .. next'
          BY <1>b, <2>1
        <5> QED BY <3>3, <4>1, <5>1 DEF unit
      <4>2. CASE k # N + 1
        <5>1. k \in n + 1 .. N /\ k \in 1 .. N
          BY <3>4, <4>2
        <5> QED BY <2>2, <2>3, <3>3, <5>1
      <4> QED BY <4>1, <4>2
    <3>16. n \in 0 .. N + 1
      BY <3>4
    <3> QED BY <2>1, <3>3, <3>13, <3>14, <3>15, <3>16 DEF RestInOrder
  <2> QED BY <2>4, <2>5
<1>5. CASE Returned \/ UNCHANGED vars
  <2>1. UNCHANGED <<pc, next, sorted, inDegree>>
    BY <1>5 DEF Returned, vars, order, degrees
  <2>2. discovered' = discovered /\ Awaited' = Awaited
    BY <1>s, <2>1 DEF Ordered
  <2> QED BY <2>1, <2>2 DEF RestInOrder
<1>6. LoopDone => pc \in {"sort", "rest"}
  BY DEF LoopDone
<1> QED BY <1>1, <1>2, <1>3, <1>4, <1>5, <1>6 DEF Next

-----------------------------------------------------------------------------
(* The theorems.                                                           *)

OrderedInv == FoundInOrder /\ DiscoveryDone /\ EntriesInOrder /\ ReadyInOrder /\ RestInOrder

\* The invariants of the three loops, together.
THEOREM OrderedInvHolds == Spec => [](OrderInv /\ AfterInv /\ OrderedInv)
<1>1. Init => OrderedInv
  <2> SUFFICES ASSUME Init PROVE EntriesInOrder /\ ReadyInOrder /\ RestInOrder
    BY InitFound DEF OrderedInv
  <2>1. pc = "check" /\ \A d \in Programs : dependents[d] = <<>> /\ Len(<<>>) = 0
    BY DEF Init
  <2>2. \A d \in Programs : \A k \in 1 .. Len(dependents[d]) : FALSE
    BY <2>1
  <2> QED BY <2>1, <2>2 DEF EntriesInOrder, ReadyInOrder, RestInOrder
<1>2. OrderInv /\ AfterInv /\ OrderedInv /\ [Next]_vars => OrderedInv'
  BY StepFound, StepDiscoveryDone, StepEntriesInOrder, StepReadyInOrder, StepRestInOrder
     DEF OrderedInv
<1> QED BY <1>1, <1>2, AfterInvHolds, PTL DEF Spec

\* The list that was discovered is the one the configuration determines.
LEMMA DiscoveredIsDiscoveryOrder ==
  ASSUME OrderInv, DiscoveryDone, pc = "done"
  PROVE  discovered = DiscoveryOrder(after, wants, root)
<1> DEFINE Orders == SeqOf(DOMAIN after, Cardinality(DOMAIN after))
<1>1. /\ TypeOK /\ DiscoveryInv
      /\ AllLists \in [Programs -> Seq(Names)] /\ DOMAIN after = Programs
  BY AllListsTyped DEF OrderInv
<1>2. Discovers(discovered, AllLists, root)
  BY DEF DiscoveryDone, Ordered
<1>3. discovered \in Seq(Programs) /\ IsInjective(discovered)
  BY <1>1 DEF TypeOK, DiscoveryInv
<1>4. Len(discovered) <= Cardinality(Programs)
  <2>1. /\ ToSet(discovered) \subseteq Programs /\ IsFiniteSet(Programs)
        /\ Cardinality(ToSet(discovered)) = Len(discovered)
    BY <1>3, Elements, CountedOnce, ConfigAssumption
  <2> QED BY <2>1, FS_Subset
<1>5. discovered \in Orders
  <2>1. discovered \in [1 .. Len(discovered) -> Programs] /\ Len(discovered) \in Nat
    BY <1>3, LenProperties
  <2>2. Cardinality(Programs) \in Nat
    BY ConfigAssumption, FS_CardinalityType
  <2>3. Len(discovered) \in 0 .. Cardinality(Programs)
    BY <1>4, <2>1, <2>2
  <2> QED BY <1>1, <2>1, <2>3 DEF SeqOf
<1>6. \A s \in Orders : s \in Seq(Programs)
  <2> SUFFICES ASSUME NEW s \in Orders PROVE s \in Seq(Programs)
    OBVIOUS
  <2>1. PICK n \in 0 .. Cardinality(Programs) : s \in [1 .. n -> Programs]
    BY <1>1 DEF SeqOf
  <2>2. n \in Nat
    OBVIOUS
  <2> QED BY <2>1, <2>2
<1> HIDE DEF Orders
<1>7. \A s \in Orders : Discovers(s, AllLists, root) => s = discovered
  BY <1>1, <1>2, <1>3, <1>6, DiscoveryIsUnique
<1>8. DiscoveryOrder(after, wants, root) = CHOOSE s \in Orders : Discovers(s, AllLists, root)
  BY DEF DiscoveryOrder, AllLists, Orders
<1> QED BY <1>2, <1>5, <1>7, <1>8

(***************************************************************************)
(* The loops return the one order that the configuration determines: what  *)
(* is discovered is its discovery order, what is sorted resolves it, and   *)
(* no other list does.                                                     *)
(***************************************************************************)
THEOREM OrderIsResolved == Spec => []LoopsReturnResolvedOrder
<1>1. OrderInv /\ AfterInv /\ OrderedInv => LoopsReturnResolvedOrder
  <2> SUFFICES ASSUME OrderInv, OrderedInv, pc = "done"
               PROVE  sorted = ResolvedOrder(after, wants, root)
    BY DEF LoopsReturnResolvedOrder
  <2> DEFINE Orders == [DOMAIN discovered -> ToSet(discovered)]
  <2>1. /\ sorted \in Seq(Programs) /\ discovered \in Seq(Programs)
        /\ IsInjective(sorted) /\ IsInjective(discovered)
        /\ ToSet(sorted) = ToSet(discovered)
    BY DEF OrderInv, TypeOK, SortedOnce, DiscoveryInv
  <2>2. /\ DOMAIN sorted = 1 .. Len(sorted) /\ DOMAIN discovered = 1 .. Len(discovered)
        /\ Len(sorted) = Cardinality(ToSet(sorted))
        /\ Len(discovered) = Cardinality(ToSet(discovered))
        /\ ToSet(discovered) \subseteq Programs /\ Len(discovered) \in Nat
        /\ ToSet(sorted) = {sorted[i] : i \in 1 .. Len(sorted)}
    BY <2>1, Elements, CountedOnce
  <2>3. sorted \in Orders
    <3>1. sorted \in [1 .. Len(sorted) -> Programs]
      BY <2>1, LenProperties
    <3> QED BY <2>1, <2>2, <3>1
  <2>4. Resolves(sorted, discovered, Awaited)
    BY <2>1 DEF OrderedInv, RestInOrder, Resolves
  <2>5. \A s \in Orders : s \in Seq(Programs)
    <3> DEFINE n == Len(discovered)
    <3>1. Orders = [1 .. n -> ToSet(discovered)] /\ n \in Nat
      BY <2>2
    <3> HIDE DEF Orders, n
    <3>2. \A s \in Orders : s \in [1 .. n -> Programs]
      BY <2>2, <3>1
    <3> QED BY <3>1, <3>2
  <2> HIDE DEF Orders
  <2>6. \A s \in Orders : Resolves(s, discovered, Awaited) => s = sorted
    BY <2>1, <2>4, <2>5, SortIsUnique
  <2>7. discovered = DiscoveryOrder(after, wants, root)
    BY DiscoveredIsDiscoveryOrder DEF OrderedInv
  <2>8. ResolvedOrder(after, wants, root) =
          CHOOSE s \in Orders : Resolves(s, discovered, Awaited)
    BY <2>7 DEF ResolvedOrder, Orders, Awaited
  <2> QED BY <2>3, <2>4, <2>6, <2>8
<1> QED BY <1>1, OrderedInvHolds, PTL

=============================================================================
