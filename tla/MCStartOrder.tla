---------------------------- MODULE MCStartOrder ----------------------------
(***************************************************************************)
(* Instance of StartOrder for TLC: three configured programs and one name  *)
(* no program has.  By symmetry one configured root stands for all three.  *)
(***************************************************************************)
EXTENDS StartOrder

CONSTANTS
  a, b, c, ghost,
  MaxAfter   \* longest "after" list of distinct names

MCPrograms == {a, b, c}
MCNames == {a, b, c, ghost}
MCRoots == {a, ghost}

\* Lists of at most n distinct names, and each name listed twice.
NameLists(S, n) ==
  {s \in SeqOf(S, n) : IsInjective(s)} \cup {<<x, x>> : x \in S}

\* The root's list may also mention the unknown name.
MCAfter ==
  {f \in [MCPrograms -> NameLists(MCNames, MaxAfter)] :
     \A p \in {b, c} : ghost \notin ToSet(f[p])}

\* At most one wanted name, for the root, where it may be unknown, and for b.
MCWants ==
  {f \in [MCPrograms -> SeqOf(MCNames, 1)] :
     f[b] \in SeqOf({a, c}, 1) /\ f[c] = <<>>}

=============================================================================
