\* Every "after" graph of three programs (lists of at most two names, cycles,
\* self-references and repeated entries included), with "wants" edges.
CONSTANTS
  a = a
  b = b
  c = c
  ghost = ghost
  MaxAfter = 2
  Programs <- MCPrograms
  Names <- MCNames
  Roots <- MCRoots
  AfterChoices <- MCAfter
  WantsChoices <- MCWants
SPECIFICATION Spec
INVARIANTS
  TypeOK
  OrderIsThePermutedClosure
  AfterIsRespectedOffCycles
  DegreesNeverUnderflow
  LoopsReturnResolvedOrder
PROPERTIES
  CallReturns
