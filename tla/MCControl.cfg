CONSTANTS
  a = a
  b = b
  c1 = c1
  c2 = c2
  Loop = Loop
  Unknown = Unknown
  Programs <- MCPrograms
  Clients <- MCClients
  Calls <- MCCalls
  Brings <- MCBrings
  MayFail = {b}
  Restarts = {a}
  Forwarded = {a}
SPECIFICATION FairSpec
INVARIANTS
  TypeOK
  WritesAlone
PROPERTIES
  ImplementsAtomicManager
  EveryCommandIsAnswered
  ExitsAreHandled
