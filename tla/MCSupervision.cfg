CONSTANTS
  a = a
  b = b
  i1 = i1
  i2 = i2
  i3 = i3
  NoProg = NoProg
  NoPid = NoPid
  Programs <- MCPrograms
  Autostart <- MCAutostart
  Restart <- MCRestart
  StartOrder <- MCStartOrder
  After <- MCAfterSets
  Pids <- TwoPids
  MayFail = {b}
  Statuses = {"ok", "err"}
  Requests = {"start"}
  MaxEvents = 2
  MaxTimers = 2
SPECIFICATION FairSpec
INVARIANTS OneInstance
PROPERTIES
  DependenciesUpFirst
  ImplementsLifecycle
  ImplementsFairLifecycle
