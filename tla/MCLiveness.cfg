CONSTANTS
  a = a
  b = b
  i1 = i1
  i2 = i2
  i3 = i3
  NoProg = NoProg
  NoPid = NoPid
  Programs <- Solo
  Autostart <- Solo
  Restart <- SoloRestart
  StartOrder <- SoloStartOrder
  After <- SoloAfter
  Pids <- TwoPids
  MayFail = {}
  Statuses = {"ok", "err"}
  Requests = {"start", "stop", "restart", "shutdown"}
  MaxEvents = 2
  MaxTimers = 2
SPECIFICATION FairSpec
PROPERTIES
  ExitNoticed
  CrashIsRepaired
  ShutdownCompletes
