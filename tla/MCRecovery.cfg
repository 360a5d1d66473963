CONSTANTS
  a = a
  b = b
  i1 = i1
  i2 = i2
  i3 = i3
  NoProg = NoProg
  NoPid = NoPid
  Programs <- MCPrograms
  Autostart <- MCAutostart
  Restart <- BlindRestart
  StartOrder <- MCStartOrder
  After <- MCAfterSets
  Pids <- TwoPids
  MayFail = {}
  Statuses = {"ok"}
  Requests = {"start", "stop", "restart", "shutdown"}
  MaxEvents = 2
  MaxTimers = 1
  MaxLives = 2
SPECIFICATION RecoverySpec
SYMMETRY PidSymmetry
INVARIANTS
  RecoveryTypeOK
  NoLostExit
  StopHitsItsProgram
  RestartNotPreempted
  StartReplyTruthful
  OneInstancePerLife
  OneMonitorPerProgram
PROPERTIES SurvivorsAreLeftAlone
