SPECIFICATION FairSpec
CONSTANTS
  MaxPid = 3
  SemKeys = {k1, k2}
  SemInits = {0, 1}
  MaxCount = 1
  ExitCodes = {7}
  KillableStates = {"None", "Running", "Ready"}
  DropBusySem = FALSE
  NoExit = NoExit
  NoSem = NoSem
  SysNr = SysNr
INVARIANT NoPanic
INVARIANT BlockedIsWaiting
PROPERTY LifeImplemented
PROPERTY ReadyRuns
PROPERTY ShutdownFollows
