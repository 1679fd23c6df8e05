SPECIFICATION Spec
CONSTANTS
  MaxPid = 3
  SemKeys = {k1}
  SemInits = {1}
  MaxCount = 1
  ExitCodes = {7}
  KillableStates = {"None", "Running", "Ready", "Blocked", "Dead"}
  DropBusySem = FALSE
  NoExit = NoExit
  NoSem = NoSem
  SysNr = SysNr
INVARIANT NoPanic
