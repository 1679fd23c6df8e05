SPECIFICATION Spec
CONSTANTS
  MaxPid = 4
  SemKeys = {k1}
  SemInits = {1}
  MaxCount = 1
  ExitCodes = {7}
  KillableStates = {"None", "Running", "Ready", "Blocked", "Dead"}
  DropBusySem = TRUE
  NoExit = NoExit
  NoSem = NoSem
  SysNr = SysNr
INVARIANT TypeOK
INVARIANT CpuHeldByOne
INVARIANT ReadyIsQueued
INVARIANT KernelIsRunnable
INVARIANT WaitsInOnePlace
INVARIANT NoMissedExit
INVARIANT NoIdleUnits
PROPERTY ExitReachesWaiters
