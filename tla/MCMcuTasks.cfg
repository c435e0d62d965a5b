SPECIFICATION McuSpec
CONSTANTS
  NTasks = 3
  WorkerCap = 2
  GlobalCap = 3
INVARIANT
  FirstSwitchEntersTrampoline
