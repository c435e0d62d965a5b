\* The worker ring of 2 is smaller than the 3 tasks beside main, so that
\* tasks overflow into the global ring.
SPECIFICATION Spec
CONSTANTS
  NTasks = 4
  NWorkers = 2
  WorkerCap = 2
  GlobalCap = 4
  MaxSpawns = 2
  CopyHandles = FALSE
INVARIANTS
  TypeOK
  OneRunning
  ReadyQueuesExact
  
PROPERTIES
  ReadyRuns
  JoinReturns
