SPECIFICATION ChanSpec
CONSTANTS
  NTasks = 4
  NWorkers = 2
  WorkerCap = 1
  GlobalCap = 4
  MaxSpawns = 1
  CopyHandles = FALSE
  NChans = 2
  ChanCap = 2
  WaitCap = 2
  Values = {v}
INVARIANTS
  ReadyQueuesExact
  NoOverflow
  NoLostRecvWakeup
  NoLostSendWakeup
  BlockedIffWaiting
  DeadlockIsReal
