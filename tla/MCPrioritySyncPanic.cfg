CONSTANTS
  t1 = t1
  t2 = t2
  t3 = t3
  Threads <- MCThreads
  Locks <- MCLocks
  InitPri <- MCInitPri
  Priorities <- MCPriorities
  Idle = Idle
  NoThread = NoThread
  NoLock = NoLock
  Budget = 2
  MAX_DEPTH = 8
  Preemptive = TRUE
  WithTryAcquire = FALSE
  WithCond = FALSE
  CondLock = 2
SPECIFICATION Spec
INVARIANT NoKernelPanic
