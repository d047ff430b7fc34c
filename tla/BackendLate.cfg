CONSTANTS
  t1 = t1
  t2 = t2
  Threads <- FirstThread
  MayFail <- NoThread
  LateLoggers <- FirstThread
  Capacity = 1
  MaxEntries = 2
  MaxSetLogFile = 0
  OpenMayFail = FALSE
SPECIFICATION Spec
INVARIANT NoUseAfterFree
