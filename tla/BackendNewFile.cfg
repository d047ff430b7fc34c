CONSTANTS
  t1 = t1
  t2 = t2
  Threads <- FirstThread
  MayFail <- NoThread
  LateLoggers <- NoThread
  Capacity = 1
  MaxEntries = 1
  MaxSetLogFile = 1
  OpenMayFail = FALSE
SPECIFICATION FairSpec
PROPERTY LogsReachPromisedFile
