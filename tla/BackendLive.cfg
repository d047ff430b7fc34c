CONSTANTS
  t1 = t1
  t2 = t2
  Threads <- TwoThreads
  MayFail <- TwoThreads
  LateLoggers <- NoThread
  Capacity = 1
  MaxEntries = 2
  MaxSetLogFile = 1
  OpenMayFail = FALSE
SPECIFICATION FairSpec
PROPERTY RegisteredIsWritten
PROPERTY SetLogFileReturns
PROPERTY DestructorReturns
