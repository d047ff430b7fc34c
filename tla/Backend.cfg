CONSTANTS
  t1 = t1
  t2 = t2
  Threads <- TwoThreads
  MayFail <- TwoThreads
  LateLoggers <- NoThread
  Capacity = 2
  MaxEntries = 2
  MaxSetLogFile = 2
  OpenMayFail = TRUE
SPECIFICATION Spec
INVARIANT TypeOK
INVARIANT EachEntryOnce
INVARIANT RegistryIsExact
INVARIANT NoUseAfterFree
INVARIANT EarliestOfRound
INVARIANT DestructorFlushes
PROPERTY BuffersAreStreams
