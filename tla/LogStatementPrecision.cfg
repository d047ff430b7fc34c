CONSTANTS
  t1 = t1
  t2 = t2
  Threads <- TwoThreads
  Sites <- AllSites
  Format <- AllFormats
  Severity <- AllSeverities
  Uses <- OnlyText
  Lengths <- SomeLengths
  Precisions <- SomePrecisions
  LevelArgs <- OutOfRange
  MaxEntries = 1
SPECIFICATION Spec
INVARIANT TruncatedByPrecision
