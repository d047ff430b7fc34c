CONSTANTS
  t1 = t1
  t2 = t2
  Threads <- TwoThreads
  Sites <- AllSites
  Format <- AllFormats
  Severity <- AllSeverities
  Uses <- OwnStrings
  Lengths <- SomeLengths
  Precisions <- SomePrecisions
  LevelArgs <- OutOfRange
  MaxEntries = 2
SPECIFICATION Spec
INVARIANT TypeOK
INVARIANT StoreFillsReservation
INVARIANT StoresOwnStrings
INVARIANT DecoderStaysAligned
