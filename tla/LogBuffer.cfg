CONSTANTS
  DEFALT_CACHE_SIZE = 7
  DEFAULT_PARAM_CACHE_SIZE = 3
  Prefixes = {1, 2}
  Lengths = {0, 1, 2, 4}
  Formats <- ShortFormats
  MallocMayFail = TRUE
  MaxPieces = 3
  MaxBuffer = 9
SPECIFICATION Spec
INVARIANT TypeOK
INVARIANT AccountingHolds
INVARIANT LengthIsAllocated
INVARIANT GrowsOnce
INVARIANT OnlyLongLinesFail
INVARIANT WrittenBeginsWithText
