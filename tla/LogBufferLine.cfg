CONSTANTS
  DEFALT_CACHE_SIZE = 7
  DEFAULT_PARAM_CACHE_SIZE = 3
  Prefixes = {1, 2}
  Lengths = {1, 2}
  Formats <- ShortFormats
  MallocMayFail = FALSE
  MaxPieces = 1
  MaxBuffer = 9
SPECIFICATION Spec
INVARIANT WrittenIsLine
