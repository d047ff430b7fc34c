CONSTANTS
  Texts <- SomeTexts
  Flags <- SomeFlags
  Widths <- SomeWidths
  Precisions <- SomePrecisions
  Lengths <- SomeLengths
  Terminals <- SomeTerminals
  MaxPieces = 2
SPECIFICATION Spec
CHECK_DEADLOCK FALSE
INVARIANT FindsItsParams
INVARIANT RejectsUnsupported
INVARIANT SplitsAlike
