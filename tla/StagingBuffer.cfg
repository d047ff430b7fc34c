CONSTANTS
  kSTAGING_BUFFER_SIZE = 6
  Sizes = {1, 2, 3, 5, 6}
  MaxEntries = 5
SPECIFICATION FairSpec
INVARIANT TypeOK
INVARIANT ReservationIsFree
INVARIANT EqualMeansEmpty
INVARIANT MinFreeIsLowerBound
INVARIANT PeekedEntryIsWhole
INVARIANT DeletedOnlyWhenDrained
PROPERTY EndMarkIsStable
PROPERTY ImplementsStream
PROPERTY ReservationIsGranted
PROPERTY PublishedIsConsumed
PROPERTY EndedIsDeleted
