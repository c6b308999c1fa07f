SPECIFICATION Spec
CONSTANTS
  RxSize = 3
  ChunkMax = 2
  LineCap = 2
  NBauds = 3
  MaxBytes = 7
INVARIANT TypeOK
INVARIANT StreamOutlives
INVARIANT LogIsFaithful
PROPERTY CloseReturns
PROPERTY PartialShows
