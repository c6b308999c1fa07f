SPECIFICATION Spec
CHECK_DEADLOCK FALSE
CONSTANTS
  imageA = imageA
  imageB = imageB
  Paths <- TwoPaths
  HoldTicks = 2
  NChunks = 2
  Preempt = TRUE
INVARIANT TypeOK
INVARIANT FoundAcceptsOk
INVARIANT DoneIsComplete
INVARIANT JoinIsShort
INVARIANT FreedAlone
PROPERTY CancelSticks
PROPERTY WriteIsDecided
PROPERTY NewRequestStops
PROPERTY HoldFires
PROPERTY JoinReturns
PROPERTY ScreenSettles
