SPECIFICATION Spec
CHECK_DEADLOCK FALSE
CONSTANTS
  imageA = imageA
  imageB = imageB
  Paths <- TwoPaths
  HoldTicks = 2
  NChunks = 2
  Preempt = FALSE
PROPERTY FlashDumpGated
