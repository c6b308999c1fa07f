SPECIFICATION AppSpec
CHECK_DEADLOCK FALSE
CONSTANTS
  imageA = imageA
  Paths <- OnePath
  HoldTicks = 2
  NChunks = 1
  Preempt = FALSE
INVARIANT AppTypeOK
INVARIANT SessionsApart
INVARIANT QuietReleased
PROPERTY WriteNeedsHold
PROPERTY PromptLeavesTarget
PROPERTY BadgeSettles
