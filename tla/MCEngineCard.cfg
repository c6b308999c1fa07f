SPECIFICATION Spec
CONSTANTS
  cp0 = cp0
  unimpl = unimpl
  d = d
  NBlocks = 6
  RowBlocks = 2
  ChunkBlocks = 3
  BootBlock = 4
  Bits <- MCBits
  CP0 = cp0
  Unimpl <- MCUnimpl
  EnterTries = 6
  EraseTries = 4
  BlockTries = 5
  Images <- CardImages
  Factory <- MCFactory
  FaultKinds = {"open", "read", "short"}
  MaxFaults = 2
INVARIANT WrittenOrBlank
