SPECIFICATION Spec
CONSTANTS
  cp0 = cp0
  unimpl = unimpl
  d = d
  NBlocks = 6
  RowBlocks = 2
  ChunkBlocks = 3
  BootBlock = 4
  Bits <- MCBits
  CP0 = cp0
  Unimpl <- MCUnimpl
  EnterTries = 6
  EraseTries = 4
  BlockTries = 5
  Images <- FewImages
  Factory <- MCFactory
  FaultKinds = {"erase", "program"}
  MaxFaults = 3
INVARIANT HealedWrite
PROPERTY Terminates
