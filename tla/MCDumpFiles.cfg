SPECIFICATION Spec
CONSTANTS
  RecBytes = 4
  PageBytes = 8
  BlockBytes = 8
  LenBytes = 2
  CodeStart = 0
  CodeBytes = 22
  RamStart = 4
  RamBytes = 13
  ChunkBytes = 9
  PollBytes = 5
  HashChunk = 6
  MaxWrites = 16
INVARIANT TypeOK
INVARIANT HexIsTrue
INVARIANT DoneIsSaved
INVARIANT HashIsOfTheFile
