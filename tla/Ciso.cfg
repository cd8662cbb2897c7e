SPECIFICATION FairSpec
CONSTANTS
  MaxSectors = 6
  StoredLens <- MCStoredLens
  SectorSize = 8
  HeaderSize = 2
  AlignMult = 2
  EntrySize = 4
  SplitPoint = 32
  PaddingModulus = 4
  BatchSectors = 2
  ChunkLimits <- MCChunkLimits
  WordValues = 64
INVARIANTS
  SessionSound
  ReaderFindsSectors
PROPERTIES
  ImplementsPartStream
