SPECIFICATION FairSpec
CONSTANTS
  MaxSectors = 5
  Lz4Lens <- MCLz4Lens
  SectorSize = 16
  HeaderSize = 8
  AlignMult = 4
  EntrySize = 4
  IndexLimit = 10
  SplitPoint = 20
  BatchSectors = 2
  ChunkLimits <- MCChunkLimits
INVARIANTS
  TypeOK
  PartsPartitionImage
  EveryPartReadable
  IndexFindsEverySector
  PartsStayBounded
  ReaderReadsImage
PROPERTIES
  ImplementsPartStream
  EventuallyDone
