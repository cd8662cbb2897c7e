SPECIFICATION SmallSpec
CONSTANTS
  DiscSizes = {6, 7, 9}
  Roots <- MCRoots
  Entries <- MCEntries
  MaxEntries = 2
  MaxMarks = 2
  RootOffsets = {0, 2}
  SectorSize = 2
  VolumeDescriptor = 1
  RedumpTotal = 9
  RedumpVideo = 2
  SecurityScanEnd = 5
  SecurityRunLen = 2
  SplitSectors = 3
  ChunkSectors = {0, 4}
  ChunkLimits = {1, 5, 64}
  MaxRebuilt = 7
  MaxFailures = 2
INVARIANTS
  PlanSound
  SectorsLandInPlace
PROPERTIES
  ImplementsPartStream
