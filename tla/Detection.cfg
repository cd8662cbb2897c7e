SPECIFICATION DetectionSpec
CONSTANTS
  SectorSize = 2
  DescriptorEnd = 2
  RootOffset <- MCRootOffset
  Discs <- MCDiscs
  ExtensionOf <- MCExtensionOf
  MaxSplitFragments = 3
  Batches <- MCBatches
  NameRank <- MCRank
  MaxSteps = 200
  MaxOrderings = 30
  MaxPermutedHeaders = 2
  MaxLost = 1
  Size = 11
  BlockSize = 2
  MaxResidentBlocks = 3
  PrefetchBlocks = 2
  StreakThreshold = 2
  SeqWindow = 3
  Lengths <- MCLengths
  MaxTouches = 4
  MaxStreak = 2
INVARIANTS
  SubsetsMatchReference
  AccountedForOnce
  SplitsAreGenuine
  GenuineSplitsAreFound
  GodFoldersOpenInPlace
  CacheSound
PROPERTIES
  FetchesRespectCap
  HotBlocksStay
