SPECIFICATION Spec
CONSTANTS
  SectorSize = 2
  DescriptorEnd = 2
  RootOffset <- MCRootOffset
  Discs <- MCDiscs
  ExtensionOf <- MCExtensionOf
  MaxSplitFragments = 3
  Batches <- MCBatches
  NameRank <- MCRank
  MaxSteps = 200
  MaxOrderings = 30
  MaxPermutedHeaders = 2
  MaxLost = 1
INVARIANT ClaimedInstancesAreRemoved
