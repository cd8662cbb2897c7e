SPECIFICATION FairSpec
CONSTANTS
  MaxSectors = 27
  BlockSectors = 2
  BlocksPerSubpart = 3
  SubpartsPerPart = 2
  HeaderSize = 5
  MaxFailures = 3
  SectorBytes = 3
INVARIANTS
  PackageSound
  ReaderFindsEverySector
PROPERTIES
  ImplementsPartStream
