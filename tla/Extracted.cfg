SPECIFICATION Spec
CONSTANTS
  SectorSize = 2
  DescriptorEnd = 1
  RootOffset <- MCRootOffset
  Loose <- MCLoose
  Packages <- MCPackages
  Lower <- MCLower
  Images <- MCImages
  ChunkLimits = {1, 2, 5}
  UpdateNames = {"$SYSTEMUPDATE"}
  XbeNames = {"default.xbe", "Default.xbe", "mydefault.xbe"}
  NoXbe = {"mydefault.xbe"}
  Paths <- MCPaths
  Ranges <- MCRanges
  MaxFailures = 2
INVARIANTS
  SessionSound
  TreesAreWhole
PROPERTIES
  ImplementsPartStream
  ImplementsFileStore
CHECK_DEADLOCK FALSE
