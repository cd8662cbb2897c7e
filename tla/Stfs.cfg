SPECIFICATION FairSpec
CONSTANTS
  EntriesPerTable = 3
  EntriesPerBlock = 2
  BlockSize = 2
  SexShift = 1
  DefaultHeader = 1
  InstallerHeader = 2
  Names <- MCNames
  StoredName <- MCStoredName
  SafeNames <- MCSafeNames
  Listings <- MCListings
  MaxFailures = 2
  ReadOffsets = {0, 1, 2, 4, 15, 18, 30, 52}
  ReadLengths = {0, 1, 5}
INVARIANTS
  PackageSound
  ContentRoundTrips
  ShortExactlyIfThrown
PROPERTIES
  ImplementsPartStream
