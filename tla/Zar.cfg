SPECIFICATION ZarSpec
CONSTANTS
  Fold <- MCFold
  Rank <- MCRank
  Encoded <- MCEncoded
  EncodedLen <- MCEncodedLen
  LongName = 2
  Word = 4
  Half = 4
  Listings <- MCListings
  BlockBytes = 3
  EntriesPerRecord = 2
  RecordSize = 4
  FooterSize = 5
  StoredLengths = {1, 3}
  Alignment = 4
  EntrySize = 2
  ChunkLimits = {5, 90}
  MaxThrows = 2
  ReadOffsets = {0, 4}
  ReadLengths = {1, 4}
INVARIANTS
  ArchiveSound
  DirectoryRoundTrips
PROPERTIES
  ImplementsFileStore
  EventuallyDone
