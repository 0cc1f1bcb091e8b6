SPECIFICATION Spec
CONSTANTS
  FS_MAX_ENTRIES = 4
  DataSectors = 2
  MaxFileSectors = 1
  Names = {"a", "b"}
  MaxDepth = 2
  Texts = {"x"}
  Editors = {e1}
  Paths <- MCPaths
  Starts <- MCStarts
INVARIANTS
  FilesWellFormed
  CopyFaithful
  ListingFresh
  CleanMeansSaved
PROPERTIES
  AskedOnly
