SPECIFICATION Spec
CONSTANTS
  FS_MAX_ENTRIES = 2
  DataSectors = 2
  MaxFileSectors = 1
  Names = {n1, n2}
  PerSector = 1
  Content = {c1}
  ReadErrors = TRUE
INVARIANTS
  OnlyBadDisksFormatted
