SPECIFICATION Spec
CONSTANTS
  FS_MAX_ENTRIES = 3
  DataSectors = 3
  MaxFileSectors = 2
  Names = {n1, n2}
  PerSector = 2
  Content = {c1, c2}
  ReadErrors = FALSE
INVARIANTS
  TablesWellFormed
  Rooted
  Durable
SYMMETRY Interchangeable
