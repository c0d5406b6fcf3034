SPECIFICATION Spec
CONSTANTS
  Paths <- NestedPaths
  Illegal <- Upward
  Sizes = {2, 3}
  Entries = 3
  PayloadBytes = 2
  ArchiveBytes = 6
  MaxLength = 3
  MaxFaults = 2
INVARIANTS InputIsRestored OutputIsPublished
