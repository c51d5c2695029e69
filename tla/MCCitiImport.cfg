\* One file id: files do not touch one another.
SPECIFICATION Spec
CONSTANTS
  None = None
  Statements <- MCStatements
  Sizes = {1, 2, 3}
  FileIds = {f1}
  Short = 4
  Long = 9
  MaxBlocks = 5
INVARIANTS
  BlocksAreAccounted
  ArchiveIsPartition
PROPERTY
  ParsesEnd
