SPECIFICATION Spec
CONSTANTS
  Junk = Junk
  Capacity = 3
  FileSize = 6
  PutLimit = 0
CHECK_DEADLOCK FALSE
INVARIANTS ReadMatchesFile
