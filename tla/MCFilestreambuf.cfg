SPECIFICATION MCSpec
CONSTANTS
  Junk = Junk
  Capacity = 3
  FileSize = 5
  PutLimit = 6
CHECK_DEADLOCK FALSE
INVARIANTS TypeOK ReadsInOrder RangesRightUntilFull AtMostOneKeptBack WritesInOrder OnlyPutsFill
