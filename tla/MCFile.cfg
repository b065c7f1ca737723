SPECIFICATION Spec
CONSTANTS
  out1 = out1
  out2 = out2
  in = in
  Writers = {out1, out2}
  Readers = {in}
  WriteFds = {3, 5}
  ReadFds = {4}
  Capacity = 2
  Modes = {"blocking", "nonblocking", "timeout"}
  ByteLimit = 2
  Delimiters = {2}
  RepeatLimit = 2
CHECK_DEADLOCK FALSE
INVARIANTS TransfersExact OneOwner SelectSeesAll
PROPERTIES ShortReadAtEnd 
