SPECIFICATION MCConsoleSpec
CONSTANTS
  Pushers = {main_thread, worker}
  Poppers = {console_thread}
  Messages <- MCMessages
  Raw = Raw
  Moved = Moved
  MovedFrom <- MCMovedFrom
  None = None
  NodeSize = 2
  Owner = main_thread
  Terminate = stop
  Outcomes <- ConsoleOutcomes
  LineLimit = 1
  ReceiveLimit = 8
CHECK_DEADLOCK FALSE
INVARIANT LinesWhole
