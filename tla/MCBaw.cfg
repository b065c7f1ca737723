SPECIFICATION MCBawFairSpec
CONSTANTS
  Pushers = {main_thread}
  Poppers = {w1, w2}
  Messages <- MCMessages
  Raw = Raw
  Moved = Moved
  MovedFrom <- MCMovedFrom
  None = None
  NodeSize = 2
  Owner = main_thread
  Terminate = stop
  Outcomes <- NodeOutcomes
  Inputs <- MCInputs
  ReceiveLimit = 6
CHECK_DEADLOCK FALSE
INVARIANTS AllCallsQueued PopExclusive
PROPERTIES EveryCallVisited
