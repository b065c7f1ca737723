SPECIFICATION MCFairGracefulSpec
CONSTANTS
  Pushers = {main}
  Poppers = {w1, w2}
  Messages = {a, b, stop}
  Raw = Raw
  Moved = Moved
  MovedFrom <- MCMovedFrom
  None = None
  NodeSize = 2
  Owner = main
  Terminate = stop
  TaskLimit = 3
  ReceiveLimit = 8
  TaskOutcomes = {"zero"}
  StopOutcomes = {"nonzero"}
  Outcomes <- MCOutcomes
CHECK_DEADLOCK FALSE
INVARIANTS PoolTypeOK Fifo NothingLost AtMostOneMissed NoneLeftBehind Drained
PROPERTIES ImplementsFifo AllButLastTaken ShutdownEndsOrStrands
