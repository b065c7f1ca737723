SPECIFICATION Spec
CONSTANTS
  p1 = p1
  p2 = p2
  Processes = {p1, p2}
  Numbers <- MCNumbers
  OtherWords = {"w"}
  OtherSwitches = {"-x"}
  DefaultPath = "baw_state.bin"
  ArgLimit = 3
  Starts <- MCStarts
  Contents = {"absent", "empty", "short", "header", "nodes", "foreign"}
CHECK_DEADLOCK FALSE
INVARIANTS RejectsOnlyBroken EndedMeansSaved ParseMatchesUsage
PROPERTIES WholeFilesKept
