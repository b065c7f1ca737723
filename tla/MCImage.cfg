SPECIFICATION Spec
CONSTANTS
  t1 = t1
  t2 = t2
  Threads = {t1, t2}
  Bases = {10, 20}
  SizeLimit = 3
  DepthLimit = 2
  None = None
SYMMETRY ThreadSymmetry
CHECK_DEADLOCK FALSE
INVARIANTS PointersFollow LockedRefsLive LockedBuildsLand
 
