SPECIFICATION Spec
CONSTANTS
  t0 = t0
  t1 = t1
  t2 = t2
  numProcs = 3
  owner = 0
  Task <- MCTask
  procOf <- MCprocOf
  Component <- MCComponent
  MaxAttach <- MCMaxAttach
  None = None
INVARIANTS Inv DetachedClean RegionZeroThere
PROPERTIES ConnectionComplete StartEnds
CHECK_DEADLOCK FALSE
