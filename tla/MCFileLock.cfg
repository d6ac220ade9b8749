CONSTANTS
  p1 = p1
  p2 = p2
  p3 = p3
  Procs <- TwoProcs
  MaxNest = 3
  MaxCalls = 3
  MaxErr = 2
SPECIFICATION FairSpec
INVARIANTS TypeOK MutualExclusion CountersMatchKernel
PROPERTIES SharedKept ImplementsRWLock CallsReturn
CHECK_DEADLOCK FALSE
