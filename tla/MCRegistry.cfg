CONSTANTS
  i1 = i1
  i2 = i2
  u1 = u1
  u2 = u2
  e1 = e1
  e2 = e2
  e3 = e3
  c1 = c1
  c2 = c2
  c3 = c3
  Handler = Handler
  None = None
  Ids <- TwoIds
  Users <- TwoUsers
  Engines <- TwoEngines
  Cores <- TwoCores
  MaxIdle = 1
SPECIFICATION Spec
SYMMETRY Symmetry
INVARIANTS TypeOK OneCorePerFile OnlySharedCoresDangle CleanUpIsAlone FastOnlyWithWork DeadlocksLeaveLockOrder
CHECK_DEADLOCK FALSE
