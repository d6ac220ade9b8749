CONSTANTS
  p1 = p1
  p2 = p2
  k1 = k1
  k2 = k2
  v1 = v1
  h1 = h1
  h2 = h2
  Nil = Nil
  NoKey = NoKey
  NoProc = NoProc
  Procs <- TwoProcs
  Keys <- TwoKeys
  Vals <- OneVal
  Holders <- TwoHolders
  MaxCap = 8
  expectedCapacity = 4
  FutureItems = 1
  MaxKills = 1
  MaxOps = 5
  MaxWaits = 1
SPECIFICATION Spec
SYMMETRY Symmetry
INVARIANT InSyncReadsFile
