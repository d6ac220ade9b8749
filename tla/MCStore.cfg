CONSTANTS
  k1 = k1
  k2 = k2
  v1 = v1
  h1 = h1
  h2 = h2
  Nil = Nil
  NoKey = NoKey
  Keys <- TwoKeys
  Vals <- OneVal
  Holders <- TwoHolders
  MaxCap = 8
  expectedCapacity = 4
  FutureItems = 1
  Strategies = {"discard", "recover"}
  CompareBeforeSet = FALSE
  MisreadAt = {2, 4}
SPECIFICATION Spec
SYMMETRY Symmetry
INVARIANTS TypeOK DurableWhenIdle ReadsCurrent MoveKeepsRecords PutFits KillIsAtomic AppendIsSafe
PROPERTIES SecondEnsureIsIdle WorkShrinks
