SPECIFICATION Spec
CONSTANTS
  i1 = i1  i2 = i2  i3 = i3  m1 = m1
  NoId = NoId  NoKey = NoKey
  Ids = {i1, i2}
  Keys <- OneMachine
  Machines <- OneMachine
  Installed <- OneInstalled
  Merged <- NoneMerged
  Budgets = {}
  Legacy = {i1}
  SameServer <- AllPairs
  MaxOps = 1
  MaxFaults = 0
  MaxCrashes = 1
  MaxLost = 0
  MaxMerges = 1
  MaxSetbacks = 0
  MaxWipes = 1
CHECK_DEADLOCK FALSE
PROPERTIES ArchivedStaysHidden
