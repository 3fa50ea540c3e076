SPECIFICATION Spec
CONSTANTS
  i1 = i1  i2 = i2  i3 = i3  m1 = m1
  NoId = NoId  NoKey = NoKey
  Ids = {i1, i2, i3}
  Keys <- OneMachine
  Machines <- OneMachine
  Installed <- OneInstalled
  Merged <- OneMerged
  Budgets = {}
  Legacy = {}
  SameServer <- AllPairs
  MaxOps = 0
  MaxFaults = 1
  MaxCrashes = 0
  MaxLost = 0
  MaxMerges = 0
  MaxSetbacks = 0
  MaxWipes = 1
CHECK_DEADLOCK FALSE
PROPERTIES NewIdentityUsable
