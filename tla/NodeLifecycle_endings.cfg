SPECIFICATION FairSpec
ACTION_CONSTRAINT StaysAffordable
CONSTANTS
  i1 = i1  i2 = i2  i3 = i3  m1 = m1
  NoId = NoId  NoKey = NoKey
  Ids = {i1, i2, i3}
  Keys <- OneMachine
  Machines <- OneMachine
  Installed <- OneInstalled
  Merged <- NoneMerged
  Budgets <- LivenessBudgets
  Legacy = {}
  SameServer <- AllPairs
  MaxOps = 1
  MaxFaults = 1
  MaxCrashes = 1
  MaxLost = 1
  MaxMerges = 0
  MaxSetbacks = 0
  MaxWipes = 1
CHECK_DEADLOCK FALSE
PROPERTIES AgentReturns UninstallEnds
