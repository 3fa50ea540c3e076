SPECIFICATION Spec
ACTION_CONSTRAINT StaysAffordable
CONSTANTS
  i1 = i1  i2 = i2  i3 = i3  m1 = m1
  NoId = NoId  NoKey = NoKey
  Ids = {i1, i2, i3}
  Keys <- OneMachine
  Machines <- OneMachine
  Installed <- OneInstalled
  Merged <- OneMerged
  Legacy = {i1}
  SameServer <- AllPairs
  Budgets <- SafetyBudgets
  MaxOps = 1
  MaxFaults = 1
  MaxCrashes = 1
  MaxLost = 1
  MaxMerges = 1
  MaxSetbacks = 1
  MaxWipes = 1
CHECK_DEADLOCK FALSE
INVARIANTS TypeOK RevokedNotStored AckedSaved DeletedStaysDeleted
INVARIANTS CanStartAgain  AliasesSound
PROPERTIES RevokedForever RemovedStaysOut FailedIsFinal RevokedSilent
PROPERTIES ForgottenForAReason CleaningIsOnRecord SavedIdentityUsable MergesLast
