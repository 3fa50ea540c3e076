SPECIFICATION FairSpec
CONSTANTS
  n1 = n1  n2 = n2  u1 = u1  u2 = u2
  Central = central
  Nodes = {n1, n2, central}
  Users = {u1}
  Retained = 2
  Capacity = 1
  NodeLimit = 2
  MaxEpochs <- OneEpochEach
  MaxSamples <- OneSampleEach
  MaxLost = 0
  MaxRepeats = 0
  MaxRestarts = 1
  MaxLeft = 1
CHECK_DEADLOCK FALSE
INVARIANTS CapacityKept
PROPERTIES RetiredForgotten
