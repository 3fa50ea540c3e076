SPECIFICATION Spec
CONSTANTS
  n1 = n1  n2 = n2  u1 = u1  u2 = u2
  Central = central
  Nodes = {n1, central}
  Users = {u1, u2}
  Retained = 1
  Capacity = 9
  NodeLimit = 9
  MaxEpochs <- ThreeEpochs
  MaxSamples <- ThreeSamples
  MaxLost = 1
  MaxRepeats = 1
  MaxRestarts = 0
  MaxLeft = 0
CHECK_DEADLOCK FALSE
SYMMETRY Accounts
INVARIANTS TypeOK ExactUsers RetiredStaysOut
PROPERTIES ViewSpec
