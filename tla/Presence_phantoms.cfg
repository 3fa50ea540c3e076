SPECIFICATION Spec
CONSTANTS
  n1 = n1  n2 = n2  u1 = u1  u2 = u2
  Central = central
  Nodes = {n1, central}
  Users = {u1}
  Retained = 2
  Capacity = 9
  NodeLimit = 9
  MaxEpochs <- TwoEpochs
  MaxSamples <- ThreeSamples
  MaxLost = 1
  MaxRepeats = 0
  MaxRestarts = 0
  MaxLeft = 0
CHECK_DEADLOCK FALSE
PROPERTIES NoPhantoms
