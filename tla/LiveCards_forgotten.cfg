SPECIFICATION FairSpec
CONSTANTS
  n1 = n1  n2 = n2
  Nodes = {n1}
  Overview = overview
  Every = 1
  MaxReports = 1
  MaxTroubles = 3
CHECK_DEADLOCK FALSE
INVARIANTS NothingLeftBehind
