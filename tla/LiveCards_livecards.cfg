SPECIFICATION BudgetSpec
CONSTANTS
  n1 = n1  n2 = n2
  Nodes = {n1, n2}
  Overview = overview
  Every = 1
  MaxReports = 1
  MaxTroubles = 3
CHECK_DEADLOCK FALSE
INVARIANTS TypeOK OneCard Accounted
PROPERTIES NoTopicLetGo CardsSettle
