SPECIFICATION MeterSpec
CONSTANTS
  e1 = e1  e2 = e2
  Cards = {e1, e2}
  Packet = 5
  Window = 3
  Extra = 1
  Bucket = 2
  Fresh = 1
  Lag = 2
  SaveEvery = 1
  FlushEvery = 2
  Day = 4
  Retain = 2
  Scale = 5040
  Nothing = Nothing
  Horizon = 9
  Plans <- SidePlans
CHECK_DEADLOCK FALSE
INVARIANTS MeterTypeOK NeverOvercounts CompleteIsTrue DailyExact
