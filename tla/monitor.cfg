SPECIFICATION MonitorSpec
CONSTANTS
  Subject <- MCSubject
  Value = {0, 1}
  Rate = 2
  Fd = {3, 4, 5}
  Client = {m1, m2}
  Name = {n1}
  SetId = {0, 2}
INVARIANTS
  RateKept
  ReadsInTurn
  OutputFlows
  FdsAreOwned
PROPERTY
  LatestIsSent
CHECK_DEADLOCK FALSE
