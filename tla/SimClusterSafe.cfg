\* The page's three hosts, two of them for books, with one slot each.
CONSTANTS
  NHosts = 3
  Books = {1, 2}
  StockCapacity = 1
  LedgerCapacity = 2
  NoticeS = 2
  SuspectS = 1
  RestartS = 1
  SettleS = 2
  Travel = 1
  Bounce = 1
  Lengths = {1, 6}
  None = None
  MaxSessions = 3
  MaxRevives = 1
SPECIFICATION Spec
INVARIANTS ClusterOK SessionsOK DetectorOK
PROPERTIES LedgerHandsOver
