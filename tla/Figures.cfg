\* The mailbox with a party that holds, or none, a deploy and two crashes; trees
\* of 3, 7 and 15 cells; four cards, one refusable and two doubtful; two hosts,
\* both for books, and every way they fail.
CONSTANTS
  ServiceS = 2
  MigrateS = 2
  RestartS = 2
  Parked = 2
  Backlog = 1
  Burst = 2
  MaxMessages = 5
  MaxCrashes = 2
  Depths = {1, 2, 3}
  MaxSpeed = 3
  MaxStarts = 2
  NCards = 4
  Refusable = {2}
  Doubtful = {1, 4}
  None = None
  MaxMoves = 4
  NHosts = 2
  Books = {0, 1}
  StockCapacity = 1
  LedgerCapacity = 1
  NoticeS = 1
  SuspectS = 1
  HostRestartS = 1
  SettleS = 1
  Travel = 1
  Bounce = 1
  Lengths = {2}
  MaxSessions = 2
  MaxRevives = 2
SPECIFICATION Spec
INVARIANTS MailboxOK WalkOK SectionOK
PROPERTIES DeployLands NoFlicker FollowsReader EverySessionEnds SeatIsFilled
