\* The figures, and any events: sessions with up to two hosts down at once, or
\* patches with one.
CONSTANTS
  Hosts = {0, 1, 2, 3}
  Serving = {1, 2, 3}
  Labelled = {2, 3}
  Initiator = 0
  SuspectS = 2
  LegS = 1
  ChipS = 1
  Stagger = 0
  Hops <- OneTickHops
  Burst = 2
  MaxSessions = 3
  MaxStops = 2
  MaxPatches = 3
SPECIFICATION PageSpec
CONSTRAINT OneOfBoth
INVARIANTS SessionsOK NewCodeOnItsCard
PROPERTIES ChangesAreEarned CardsComeTrue
