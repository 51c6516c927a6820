\* A first message typed while the process is down.
SPECIFICATION FairSpec
CONSTANTS
  MaxRequests = 2
  Sessions = {s1}
  HistoryLengths = {1}
  NoSession = NoSession
PROPERTY CreatingEnds
CHECK_DEADLOCK FALSE
