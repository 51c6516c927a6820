\* Four requests: enough for two conversations created, chosen and written to.
SPECIFICATION FairSpec
CONSTANTS
  MaxRequests = 4
  Sessions = {s1, s2}
  HistoryLengths = {1, 2}
  NoSession = NoSession
INVARIANTS
  StopIsNotStuck
  BubblesShowTheirOwn
  TextsAreSentOnce
 
\* Everything may be answered, and the user may leave it there.
CHECK_DEADLOCK FALSE
