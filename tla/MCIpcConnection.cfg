\* Two requests, under one id or two, on a queue that is full with one message.
SPECIFICATION FairSpec
CONSTANTS
  MaxRequests = 2
  Ids = {i1, i2}
  CONN_QUEUE = 1
  MaxExtras = 1
  NoId = NoId
INVARIANTS
  InFlightIsExact
  OnlyAskedAreCancelled
  RepliesAreKept
  
PROPERTIES
  ClientSeesTurns
  
  
  DeadClientBlocksNobody
\* A connection may be over, and a client may leave it idle.
CHECK_DEADLOCK FALSE
