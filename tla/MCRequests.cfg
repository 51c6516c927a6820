\* Two requests of any kind over two changes in the servers.
SPECIFICATION FairSpec
CONSTANTS
  RequestIds = {r1, r2}
  Sessions = {s1}
  Catalog = {m1}
  Foreign = {m9}
  Rows <- MCRows
  NoModel = NoModel
  RouterConfigured = TRUE
  MaxRows = 2
  MaxEvents = 2
INVARIANTS
  
  AnswersAreCurrent
  ErrorsHaveCause
PROPERTIES
  EveryRequestEnds
\* All requests may be answered.
CHECK_DEADLOCK FALSE
