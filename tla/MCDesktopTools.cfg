\* Two calls of any tools, while the session is locked and unlocked.
SPECIFICATION FairSpec
CONSTANTS
  Calls = {c1, c2}
  TokenSet = TRUE
  HasBus = TRUE
  HintKnown = TRUE
  MaxLocks = 2
INVARIANTS
  LockedIsNotCaptured
  FilesAreRemoved
  ReportsAreTrue
  

  
\* All calls may be over.
CHECK_DEADLOCK FALSE
