\* Two turns on one connection: every turn ends as promised.
SPECIFICATION FairSpec
CONSTANTS
  Turns = {t1, t2}
  Chats = {c1}
  MaxSockets = 1
  MaxFrames = 2
  ClientWaits = FALSE
  NoTurn = NoTurn
  NoChat = NoChat

  
PROPERTIES
  ImplementsChatTurns
  
CHECK_DEADLOCK FALSE
