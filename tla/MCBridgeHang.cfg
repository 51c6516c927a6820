\* One turn whose adapter goes away.
SPECIFICATION FairSpec
CONSTANTS
  Turns = {t1}
  Chats = {c1}
  MaxSockets = 1
  MaxFrames = 1
  ClientWaits = TRUE
  NoTurn = NoTurn
  NoChat = NoChat
PROPERTY AdapterLossEndsTurn
CHECK_DEADLOCK FALSE
