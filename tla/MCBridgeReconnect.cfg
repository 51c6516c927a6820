\* An adapter that reconnects before the daemon has noticed the loss.
SPECIFICATION Spec
CONSTANTS
  Turns = {t1}
  Chats = {c1}
  MaxSockets = 2
  MaxFrames = 1
  ClientWaits = TRUE
  NoTurn = NoTurn
  NoChat = NoChat
INVARIANT ConnectedIffRegistered
CHECK_DEADLOCK FALSE
