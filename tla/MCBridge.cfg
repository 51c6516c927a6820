\* Two turns that may share a conversation, and an adapter that reconnects once.
SPECIFICATION Spec
CONSTANTS
  Turns = {t1, t2}
  Chats = {c1}
  MaxSockets = 2
  MaxFrames = 2
  ClientWaits = FALSE
  NoTurn = NoTurn
  NoChat = NoChat
INVARIANTS
  RoutesAreExact
  AnswersFitTurns
  OfflineMeansNotSent
\* Every turn may be over and every connection used.
CHECK_DEADLOCK FALSE
