\* Two connections in the gateway's sense, three losses.
SPECIFICATION FairSpec
CONSTANTS
  Sockets = {s1, s2, s3}
  NoSocket = NoSocket
  MaxConnects = 2
  MaxLosses = 3
CHECK_DEADLOCK FALSE
INVARIANTS
  OneSocket
  DisconnectLeavesNothing
  GatewayKnows
  NobodyIsStuck
PROPERTIES
  ComesBack
  DisconnectEnds
