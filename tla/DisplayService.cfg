SPECIFICATION MCSpec
CONSTANTS
  Conns = {c1, c2}
  NeedSnapshot = TRUE
  NoOp = NoOp
  None = None
  Lists <- SomeLists
  Idx = 1
  c1 = c1
  c2 = c2
  g = g
  h = h
INVARIANTS
  DisplayTypeOK
  SyncedIsSent
PROPERTIES
  SubscribersKnow
  CapturerSettles
CHECK_DEADLOCK FALSE
