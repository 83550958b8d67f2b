SPECIFICATION Spec
CONSTANTS
  Conns = {c1, c2}
  NeedSnapshot = TRUE
  NoOp = NoOp
INVARIANTS
  KeyFrameFirst
PROPERTIES
  KeepsPromise
  RefreshIsServed
  JoinReturns
CHECK_DEADLOCK FALSE
