SPECIFICATION Spec
CONSTANTS
  Conns = {c1, c2}
  NeedSnapshot = TRUE
  NoOp = NoOp
  Cursors = {k1, k2}
  NoCursor = NoCursor
  Nothing = Nothing
INVARIANTS
  TypeOK
  NoLeakedSubscription
  SubscribersInSync
PROPERTIES
  KeepsPromise
  WaitingIsSwapped
CHECK_DEADLOCK FALSE
