SPECIFICATION Spec
CONSTANTS
  Conns = {c1, c2}
  Ids = {1, 2}
  Sessions = {s1, s2}
  None = None
  ChanSize = 1
  ReplayMax = 1
  MaxOutput = 2
INVARIANTS
  StreamIsWhole
  DataBeforeClosed
  NonPersistentIsServed
PROPERTY IsStream
SYMMETRY Symmetry
CHECK_DEADLOCK FALSE
CONSTRAINT FewAtOnce
