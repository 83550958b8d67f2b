SPECIFICATION MCSpec
CONSTANTS
  Conns = {c1, c2}
  MaxTemp = 2
  Permanent = Permanent
  Empty = Empty
  None = None
INVARIANTS
  TypeOK
  RetryIsLetIn
  OneTime
CHECK_DEADLOCK FALSE
SYMMETRY Symmetry
