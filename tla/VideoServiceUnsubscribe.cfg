SPECIFICATION Spec
CONSTANTS
  Conns = {c1, c2, c3}
  NeedSnapshot = TRUE
  NoOp = NoOp
PROPERTY UnnecessaryCapturerIsRemoved
CHECK_DEADLOCK FALSE
