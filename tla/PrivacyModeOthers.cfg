SPECIFICATION Spec
CONSTANTS
  Conns = {c1, c2}
  None = None
PROPERTY OthersLeaveItOn
