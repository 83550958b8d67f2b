SPECIFICATION Spec
CONSTANTS
  Conns = {c1, c2, c3}
  None = None
INVARIANTS
  TypeOK
  BlockedWhileOn
  CoveredWhileOn
  OwnerIsThere
