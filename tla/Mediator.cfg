SPECIFICATION MCSpec
CONSTANTS
  Servers = {s1, s2}
  first = s1
  other = r2
  Callers = {r1, r2}
  Conns = {c1}
INVARIANTS
  TypeOK
  FreshUnlessSwallowed
PROPERTIES
  LongPauseUnlessRestarted
  RestartIsServed
  StopClosesConnections
