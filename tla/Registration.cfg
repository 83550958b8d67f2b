SPECIFICATION MCSpec
CONSTANTS
  a = a
  b = b
  Hosts <- TwoHosts
  NoHost = NoHost
  MaxId = 2
  Taken = {0}
  RootId = 1
  MaxNet = 2
  MaxChanges = 1
PROPERTIES
  Settles
INVARIANTS
  RegTypeOK
  ConfirmedUnlessCrossed
