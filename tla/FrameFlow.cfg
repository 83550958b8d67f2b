SPECIFICATION MCSpec
CONSTANTS
  monitor0 = monitor0
  camera0 = camera0
  web = web
  native = native
  Services <- TwoServices
  Conns = {web, native}
  DisplayIdx <- SameIndex
  AckRequired <- WebAcks
  MaxWaits = 1
  MaxFrames = 1
INVARIANTS
  TypeOK
  RecordOnlyWhilePending
  NoSpuriousStall
PROPERTY WaitEnds
CHECK_DEADLOCK FALSE
