SPECIFICATION MCSpec
CONSTANTS
  Conns = {r1, r2}
  first = r1
  Linux = FALSE
  MaxQueue = 1
INVARIANTS
  TypeOK
  WakeLockUnlessOvertaken
  RestoredUnlessIntruded
CHECK_DEADLOCK FALSE
PROPERTIES
  SettingIsApplied
