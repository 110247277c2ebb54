CONSTANTS
  Shims = {s1, s2}
  Shells = {t1}
  Windows = {w1}
  Null = Null
  Codes = {0}
  MaxQueue = 1
  Tabs = {t1, t2}
  None = None
  Timeouts = {0, 1}
SPECIFICATION MCFairSpec
PROPERTIES
  ParkedEnds
  NeverLeftHanging
  JoinEnds
CHECK_DEADLOCK FALSE
