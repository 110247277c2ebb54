SPECIFICATION Spec
CONSTANTS
  Shims = {s1}
  Shells = {t1}
  Windows = {w1}
  Null = Null
  Codes = {0}
  MaxQueue = 1
INVARIANT RefusalRunsWsl
CHECK_DEADLOCK FALSE
