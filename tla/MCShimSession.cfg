SPECIFICATION Spec
CONSTANTS
  Shims = {s1, s2}
  Shells = {t1}
  Windows = {w1, w2}
  Null = Null
  Codes = {0, 3}
  MaxQueue = 2
INVARIANTS
  ShimHeld
  OneWsl
  CodeIsTheSessions
  NoOrphan
SYMMETRY Symmetry
CHECK_DEADLOCK FALSE
