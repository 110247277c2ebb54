CONSTANTS
  Tabs = {t1, t2, t3}
  None = None
  Timeouts = {0, 1}
SPECIFICATION MCSpec
SYMMETRY TabSymmetry
INVARIANTS
  ContainersAgree
  SurfaceOwned
  OnePanelShows
  SlidingWindow
  RedoCandidates
  PressForgotten
PROPERTY KeepsPromise
CHECK_DEADLOCK FALSE
