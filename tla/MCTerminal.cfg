CONSTANTS
  Buttons = {L, R, M}
  Left = L
  Right = R
  Chars = {x, y}
  MaxText = 2
  MaxDoc = 4
  MaxDrops = 2
  Scales = {0, 2, 3}
  Dips = {0, 5, 7}
  MaxEvents = 2
  Tabs = {t1, t2}
  Panes = {p1, p2, p3}
  Window = Window
  MaxQueue = 2
SPECIFICATION MCSpec
SYMMETRY TerminalSymmetry
INVARIANTS
  NoPhantomDrag
  BufferIsComposition
  NothingDeadUsed
  FollowsPanel
  FlagsMatchDialog
PROPERTIES
  CommitIsWhole
  ConfirmedEnd
CHECK_DEADLOCK FALSE
