CONSTANTS
  Windows = {w1, w2}
  Tabs = {t1, t2, t3}
  None = None
  Panes = {t1, t2, t3}
  Strip = {w1, w2}
  Null = Null
  MaxEvents = 2
  Actions = {w1, w2}
  Nothing = Nothing
  MaxRows = 2
  MaxEntries = 3
  MaxEdits = 2
SPECIFICATION MCSpec
SYMMETRY MoveSymmetry
INVARIANTS
  OneHome
  NothingLost
  NoStrayWindow
  InputFollowsFocus
  FocusAgreed
  FreshListRuns
PROPERTY DragMovesGrabbed
CHECK_DEADLOCK FALSE
