CONSTANTS
  Tabs = {t1}
  Panes = {p1, p2}
  Window = Window
  MaxQueue = 2
SPECIFICATION CloseSpec
INVARIANT PendingIsADialog
CHECK_DEADLOCK FALSE
