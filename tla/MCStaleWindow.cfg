CONSTANTS
  Windows = {w1, w2}
  MaxPanes = 2
  Addrs = {a1, a2}
  Tags = {"mouse_shape", "new_tab", "undo", "new_window", "close_tab", "close_window", "quit", "move_tab_to_new_window"}
  MaxQueue = 2
  MaxReloads = 2
  MaxEdits = 1
  Configs = {1, 2, 3, 4, 5, 6}
  Lost = Lost
SPECIFICATION MCSpec
SYMMETRY CallbackSymmetry
INVARIANT NothingStale
CHECK_DEADLOCK FALSE
