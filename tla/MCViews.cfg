CONSTANTS
  Null = Null
  None = None
  Panes = {p1, p2, p3}
  Nodes <- Addresses
  Alloc <- LowestFirst
  Windows = {w1, w2}
  Tabs = {p1, p2, p3}
  Controls = {c1, c2}
  Configs <- TwoConfigs
  Colours <- TwoColours
  Red = Red
  Blue = Blue
  Black = Black
  MaxReloads = 2
  MaxToggles = 1
SPECIFICATION MCSpec
SYMMETRY ViewSymmetry
INVARIANTS
  PointersLive
  PanelShowsTree
  SurfacesHeld
  WearsItsMode
  SnapsAsConfigured
PROPERTIES
  StaysInPlace
  KeepsRow
CHECK_DEADLOCK FALSE
