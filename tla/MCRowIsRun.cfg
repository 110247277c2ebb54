CONSTANTS
  Actions = {a, b}
  Nothing = Nothing
  MaxRows = 2
  MaxEntries = 3
  MaxEdits = 2
SPECIFICATION PaletteSpec
SYMMETRY ActionSymmetry
INVARIANT RowIsRun
CHECK_DEADLOCK FALSE
