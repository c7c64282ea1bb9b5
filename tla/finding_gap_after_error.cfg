SPECIFICATION Spec
CONSTANTS
  Registers = {0, 1, 2, 3, 4, 5}
  Lengths = {1, 2}
  Widths = {1, 2}
  MaxPoints = 3
  MaxEdits = 0
  Limit = 4
  None = None
INVARIANT RequestsAlwaysContiguous
\* The pass ends.
CHECK_DEADLOCK FALSE
