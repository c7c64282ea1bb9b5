SPECIFICATION Spec
CONSTANTS
  Registers = {0, 1, 2, 3}
  Lengths = {1, 2}
  Widths = {1, 2}
  MaxPoints = 3
  MaxEdits = 1
  Limit = 4
  None = None
INVARIANTS RequestsContiguous RequestsWithinLimit EveryPointRequested NoNeedlessSplit OwnRegister
\* The pass ends.
CHECK_DEADLOCK FALSE
