SPECIFICATION FairSpec
CONSTANTS
  Points = {p1, p2}
  PointNames = {a, b}
  DeviceNames = {x}
  Readings = {v1}
  Null = Null
  Fault = Fault
  New = New
  Deleted = Deleted
  NoMessage = NoMessage
  MaxChanges = 4
PROPERTY OldNamesCleared
