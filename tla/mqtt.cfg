SPECIFICATION FairSpec
CONSTANTS
  Points = {p1, p2}
  PointNames = {a, b}
  DeviceNames = {x, y}
  Readings = {v1}
  Null = Null
  Fault = Fault
  New = New
  Deleted = Deleted
  NoMessage = NoMessage
  MaxChanges = 4
INVARIANT PublishedIsShown
PROPERTY UnknownCleared
