SPECIFICATION FairSpec
CONSTANTS
  Mappings = {1, 2}
  Uuids = {u, w}
  Names = {a, b}
  Readings = {v1}
  Null = Null
  Absent = Absent
  Deleted = Deleted
  MaxCalls = 1
  MaxChanges = 5
INVARIANT NewestShown
PROPERTIES RepairedByUpdates MarkedByUpdates
