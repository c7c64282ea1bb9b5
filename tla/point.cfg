SPECIFICATION Spec
CONSTANTS
  Base = 2
  FloatOf <- Float
  FloatBits <- Bits
  HalfOf <- Half
  DoubleWords <- Double
  MaxLength = 2
  Rows <- First
  Edits <- SomeEdits
  CovThreshold = 3
  Commands <- Written
  Memories <- Contents
  Places = {0, 1}
  Pollers = {greenlet}
  Overtaking <- Meanwhile
  MaxCrashes = 1
  None = None
INVARIANTS
  ArrayIffWritable
  EditsSettle
  GroupReadsAlone
  GroupWritesAlone
  WrittenReadsBack
  RangesOrdered
PROPERTIES StoreShowsRow
