SPECIFICATION FairSpec
CONSTANTS
  Values = {0, 1, 2}
  Setups <- Points
  Manual = {m1}
  Poller = poller
  None = None
INVARIANTS StoreTellsDevice SkippedOnlyIfThere
PROPERTIES FallbackTakesOver WrittenOnce CommandReachesDevice ServesPoint
\* Nothing need be written and nobody need ask for anything.
CHECK_DEADLOCK FALSE
