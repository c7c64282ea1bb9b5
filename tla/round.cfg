SPECIFICATION FairSpec
CONSTANTS
  Devices = {1, 2}
  HasPing = {1}
  Polls = 2
  Broken <- SecondOfSecond
  Unstored <- SecondOfFirst
  Manual = {m1}
  Poller = poller
  Net = net
  MaxChanges = 2
  None = None
INVARIANT OnlyUnrefreshedKills
PROPERTIES ContactClearsNetwork RoundInOrder EveryDeviceTried FaultsCleared FaultsRaised
\* The greenlet may be gone, and no device there to ask for.
CHECK_DEADLOCK FALSE
