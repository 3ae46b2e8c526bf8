CONSTANTS
  MaxLimit = 2
  AtLimit = TRUE
  MaxFaults = 0
SPECIFICATION FairSpec
PROPERTY InstalledSlotStarted
