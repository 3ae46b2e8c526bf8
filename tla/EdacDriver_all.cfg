\* Two locations; the 32-bit counter wraps at 3, so a third queued error of a
\* kind overflows it, and a batch of two is cut by the core's u16.
CONSTANTS
  NrCsrows = 2
  NrChannels = 1
  CeLimit = 1
  UeLimit = 1
  HalfRange = 3
  CountRange = 2
  MaxQueued = 3
  IrqModes = {TRUE, FALSE}
SPECIFICATION FairSpec
INVARIANTS
  TypeOK
  Conserved
  StatsAgree
  NoUseAfterFree
  RasLoggedBeforeClear
  AttributedWhenTargetStable
  LocationsInTopology
PROPERTIES
  ErrorsAccounted
  EventuallyCounted
  RasEventuallyLogged
