CONSTANTS
  MaxLimit = 3
  AtLimit = TRUE
  MaxFaults = 1
SPECIFICATION FairSpec
INVARIANTS
  TypeOK
  FallbackEarned
PROPERTIES
  RequestHonoured
  EventuallyUp
