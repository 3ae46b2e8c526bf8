SPECIFICATION FairSpec
CONSTANTS
  SelNode = {n1, n2}
  MaxRecords = 2
  MaxTotal = 2
  MaxEntries = 3
  WINDOW = 1
  Line <- MCLine
  MaxSeen = 100
  MaxTime = 3
  MaxLines = 3
  Alert = {a1, a2, a3}
  MaxAttempts = 2
  Mc = {m1, m2}
  Burst = 2
  SeqModulus = 2
  MaxCe = 2
  MaxTrain = 3
  Dev = {d1, d2}
  MaxCount = 1
  Package = {p1}
  EnergyRange = 3
  MaxBurn = 4
  Limits = {0, 2}
  MIN_HISTORY = 2
  RANGE = 3
  MAX_DAYS = 20
  FullWear = 3
  Soon = 3
  MaxStep = 1
  WearEnd = 4
  EventTypes <- MCEventTypes
  LocLines = 2
  TypeLines = 3
  MaxLog = 4
INVARIANTS WearReported
