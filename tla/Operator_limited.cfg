SPECIFICATION OpSpec
CONSTANTS
  Node = {n1}
  Collector = {c1}
  MaxPerHour = 2
  Cooldown = 1
  Hour = 6
  PollInterval = 2
INVARIANT LimitedAfterRestarts
