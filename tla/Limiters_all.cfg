SPECIFICATION FairSpec
CONSTANTS
  Node = {n1}
  Collector = {c1, c2}
  MaxPerHour = 2
  Cooldown = 1
  Hour = 4
  PollInterval = 2
  Fingerprint = {f1, f2, f3}
  Handled = {f1, f2}
  COOLDOWN_SECONDS = 3
  HandlerTimeout = 2
  MaxAlerts = 2
  MaxBacklog = 1
INVARIANT DeletionsBounded
PROPERTIES RestartLimit HandlerLimit RequestAnswered
