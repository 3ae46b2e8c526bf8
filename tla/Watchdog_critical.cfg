CONSTANTS
  WatchdogSec = 30
  PollInterval = 10
  MaxDelay = 1
  LossyNotify = FALSE
SPECIFICATION FairSpec
PROPERTY PersistentCriticalRestarts
