\* The intervals of hw-fault-monitor.service and hw-fault-monitor.c.
CONSTANTS
  WatchdogSec = 30
  PollInterval = 10
  MaxDelay = 4
  LossyNotify = TRUE
SPECIFICATION Spec
INVARIANTS
  TypeOK
  KilledForCause
  PingWithinTwoWakeups
