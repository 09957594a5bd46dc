\* Actions outlast action_timeout, requests are repeated, the ONU leaves operation.
SPECIFICATION Spec
CONSTANTS
  Requests <- Provisioning
  HighPrio = {3}
  FifoSize = 2
  Slow = TRUE
  Failsafe = TRUE
  PloamStates = {2}
  MaxRepeats = 2
INVARIANTS OneAction AtMostOnce LockReleased BusyNamesRunning
PROPERTY RequestIsStable
