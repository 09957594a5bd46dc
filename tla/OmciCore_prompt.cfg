\* Every action ends in time; the ONU may leave operation.
SPECIFICATION FairSpec
CONSTANTS
  Requests <- Refused
  HighPrio = {4}
  FifoSize = 2
  Slow = FALSE
  Failsafe = FALSE
  PloamStates = {1, 2}
  MaxRepeats = 2
PROPERTIES ServedIsAnswered RequestsAreTaken
