\* Discovery and its end by timeout, loss of signal or DISABLE, with fairness.
SPECIFICATION FairSpec
CONSTANTS
  Message <- Discovery
  Bcast = 255
  RxQueueSize = 3
  FifoDepth = 1
  Callbacks = TRUE
  LofEvents <- NoLof
INVARIANT LaserGuarded
PROPERTIES LaserGoesOff QueuedIsHandled
