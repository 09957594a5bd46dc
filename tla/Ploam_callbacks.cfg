\* Discovery without callbacks.
SPECIFICATION Spec
CONSTANTS
  Message <- Discovery
  Bcast = 255
  RxQueueSize = 3
  FifoDepth = 1
  Callbacks = FALSE
  LofEvents <- NoLof
INVARIANT DiscoveryIsLit
