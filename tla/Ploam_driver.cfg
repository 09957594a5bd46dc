\* The engine as falcon_gpon_probe leaves it; falcon_ploam_event_lof is called too.
SPECIFICATION Spec
CONSTANTS
  Message <- Mixed
  Bcast = 255
  RxQueueSize = 2
  FifoDepth = 1
  Callbacks = FALSE
  LofEvents = {TRUE, FALSE}
INVARIANTS OperationUndisturbed StandbyForgetsId NoMessageStranded
