\* A ring of five slots, three different messages.
SPECIFICATION RxSpec
CONSTANTS
  Message = {m1, m2, m3}
  NoMessage = none
  RxQueueSize = 5
PROPERTY RefinesOverrunQueue
