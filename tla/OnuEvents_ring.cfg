\* One reader (omcid), two producers, a ring that overflows after two events.
SPECIFICATION FairSpec
CONSTANTS
  Event <- MCEvent
  Producers = {worker, isr}
  Readers = {evthdl}
  ONU_FIFO_DEPTH = 3
INVARIANTS NoLostWakeup ReadableIsKept
PROPERTIES RefinesQueue UnreadIsRead
